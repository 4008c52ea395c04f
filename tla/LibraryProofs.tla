--------------------------- MODULE LibraryProofs ---------------------------
(***************************************************************************)
(* The library as it is written and as it is read: safety of the upload    *)
(* batch (LibraryUpload), for any number of concurrent uploads, any        *)
(* batches, texts and Pixiv ids, and of the browsing list with the second  *)
(* queries beside it (Catalogue), for any rows, searches, edits and page   *)
(* sizes.  None of the properties of their runs is inductive; IndInv and   *)
(* CatalogueInv below are, and imply them.                                 *)
(***************************************************************************)
EXTENDS LibraryUpload, Catalogue, FiniteSetTheorems, FunctionTheorems,
        SequenceTheorems, TLAPS

----------------------------------------------------------------------------
(* LibraryUpload *)

\* Phases an upload can be in without the advisory lock, phases in which it
\* handles a text that has no row, and those before it has its coordinate.
Outer   == {"idle", "resolve", "open", "file"}
NewText == {"floor", "next", "setval", "again", "write", "insert"}
Floored == {"next", "setval", "again"}
Drawn   == {"write", "insert"}

\* The rows an open transaction has inserted or changed.
Written(u) == up[u].made \cup up[u].patched

\* No DELETE request has taken a row's files, or they are there.
HasFiles(r) ==
    r.coord \notin stripped =>
        <<r.coord, "txt">> \in files /\ (r.epub => <<r.coord, "epub">> \in files)

\* A row's coordinate has been given and no batch is about to unlink its files.
Sound(r) == r.coord <= top /\ r.coord \notin unlinking /\ HasFiles(r)

\* Whoever has written rows, or looks at a file, holds the lock.
LockHeld ==
    \A u \in Uploads :
        lock # u => /\ up[u].phase \in Outer
                    /\ up[u].made = {} /\ up[u].patched = {}

\* Past the precheck there is a readable file at hand.
FileAtHand ==
    \A u \in Uploads :
        up[u].phase \notin Outer => up[u].left # <<>> /\ Readable(File(u))

\* The sequence is past every coordinate given, and will be past the floor.
SequenceAhead ==
    /\ top < seq
    /\ \A u \in Uploads :
         /\ up[u].phase \in Floored => up[u].floor > up[u].saw
         /\ At(u, "setval") => up[u].floor >= seq
         /\ At(u, "again") => seq >= up[u].floor

\* Rows, and what an upload has made or changed, have one row per coordinate.
OneRowPerCoord ==
    /\ \A r, s \in rows : r.coord = s.coord => r = s
    /\ \A u \in Uploads :
         /\ \A r, s \in up[u].made : r.coord = s.coord => r = s
         /\ \A r, s \in up[u].patched : r.coord = s.coord => r = s
         /\ \A m \in up[u].made, r \in rows \cup up[u].patched : m.coord # r.coord

RowsSound ==
    /\ \A r \in rows : Sound(r)
    /\ \A u \in Uploads : \A r \in Written(u) : Sound(r)
    /\ \A c \in unlinking : c <= top

\* A coordinate just drawn is nobody's, and once written has its files.
CoordIsFree ==
    \A u \in Uploads :
        /\ up[u].phase \in Drawn =>
             /\ up[u].coord <= top /\ up[u].coord \notin unlinking
             /\ \A r \in rows \cup Written(u) : r.coord # up[u].coord
        /\ At(u, "insert") => /\ <<up[u].coord, "txt">> \in files
                              /\ File(u).epub => <<up[u].coord, "epub">> \in files

\* The text at hand has no row.
TextIsNew ==
    \A u \in Uploads :
        up[u].phase \in NewText => \A r \in Seen(u) : r.body # File(u).body

IndInv == /\ TypeOK /\ LockHeld /\ FileAtHand /\ SequenceAhead
          /\ OneRowPerCoord /\ RowsSound /\ CoordIsFree /\ TextIsNew

\* A step gives out only coordinates past all given before and past the newest
\* Pixiv id the upload has seen.
Climbs ==
    \A u \in Uploads :
      ~At(u, "write") /\ up'[u].phase = "write" =>
         up'[u].coord > top /\ up'[u].coord > up'[u].saw

\* What is shown of every step.
StepKept == IndInv' /\ Climbs
----------------------------------------------------------------------------
(* Records and steps *)

USE DEF deleteVars

\* The fields of an upload, and of a row, have their types.
LEMMA UploadFields ==
    ASSUME NEW R \in Upload
    PROVE  /\ R.phase \in Phases /\ R.left \in Seq(Payload)
           /\ R.preset \in BOOLEAN /\ R.placed \in BOOLEAN
           /\ R.target \in Nat /\ R.saw \in Nat /\ R.floor \in Nat /\ R.coord \in Nat
           /\ R.made \subseteq Row /\ R.patched \subseteq Row
  BY DEF Upload

LEMMA RowFields ==
    ASSUME NEW r \in Row
    PROVE  r.coord \in Nat /\ r.body \in Bodies /\ r.authored \in BOOLEAN
           /\ r.epub \in BOOLEAN
  BY DEF Row

\* An upload that goes on to the next phase of a file keeps file and rows.
Onward(R, X, ph) ==
    /\ X \in Upload /\ X.phase = ph /\ X.left = R.left
    /\ X.made = R.made /\ X.patched = R.patched

LEMMA PhaseStep ==
    ASSUME NEW R \in Upload, NEW ph \in Phases
    PROVE  /\ Onward(R, [R EXCEPT !.phase = ph], ph)
           /\ [R EXCEPT !.phase = ph].floor = R.floor
           /\ [R EXCEPT !.phase = ph].saw = R.saw
           /\ [R EXCEPT !.phase = ph].coord = R.coord
  BY DEF Upload, Onward

LEMMA TargetStep ==
    ASSUME NEW R \in Upload, NEW ph \in Phases, NEW t \in Nat
    PROVE  Onward(R, [R EXCEPT !.phase = ph, !.target = t], ph)
  BY DEF Upload, Onward

LEMMA CoordStep ==
    ASSUME NEW R \in Upload, NEW ph \in Phases, NEW c \in Nat
    PROVE  /\ Onward(R, [R EXCEPT !.phase = ph, !.coord = c], ph)
           /\ [R EXCEPT !.phase = ph, !.coord = c].coord = c
           /\ [R EXCEPT !.phase = ph, !.coord = c].saw = R.saw
  BY DEF Upload, Onward

LEMMA PlacedStep ==
    ASSUME NEW R \in Upload, NEW ph \in Phases, NEW q \in BOOLEAN
    PROVE  Onward(R, [R EXCEPT !.phase = ph, !.placed = q], ph)
  BY DEF Upload, Onward

LEMMA NextFileEffect ==
    ASSUME NEW R \in Upload, R.left # <<>>
    PROVE  /\ NextFile(R) \in Upload
           /\ NextFile(R).phase = "file" /\ NextFile(R).left = Tail(R.left)
           /\ NextFile(R).made = R.made /\ NextFile(R).patched = R.patched
<1>1. Tail(R.left) \in Seq(Payload)
  BY UploadFields
<1>2. QED
  BY <1>1, UploadFields DEF NextFile, Upload, Phases

LEMMA NoUploadEffect ==
    /\ NoUpload \in Upload /\ NoUpload.phase = "idle"
    /\ NoUpload.made = {} /\ NoUpload.patched = {}
<1>1. <<>> \in Seq(Payload)
  OBVIOUS
<1>2. QED
  BY <1>1 DEF NoUpload, Upload, Phases

----------------------------------------------------------------------------
(* Steps of an upload that write no row *)

\* Upload u becomes X.  Rows stay; files, sequence, top and lock may move as
\* far as the lock allows; X meets what its phase requires.
Moves(u, X) ==
    /\ up' = [up EXCEPT ![u] = X]
    /\ rows' = rows /\ water' = water
    /\ unlinking' = unlinking /\ leaving' = leaving /\ stripped' = stripped
    /\ author' \in BOOLEAN /\ begun' \in 0..MaxBegun
    /\ X.made \subseteq up[u].made /\ X.patched \subseteq up[u].patched
    /\ \/ lock' = lock
       \/ lock \in {u, NoOne} /\ lock' \in {u, NoOne}
    /\ lock' # u => X.phase \in Outer /\ X.made = {} /\ X.patched = {}
    /\ X.phase \notin Outer => X.left # <<>> /\ Readable(Head(X.left))
    /\ top' \in Nat /\ seq' \in Nat \ {0}
    /\ top <= top' /\ top' < seq'
    /\ <<seq, top>>' # <<seq, top>> => lock = u
    /\ X.phase \in Floored => X.floor > X.saw
    /\ X.phase = "setval" => X.floor >= seq'
    /\ X.phase = "again" => seq' >= X.floor
    /\ files' \subseteq Nat \X Formats
    /\ \A f \in files : \/ f \in files'
                        \/ /\ lock = u /\ up[u].phase \in Drawn
                           /\ f[1] = up[u].coord
    /\ X.phase \in Drawn =>
         /\ X.coord <= top' /\ X.coord \notin unlinking
         /\ \A r \in rows \cup X.made \cup X.patched : r.coord # X.coord
    /\ X.phase = "write" /\ up[u].phase # "write" => X.coord > top /\ X.coord > X.saw
    /\ X.phase = "insert" =>
         /\ <<X.coord, "txt">> \in files'
         /\ Head(X.left).epub => <<X.coord, "epub">> \in files'
    /\ X.phase \in NewText =>
         \A r \in Patched(rows, X.patched) \cup X.made : r.body # Head(X.left).body

LEMMA Frame ==
    ASSUME TypeOK, NEW u \in Uploads, NEW X \in Upload,
           up' = [up EXCEPT ![u] = X]
    PROVE  /\ up' \in [Uploads -> Upload]
           /\ up'[u] = X
           /\ \A w \in Uploads : w # u => up'[w] = up[w]
  BY DEF TypeOK

LEMMA MoveKeeps ==
    ASSUME IndInv, NEW u \in Uploads, NEW X \in Upload, Moves(u, X)
    PROVE  StepKept
<1> USE DEF IndInv
<1>1. /\ up' \in [Uploads -> Upload]
      /\ up'[u] = X
      /\ \A w \in Uploads : w # u => up'[w] = up[w]
  BY Frame DEF Moves
<1>2. \A w \in Uploads : w # u => \/ lock' = lock
                                  \/ lock # w /\ lock' # w
  BY UploadAssumption DEF Moves
<1>3. TypeOK'
  BY <1>1, UploadAssumption DEF Moves, TypeOK
<1>4. LockHeld'
  BY <1>1, <1>2 DEF Moves, LockHeld
<1>5. FileAtHand'
  BY <1>1 DEF Moves, FileAtHand, File
<1>6. SequenceAhead'
  <2>1. ASSUME NEW w \in Uploads, w # u
        PROVE  (At(w, "setval") => up[w].floor >= seq)' /\ (At(w, "again") => seq >= up[w].floor)'
    BY <1>1, <2>1 DEF Moves, SequenceAhead, LockHeld, Outer, At
  <2>2. QED
    BY <1>1, <2>1 DEF Moves, SequenceAhead, At
<1>7. OneRowPerCoord'
  BY <1>1 DEF Moves, OneRowPerCoord
<1>8. \A r \in rows : Sound(r)'
  <2>1. ASSUME NEW r \in rows
        PROVE  HasFiles(r)'
    BY DEF Moves, RowsSound, CoordIsFree, Sound, HasFiles
  <2>2. QED
    BY <2>1, RowFields DEF Moves, RowsSound, Sound, TypeOK
<1>9. ASSUME NEW w \in Uploads, NEW r \in Written(w)'
      PROVE  Sound(r)'
  <2>1. r \in Written(w)
    BY <1>1 DEF Moves, Written
  <2>2. r \in Row
    BY <2>1, UploadFields DEF Written, TypeOK
  <2>3. HasFiles(r)'
    <3>1. CASE w = u
      BY <2>1, <3>1 DEF Moves, RowsSound, CoordIsFree, Sound, HasFiles
    <3>2. CASE w # u
      <4>1. lock = w
        BY <2>1 DEF LockHeld, Written
      <4>2. files \subseteq files' /\ stripped' = stripped
        BY <3>2, <4>1 DEF Moves
      <4>3. HasFiles(r)
        BY <2>1 DEF RowsSound, Sound
      <4>4. QED
        BY <4>2, <4>3 DEF HasFiles
    <3>3. QED
      BY <3>1, <3>2
  <2>4. QED
    BY <2>1, <2>2, <2>3, RowFields DEF Moves, RowsSound, Sound, TypeOK
<1>10. RowsSound'
  BY <1>8, <1>9 DEF RowsSound, Moves, TypeOK
<1>11. CoordIsFree'
  <2>1. ASSUME NEW w \in Uploads, w # u, up[w].phase \in Drawn
        PROVE  up[w].coord <= top' /\ files \subseteq files' /\ rows' = rows
    <3>1. lock = w
      BY <2>1 DEF LockHeld, Outer, Drawn
    <3>2. files \subseteq files'
      BY <2>1, <3>1 DEF Moves
    <3>3. up[w].coord \in Nat /\ up[w].coord <= top /\ top \in Nat
      BY <2>1, UploadFields DEF CoordIsFree, TypeOK
    <3>4. QED
      BY <3>2, <3>3 DEF Moves
  <2>2. QED
    BY <1>1, <2>1 DEF Moves, CoordIsFree, Written, At, File, Drawn
<1>12. TextIsNew'
  BY <1>1 DEF Moves, TextIsNew, Seen, File
<1>13. Climbs
  BY <1>1 DEF Moves, Climbs, At
<1>14. QED
  BY <1>3, <1>4, <1>5, <1>6, <1>7, <1>10, <1>11, <1>12, <1>13 DEF StepKept

----------------------------------------------------------------------------
(* Steps of an upload that write a row *)

\* What u sees is committed, or its own.
LEMMA SeenIsReached ==
    ASSUME NEW u \in Uploads, NEW r \in Seen(u)
    PROVE  r \in rows \cup Written(u)
  BY DEF Seen, Patched, Written

\* Upload u becomes X, in which s stands for the row r that u saw.
Rewrites(u, X, r, s) ==
    /\ up' = [up EXCEPT ![u] = X]
    /\ lock = u /\ lock' = u
    /\ rows' = rows /\ water' = water
    /\ unlinking' = unlinking /\ leaving' = leaving /\ stripped' = stripped
    /\ author' = author /\ seq' = seq /\ top' = top /\ begun' = begun
    /\ r \in Seen(u) /\ s.coord = r.coord /\ s.body = r.body
    /\ \/ /\ \E m \in up[u].made : m.coord = s.coord
          /\ X.made = Patched(up[u].made, {s}) /\ X.patched = up[u].patched
       \/ /\ \A m \in up[u].made : m.coord # s.coord
          /\ X.made = up[u].made /\ X.patched = Patched(up[u].patched, {s})
    /\ X.phase \in {"file", "attach"}
    /\ X.phase = "attach" => X.left # <<>> /\ Readable(Head(X.left))
    /\ files \subseteq files' /\ files' \subseteq Nat \X Formats
    /\ HasFiles(s)'

LEMMA RewriteKeeps ==
    ASSUME IndInv, NEW u \in Uploads, NEW X \in Upload, NEW r, NEW s \in Row,
           Rewrites(u, X, r, s)
    PROVE  StepKept
<1> USE DEF IndInv
<1>1. /\ up' \in [Uploads -> Upload]
      /\ up'[u] = X
      /\ \A w \in Uploads : w # u => up'[w] = up[w]
  BY Frame DEF Rewrites
<1>2. \A w \in Uploads : w # u => /\ up[w].phase \in Outer
                                  /\ up[w].made = {} /\ up[w].patched = {}
  BY DEF Rewrites, LockHeld
<1>3. TypeOK'
  BY <1>1 DEF Rewrites, TypeOK
<1>4. LockHeld'
  BY <1>1, <1>2 DEF Rewrites, LockHeld
<1>5. FileAtHand'
  BY <1>1 DEF Rewrites, FileAtHand, File, Outer
<1>6. SequenceAhead'
  BY <1>1 DEF Rewrites, SequenceAhead, At, Floored
<1>7. OneRowPerCoord'
  <2>1. /\ \A a, b \in X.made : a.coord = b.coord => a = b
        /\ \A a, b \in X.patched : a.coord = b.coord => a = b
    BY DEF Rewrites, OneRowPerCoord, Patched
  <2>2. \A m \in X.made, a \in rows \cup X.patched : m.coord # a.coord
    BY DEF Rewrites, OneRowPerCoord, Patched
  <2>3. QED
    BY <1>1, <1>2, <2>1, <2>2 DEF Rewrites, OneRowPerCoord
<1>8. RowsSound'
  <2>1. Sound(s)'
    BY SeenIsReached, UploadFields, RowFields DEF Rewrites, RowsSound, Sound
  <2>2. \A a \in rows \cup Written(u) : Sound(a)'
    BY DEF Rewrites, RowsSound, Sound, HasFiles
  <2>3. Written(u)' \subseteq Written(u) \cup {s}
    BY <1>1 DEF Rewrites, Written, Patched
  <2>4. \A w \in Uploads : w # u => Written(w)' = {}
    BY <1>1, <1>2 DEF Written
  <2>5. ASSUME NEW w \in Uploads, NEW a \in Written(w)'
        PROVE  Sound(a)'
    BY <2>1, <2>2, <2>3, <2>4, <2>5
  <2>6. \A a \in rows' : Sound(a)'
    BY <2>2 DEF Rewrites
  <2>7. \A c \in unlinking' : c <= top'
    BY DEF Rewrites, RowsSound
  <2>8. QED
    BY <2>5, <2>6, <2>7 DEF RowsSound
<1>9. CoordIsFree'
  BY <1>1, <1>2 DEF Rewrites, CoordIsFree, Drawn, Outer, At
<1>10. TextIsNew'
  BY <1>1, <1>2 DEF Rewrites, TextIsNew, NewText, Outer
<1>11. Climbs
  BY <1>1 DEF Rewrites, Climbs, At
<1>12. QED
  BY <1>3, <1>4, <1>5, <1>6, <1>7, <1>8, <1>9, <1>10, <1>11 DEF StepKept

\* The row of a new text.
LEMMA InsertRowKeeps ==
    ASSUME IndInv, NEW u \in Uploads, InsertRow(u)
    PROVE  StepKept
<1> USE DEF IndInv
<1> DEFINE R == up[u]
           n == [coord |-> R.coord, body |-> File(u).body,
                 authored |-> R.preset, epub |-> File(u).epub]
           X == NextFile([R EXCEPT !.made = @ \cup {n}])
<1>1. /\ R \in Upload /\ R.phase = "insert" /\ R.left # <<>>
      /\ Readable(File(u)) /\ lock = u
  BY DEF TypeOK, InsertRow, At, FileAtHand, LockHeld, Outer
<1>2. File(u) \in Payload
  BY <1>1, UploadFields DEF File
<1>3. n \in Row
  BY <1>1, <1>2, UploadFields DEF Row, Payload, Readable
<1>4. /\ X \in Upload /\ X.phase = "file" /\ X.made = R.made \cup {n}
      /\ X.patched = R.patched /\ X.left = Tail(R.left)
  <2>1. Tail(R.left) \in Seq(Payload)
    BY <1>1, UploadFields
  <2>2. QED
    BY <1>1, <1>3, <2>1, UploadFields DEF NextFile, Upload, Phases
<1>5. CASE up' = [up EXCEPT ![u] = NextFile(@)] /\ files' = files \ FilesOf(R.coord)
  <2>1. /\ NextFile(R) \in Upload
        /\ NextFile(R).phase = "file"
        /\ NextFile(R).made = R.made /\ NextFile(R).patched = R.patched
    BY <1>1, NextFileEffect
  <2>2. Moves(u, NextFile(R))
    BY <1>1, <1>5, <2>1 DEF Moves, InsertRow, TypeOK, Outer, Floored, Drawn,
       NewText, SequenceAhead, FilesOf
  <2>3. QED
    BY <2>1, <2>2, MoveKeeps
<1>6. CASE up' = [up EXCEPT ![u] = X] /\ files' = files
  <2>1. /\ up' \in [Uploads -> Upload]
        /\ up'[u] = X
        /\ \A w \in Uploads : w # u => up'[w] = up[w]
    BY <1>4, <1>6, Frame
  <2>2. \A w \in Uploads : w # u => /\ up[w].phase \in Outer
                                    /\ up[w].made = {} /\ up[w].patched = {}
    BY <1>1 DEF LockHeld
  <2> USE DEF InsertRow
  <2>3. TypeOK'
    BY <1>6, <2>1 DEF TypeOK
  <2>4. LockHeld'
    BY <1>1, <2>1, <2>2 DEF LockHeld
  <2>5. FileAtHand'
    BY <1>4, <2>1 DEF FileAtHand, File, Outer
  <2>6. SequenceAhead'
    BY <1>4, <2>1 DEF SequenceAhead, At, Floored
  <2>7. \A r \in rows \cup Written(u) : r.coord # n.coord
    BY <1>1 DEF CoordIsFree, Drawn
  <2>8. OneRowPerCoord'
    <3> HIDE DEF n, X, R
    <3>1. \A r, s \in R.made \cup {n} : r.coord = s.coord => r = s
      BY <2>7 DEF OneRowPerCoord, Written, R
    <3>2. \A m \in R.made \cup {n}, r \in rows \cup R.patched : m.coord # r.coord
      BY <2>7 DEF OneRowPerCoord, Written, R
    <3>3. rows' = rows
      OBVIOUS
    <3>4. QED
      BY <1>4, <2>1, <2>2, <3>1, <3>2, <3>3 DEF OneRowPerCoord, R
  <2>9. Sound(n)
    BY <1>1 DEF Sound, HasFiles, CoordIsFree, Drawn, At
  <2>10. RowsSound'
    BY <1>4, <1>6, <2>1, <2>2, <2>9 DEF RowsSound, Sound, HasFiles, Written
  <2>11. CoordIsFree'
    BY <1>4, <2>1, <2>2 DEF CoordIsFree, Drawn, Outer, At
  <2>12. TextIsNew'
    BY <1>4, <2>1, <2>2 DEF TextIsNew, NewText, Outer
  <2>13. Climbs
    BY <1>4, <2>1 DEF Climbs, At
  <2>14. QED
    BY <2>3, <2>4, <2>5, <2>6, <2>8, <2>10, <2>11, <2>12, <2>13 DEF StepKept
<1>7. QED
  BY <1>5, <1>6 DEF InsertRow

\* The commit: what the upload has written replaces or joins the rows.
LEMMA CommitKeeps ==
    ASSUME IndInv, NEW u \in Uploads, Commit(u)
    PROVE  StepKept
<1> USE DEF IndInv
<1>1. /\ up' \in [Uploads -> Upload]
      /\ up'[u] = NoUpload
      /\ \A w \in Uploads : w # u => up'[w] = up[w]
  BY Frame, NoUploadEffect DEF Commit, Abort
<1>2. rows' \subseteq rows \cup Written(u)
  BY SeenIsReached DEF Commit
<1>3. lock # u => rows' = rows
  BY DEF Commit, LockHeld, Seen, Patched
<1>4. \A w \in Uploads : w # u /\ lock # w => /\ up[w].phase \in Outer
                                              /\ up[w].made = {} /\ up[w].patched = {}
  BY DEF LockHeld
<1>5. TypeOK'
  <2>1. Written(u) \subseteq Row
    BY UploadFields DEF TypeOK, Written
  <2>2. lock' \in Uploads \cup {NoOne} /\ author' \in BOOLEAN
    BY UploadFields DEF TypeOK, Commit, Abort, AuthorThere
  <2>3. QED
    BY <1>1, <1>2, <2>1, <2>2 DEF TypeOK, Commit
<1>6. LockHeld'
  BY <1>1, NoUploadEffect DEF Commit, Abort, LockHeld, Outer
<1>7. FileAtHand'
  BY <1>1, NoUploadEffect DEF FileAtHand, File, Outer
<1>8. SequenceAhead'
  BY <1>1, NoUploadEffect DEF Commit, SequenceAhead, At, Floored
<1>9. OneRowPerCoord'
  <2>1. \A r, s \in rows' : r.coord = s.coord => r = s
    BY DEF Commit, Seen, Patched, OneRowPerCoord
  <2>2. QED
    BY <1>1, <1>3, <1>4, <2>1, NoUploadEffect DEF OneRowPerCoord
<1>10. RowsSound'
  BY <1>1, <1>2, NoUploadEffect DEF Commit, RowsSound, Sound, HasFiles, Written
<1>11. CoordIsFree'
  BY <1>1, <1>3, <1>4, NoUploadEffect DEF Commit, CoordIsFree, Drawn, Outer,
     At, File, Written
<1>12. TextIsNew'
  BY <1>1, <1>3, <1>4, NoUploadEffect DEF TextIsNew, NewText, Outer, Seen, File
<1>13. Climbs
  BY <1>1, NoUploadEffect DEF Climbs, At
<1>14. QED
  BY <1>5, <1>6, <1>7, <1>8, <1>9, <1>10, <1>11, <1>12, <1>13 DEF StepKept

----------------------------------------------------------------------------
(* Each action of an upload keeps the invariant *)

LEMMA BeginKeeps ==
    ASSUME IndInv, NEW u \in Uploads, NEW b \in Batches, NEW p \in BOOLEAN,
           Begin(u, b, p)
    PROVE  StepKept
<1> DEFINE X == [NoUpload EXCEPT !.phase = IF p THEN "resolve" ELSE "open",
                                 !.left = b, !.preset = p]
<1>1. /\ X \in Upload /\ X.phase \in {"resolve", "open"}
      /\ X.made = {} /\ X.patched = {}
  BY UploadAssumption, NoUploadEffect DEF NoUpload, Upload, Phases
<1>2. Moves(u, X)
  BY <1>1, UploadAssumption DEF IndInv, Moves, Begin, TypeOK, Outer, Floored,
     Drawn, NewText, SequenceAhead
<1>3. QED
  BY <1>1, <1>2, MoveKeeps

LEMMA ResolveAuthorKeeps ==
    ASSUME IndInv, NEW u \in Uploads, ResolveAuthor(u)
    PROVE  StepKept
<1> DEFINE X == [up[u] EXCEPT !.phase = "open"]
<1>1. X \in Upload /\ X.phase = "open" /\ X.made = up[u].made /\ X.patched = up[u].patched
  <2>1. up[u] \in Upload /\ "open" \in Phases
    BY DEF IndInv, TypeOK, Phases
  <2>2. QED
    BY <2>1, PhaseStep DEF Onward
<1>2. /\ up' = [up EXCEPT ![u] = X] /\ author' = TRUE
      /\ UNCHANGED <<rows, files, water, seq, lock, deleteVars, top, begun>>
  BY DEF ResolveAuthor
<1>3. lock # u => up[u].made = {} /\ up[u].patched = {}
  BY DEF IndInv, LockHeld
<1> HIDE DEF X
<1>4. Moves(u, X)
  BY <1>1, <1>2, <1>3 DEF IndInv, Moves, TypeOK, Outer, Floored, Drawn, NewText,
     SequenceAhead
<1>5. QED
  BY <1>1, <1>4, MoveKeeps

LEMMA OpenKeeps ==
    ASSUME IndInv, NEW u \in Uploads, Open(u)
    PROVE  StepKept
<1> DEFINE q == up[u].preset /\ ~author
           X == [up[u] EXCEPT !.phase = "file", !.placed = q]
<1>1. up[u] \in Upload /\ "file" \in Phases
  BY DEF IndInv, TypeOK, Phases
<1>2. q \in BOOLEAN
  OBVIOUS
<1>3. Onward(up[u], X, "file")
  <2> HIDE DEF q
  <2>1. QED
    BY <1>1, <1>2, PlacedStep
<1>4. up' = [up EXCEPT ![u] = X]
  BY DEF Open
<1>5. UNCHANGED <<rows, files, author, water, seq, lock, deleteVars, top, begun>>
  BY DEF Open
<1>6. lock # u => up[u].made = {} /\ up[u].patched = {}
  BY DEF IndInv, LockHeld
<1> HIDE DEF X
<1>7. Moves(u, X)
  BY <1>3, <1>4, <1>5, <1>6 DEF IndInv, Moves, TypeOK, Outer, Floored, Drawn,
     NewText, SequenceAhead, Onward
<1>8. QED
  BY <1>3, <1>7, MoveKeeps DEF Onward

LEMMA UnreadableKeeps ==
    ASSUME IndInv, NEW u \in Uploads, Unreadable(u)
    PROVE  StepKept
<1> DEFINE X == NextFile(up[u])
<1>1. X \in Upload /\ X.phase = "file" /\ X.made = up[u].made /\ X.patched = up[u].patched
  BY NextFileEffect DEF IndInv, TypeOK, Unreadable
<1>2. Moves(u, X)
  BY <1>1 DEF IndInv, Moves, Unreadable, TypeOK, Outer, Floored, Drawn,
     NewText, SequenceAhead, LockHeld
<1>3. QED
  BY <1>1, <1>2, MoveKeeps

LEMMA PrecheckKeeps ==
    ASSUME IndInv, NEW u \in Uploads, Precheck(u)
    PROVE  StepKept
<1> DEFINE same == {r \in Seen(u) : r.body = File(u).body}
           c == (CHOOSE r \in same : TRUE).coord
           F == [up[u] EXCEPT !.phase = "floor"]
           D == [up[u] EXCEPT !.phase = "preset", !.target = c]
           N == NextFile(up[u])
<1>1. /\ up[u] \in Upload /\ up[u].left # <<>> /\ Readable(Head(up[u].left))
      /\ lock \in {u, NoOne} /\ lock' = u
      /\ UNCHANGED <<rows, files, author, water, seq, deleteVars, top, begun>>
  BY DEF IndInv, TypeOK, Precheck, File, MayEnter
<1>2. ASSUME NEW X \in Upload, up' = [up EXCEPT ![u] = X],
             X.made = up[u].made, X.patched = up[u].patched,
             X.phase \in {"file", "preset", "floor"},
             X.phase # "file" => X.left = up[u].left,
             X.phase = "floor" => same = {}
      PROVE  StepKept
  <2>1. X.phase = "floor" =>
          \A r \in Patched(rows, X.patched) \cup X.made : r.body # Head(X.left).body
    BY <1>2 DEF Seen, File
  <2>2. Moves(u, X)
    <3> HIDE DEF same
    <3>1. QED
      BY <1>1, <1>2, <2>1 DEF IndInv, Moves, TypeOK, Outer, Floored, Drawn,
         NewText, SequenceAhead
  <2>3. QED
    BY <2>2, MoveKeeps
<1>3. CASE same = {} /\ up' = [up EXCEPT ![u] = F]
  <2>1. Onward(up[u], F, "floor")
    BY <1>1, PhaseStep DEF Phases
  <2>2. QED
    BY <1>2, <1>3, <2>1 DEF Onward
<1>4. CASE same # {} /\ up' = [up EXCEPT ![u] = D]
  <2>1. (CHOOSE r \in same : TRUE) \in rows \cup Written(u)
    BY <1>4, SeenIsReached
  <2>2. c \in Nat
    BY <1>1, <2>1, UploadFields, RowFields DEF IndInv, TypeOK, Written
  <2>3. Onward(up[u], D, "preset")
    <3> HIDE DEF c
    <3>1. QED
      BY <1>1, <2>2, TargetStep DEF Phases
  <2>4. QED
    <3> HIDE DEF same, D
    <3>1. QED
      BY <1>2, <1>4, <2>3 DEF Onward
<1>5. CASE up' = [up EXCEPT ![u] = N]
  <2>1. N \in Upload /\ N.phase = "file" /\ N.made = up[u].made /\ N.patched = up[u].patched
    BY <1>1, NextFileEffect
  <2>2. QED
    <3> HIDE DEF N
    <3>1. QED
      BY <1>2, <1>5, <2>1
<1>6. QED
  BY <1>3, <1>4, <1>5 DEF Precheck

\* An abort that leaves rows and gains at most a file.
LEMMA AbortKeeps ==
    ASSUME IndInv, NEW u \in Uploads, Abort(u), files \subseteq files',
           files' \subseteq Nat \X Formats,
           UNCHANGED <<rows, author, water, seq, deleteVars, top, begun>>
    PROVE  StepKept
<1>1. Moves(u, NoUpload)
  BY NoUploadEffect, UploadAssumption DEF IndInv, Moves, Abort, TypeOK, Outer,
     Floored, Drawn, NewText, SequenceAhead, LockHeld
<1>2. QED
  BY <1>1, NoUploadEffect, MoveKeeps

LEMMA LockTimeoutKeeps ==
    ASSUME IndInv, NEW u \in Uploads, LockTimeout(u)
    PROVE  StepKept
  BY AbortKeeps DEF IndInv, LockTimeout, TypeOK

LEMMA ReadFloorKeeps ==
    ASSUME IndInv, NEW u \in Uploads, ReadFloor(u)
    PROVE  StepKept
<1> DEFINE f == Floor
           X == [up[u] EXCEPT !.phase = "next", !.saw = water, !.floor = f]
<1>1. f \in Nat /\ water \in Nat /\ f > water
  BY UploadAssumption DEF IndInv, TypeOK, Floor
<1>2. up[u] \in Upload /\ "next" \in Phases
  BY DEF IndInv, TypeOK, Phases
<1>3. up' = [up EXCEPT ![u] = X]
  BY DEF ReadFloor
<1>4. Onward(up[u], X, "next") /\ X.saw = water /\ X.floor = f
  <2> HIDE DEF f
  <2>1. QED
    BY <1>1, <1>2 DEF Upload, Onward
<1>5. /\ lock = u /\ up[u].left # <<>> /\ Readable(File(u))
      /\ \A r \in Seen(u) : r.body # File(u).body
      /\ UNCHANGED <<rows, files, author, water, seq, lock, deleteVars, top, begun>>
  BY DEF IndInv, ReadFloor, At, LockHeld, FileAtHand, TextIsNew, NewText, Outer
<1> HIDE DEF X, f
<1>6. Moves(u, X)
  BY <1>1, <1>3, <1>4, <1>5 DEF IndInv, Moves, TypeOK, Outer, Floored, Drawn,
     NewText, SequenceAhead, Seen, File, Onward
<1>7. QED
  BY <1>4, <1>6, MoveKeeps DEF Onward

\* At hand while a new text goes through its phases.
LEMMA NewTextAtHand ==
    ASSUME IndInv, NEW u \in Uploads, up[u].phase \in NewText
    PROVE  /\ up[u] \in Upload /\ lock = u
           /\ up[u].left # <<>> /\ Readable(Head(up[u].left))
           /\ \A r \in Patched(rows, up[u].patched) \cup up[u].made :
                r.body # Head(up[u].left).body
<1>1. up[u].phase \notin Outer
  BY DEF NewText, Outer
<1>2. QED
  BY <1>1 DEF IndInv, TypeOK, LockHeld, FileAtHand, TextIsNew, Seen, File

LEMMA SetValKeeps ==
    ASSUME IndInv, NEW u \in Uploads, SetVal(u)
    PROVE  StepKept
<1> DEFINE X == [up[u] EXCEPT !.phase = "again"]
<1>1. /\ up' = [up EXCEPT ![u] = X] /\ up[u].phase = "setval"
      /\ seq' = up[u].floor
      /\ UNCHANGED <<rows, files, author, water, lock, deleteVars, top, begun>>
  BY DEF SetVal, At
<1>2. /\ up[u] \in Upload /\ lock = u
      /\ up[u].left # <<>> /\ Readable(Head(up[u].left))
      /\ \A r \in Patched(rows, up[u].patched) \cup up[u].made :
           r.body # Head(up[u].left).body
  BY <1>1, NewTextAtHand DEF NewText
<1>3. Onward(up[u], X, "again") /\ X.floor = up[u].floor /\ X.saw = up[u].saw
  BY <1>2, PhaseStep DEF Phases
<1>4. /\ up[u].floor >= seq /\ up[u].floor > up[u].saw /\ top < seq
      /\ seq \in Nat \ {0} /\ top \in Nat /\ up[u].floor \in Nat /\ up[u].saw \in Nat
  BY <1>1, <1>2, UploadFields DEF IndInv, TypeOK, SequenceAhead, Floored, At
<1> HIDE DEF X
<1>5. Moves(u, X)
  BY <1>1, <1>2, <1>3, <1>4 DEF IndInv, Moves, TypeOK, Outer, Floored, Drawn,
     NewText, Onward
<1>6. QED
  BY <1>3, <1>5, MoveKeeps DEF Onward

\* A coordinate drawn from the sequence is past all that were given.
LEMMA DrawKeeps ==
    ASSUME IndInv, NEW u \in Uploads, up[u].phase \in Floored,
           seq >= up[u].floor, Draw(u, seq), seq' = seq + 1,
           UNCHANGED <<rows, files, author, water, lock, deleteVars, begun>>
    PROVE  StepKept
<1> DEFINE c == seq
           X == [up[u] EXCEPT !.phase = "write", !.coord = c]
<1>1. up' = [up EXCEPT ![u] = X]
  BY DEF Draw
<1>2. /\ up[u] \in Upload /\ lock = u
      /\ up[u].left # <<>> /\ Readable(Head(up[u].left))
      /\ \A r \in Patched(rows, up[u].patched) \cup up[u].made :
           r.body # Head(up[u].left).body
  BY NewTextAtHand DEF NewText, Floored
<1>3. c \in Nat \ {0} /\ top \in Nat /\ top < c
  BY DEF IndInv, TypeOK, SequenceAhead
<1>4. top' = c /\ seq' = c + 1
  BY <1>3 DEF Draw
<1>5. c \notin unlinking /\ \A r \in rows \cup Written(u) : r.coord # c
  <2>1. \A r \in rows \cup Written(u) : r \in Row /\ r.coord <= top
    BY <1>2, UploadFields DEF IndInv, TypeOK, RowsSound, Sound, Written
  <2>2. \A x \in unlinking : x \in Nat /\ x <= top
    BY DEF IndInv, TypeOK, RowsSound
  <2>3. QED
    BY <1>3, <2>1, <2>2, RowFields
<1>6. c > up[u].saw
  BY <1>2, <1>3, UploadFields DEF IndInv, SequenceAhead
<1> HIDE DEF c
<1>7. Onward(up[u], X, "write") /\ X.coord = c /\ X.saw = up[u].saw
  BY <1>2, <1>3, CoordStep DEF Phases
<1> HIDE DEF X
<1>8. Moves(u, X)
  BY <1>1, <1>2, <1>3, <1>4, <1>5, <1>6, <1>7 DEF IndInv, Moves, TypeOK, Outer,
     Floored, NewText, Onward, Written
<1>9. QED
  BY <1>7, <1>8, MoveKeeps DEF Onward

LEMMA NextValAgainKeeps ==
    ASSUME IndInv, NEW u \in Uploads, NextValAgain(u)
    PROVE  StepKept
  BY DrawKeeps DEF NextValAgain, IndInv, SequenceAhead, At, Floored

LEMMA NextValKeeps ==
    ASSUME IndInv, NEW u \in Uploads, NextVal(u)
    PROVE  StepKept
<1> DEFINE X == [up[u] EXCEPT !.phase = "setval"]
<1>1. /\ up[u].phase = "next" /\ seq' = seq + 1
      /\ UNCHANGED <<rows, files, author, water, lock, deleteVars, begun>>
  BY DEF NextVal, At
<1>2. CASE /\ seq < up[u].floor /\ up' = [up EXCEPT ![u] = X] /\ top' = top
  <2>1. /\ up[u] \in Upload /\ lock = u
        /\ up[u].left # <<>> /\ Readable(Head(up[u].left))
        /\ \A r \in Patched(rows, up[u].patched) \cup up[u].made :
             r.body # Head(up[u].left).body
    BY <1>1, NewTextAtHand DEF NewText
  <2>2. Onward(up[u], X, "setval") /\ X.floor = up[u].floor /\ X.saw = up[u].saw
    BY <2>1, PhaseStep DEF Phases
  <2>3. /\ up[u].floor > up[u].saw /\ top < seq
        /\ seq \in Nat \ {0} /\ top \in Nat /\ up[u].floor \in Nat /\ up[u].saw \in Nat
    BY <1>1, <2>1, UploadFields DEF IndInv, TypeOK, SequenceAhead, Floored
  <2> HIDE DEF X
  <2>4. Moves(u, X)
    BY <1>1, <1>2, <2>1, <2>2, <2>3 DEF IndInv, Moves, TypeOK, Outer, Floored,
       Drawn, NewText, Onward
  <2>5. QED
    BY <2>2, <2>4, MoveKeeps DEF Onward
<1>3. CASE ~(seq < up[u].floor) /\ Draw(u, seq)
  <2>1. seq >= up[u].floor
    BY <1>3, UploadFields DEF IndInv, TypeOK
  <2>2. QED
    BY <1>1, <1>3, <2>1, DrawKeeps DEF Floored
<1>4. QED
  BY <1>2, <1>3 DEF NextVal, Behind

LEMMA WriteFilesKeeps ==
    ASSUME IndInv, NEW u \in Uploads, NEW ok \in BOOLEAN, WriteFiles(u, ok)
    PROVE  StepKept
<1> DEFINE X == [up[u] EXCEPT !.phase = "insert"]
           N == NextFile(up[u])
           S == IF File(u).epub THEN Formats ELSE {"txt"}
<1>1. /\ up[u].phase = "write"
      /\ UNCHANGED <<rows, author, water, seq, lock, deleteVars, top, begun>>
  BY DEF WriteFiles, At
<1>2. /\ up[u] \in Upload /\ lock = u
      /\ up[u].left # <<>> /\ Readable(Head(up[u].left))
      /\ \A r \in Patched(rows, up[u].patched) \cup up[u].made :
           r.body # Head(up[u].left).body
  BY <1>1, NewTextAtHand DEF NewText
<1>3. /\ up[u].coord \in Nat /\ up[u].coord <= top /\ up[u].coord \notin unlinking
      /\ \A r \in rows \cup up[u].made \cup up[u].patched : r.coord # up[u].coord
  BY <1>1, <1>2, UploadFields DEF IndInv, CoordIsFree, Drawn, Written
<1>4. CASE ok
  <2>1. up' = [up EXCEPT ![u] = X] /\ files' = files \cup ({up[u].coord} \X S)
    BY <1>4 DEF WriteFiles
  <2>2. Onward(up[u], X, "insert") /\ X.coord = up[u].coord
    BY <1>2, PhaseStep DEF Phases
  <2>3. /\ files \subseteq files' /\ files' \subseteq Nat \X Formats
        /\ <<up[u].coord, "txt">> \in files'
        /\ Head(up[u].left).epub => <<up[u].coord, "epub">> \in files'
    BY <1>3, <2>1 DEF IndInv, TypeOK, Formats, File
  <2> HIDE DEF X, S
  <2>4. Moves(u, X)
    BY <1>1, <1>2, <1>3, <2>1, <2>2, <2>3 DEF IndInv, Moves, TypeOK, SequenceAhead,
       Outer, Floored, NewText, Onward
  <2>5. QED
    BY <2>2, <2>4, MoveKeeps DEF Onward
<1>5. CASE ~ok
  <2>1. up' = [up EXCEPT ![u] = N] /\ files' = files \ FilesOf(up[u].coord)
    BY <1>5 DEF WriteFiles
  <2>2. /\ N \in Upload /\ N.phase = "file"
        /\ N.made = up[u].made /\ N.patched = up[u].patched
    BY <1>2, NextFileEffect
  <2> HIDE DEF N, S, X
  <2>3. Moves(u, N)
    BY <1>1, <1>2, <1>3, <2>1, <2>2 DEF IndInv, Moves, TypeOK, SequenceAhead,
       Outer, Floored, Drawn, NewText, FilesOf
  <2>4. QED
    BY <2>2, <2>3, MoveKeeps
<1>6. QED
  BY <1>4, <1>5

\* A file done without a row, and at most one more file on disk.
LEMMA SkipKeeps ==
    ASSUME IndInv, NEW u \in Uploads, up[u].left # <<>>,
           up' = [up EXCEPT ![u] = NextFile(up[u])],
           files \subseteq files', files' \subseteq Nat \X Formats,
           UNCHANGED <<rows, author, water, seq, lock, deleteVars, top, begun>>
    PROVE  StepKept
<1> DEFINE N == NextFile(up[u])
<1>1. up[u] \in Upload
  BY DEF IndInv, TypeOK
<1>2. /\ N \in Upload /\ N.phase = "file"
      /\ N.made = up[u].made /\ N.patched = up[u].patched
  BY <1>1, NextFileEffect
<1>3. up' = [up EXCEPT ![u] = N]
  OBVIOUS
<1>4. lock # u => up[u].made = {} /\ up[u].patched = {}
  BY DEF IndInv, LockHeld
<1> HIDE DEF N
<1>5. Moves(u, N)
  BY <1>2, <1>3, <1>4 DEF IndInv, Moves, TypeOK, SequenceAhead, Outer, Floored,
     Drawn, NewText
<1>6. QED
  BY <1>2, <1>5, MoveKeeps

\* What Patch writes.
LEMMA PatchEffect ==
    ASSUME NEW R \in Upload, NEW s \in Row
    PROVE  /\ Patch(R, s) \in Upload
           /\ Patch(R, s).left = R.left /\ Patch(R, s).phase = R.phase
           /\ \/ /\ \E m \in R.made : m.coord = s.coord
                 /\ Patch(R, s).made = Patched(R.made, {s})
                 /\ Patch(R, s).patched = R.patched
              \/ /\ \A m \in R.made : m.coord # s.coord
                 /\ Patch(R, s).made = R.made
                 /\ Patch(R, s).patched = Patched(R.patched, {s})
<1>1. /\ Patched(R.made, {s}) \subseteq Row
      /\ Patched(R.patched, {s}) \subseteq Row
  BY UploadFields DEF Patched
<1>2. CASE \E m \in R.made : m.coord = s.coord
  <2> DEFINE A == Patched(R.made, {s})
  <2>1. Patch(R, s) = [R EXCEPT !.made = A]
    BY <1>2 DEF Patch
  <2>2. A \in SUBSET Row
    BY <1>1
  <2> HIDE DEF A
  <2>3. [R EXCEPT !.made = A] \in Upload
    BY <2>2 DEF Upload
  <2>4. /\ [R EXCEPT !.made = A].left = R.left /\ [R EXCEPT !.made = A].phase = R.phase
        /\ [R EXCEPT !.made = A].made = A /\ [R EXCEPT !.made = A].patched = R.patched
    BY DEF Upload
  <2>5. QED
    BY <1>2, <2>1, <2>3, <2>4 DEF A
<1>3. CASE \A m \in R.made : m.coord # s.coord
  <2> DEFINE A == Patched(R.patched, {s})
  <2>1. Patch(R, s) = [R EXCEPT !.patched = A]
    BY <1>3 DEF Patch
  <2>2. A \in SUBSET Row
    BY <1>1
  <2> HIDE DEF A
  <2>3. [R EXCEPT !.patched = A] \in Upload
    BY <2>2 DEF Upload
  <2>4. /\ [R EXCEPT !.patched = A].left = R.left /\ [R EXCEPT !.patched = A].phase = R.phase
        /\ [R EXCEPT !.patched = A].patched = A /\ [R EXCEPT !.patched = A].made = R.made
    BY DEF Upload
  <2>5. QED
    BY <1>3, <2>1, <2>3, <2>4 DEF A
<1>4. QED
  BY <1>2, <1>3

\* A row the upload sees is a row whose files are there.
LEMMA TargetIsSound ==
    ASSUME IndInv, NEW u \in Uploads, NEW r \in Target(u)
    PROVE  /\ r \in Seen(u) /\ r \in Row /\ Sound(r)
           /\ r.coord = up[u].target
<1>1. r \in rows \cup Written(u)
  BY SeenIsReached DEF Target
<1>2. r \in Row
  BY <1>1, UploadFields DEF IndInv, TypeOK, Written
<1>3. QED
  BY <1>1, <1>2 DEF Target, IndInv, RowsSound

\* At hand while a duplicate is dealt with.
LEMMA DuplicateAtHand ==
    ASSUME IndInv, NEW u \in Uploads, up[u].phase \in {"preset", "attach"}
    PROVE  /\ up[u] \in Upload /\ lock = u
           /\ up[u].left # <<>> /\ Readable(Head(up[u].left))
<1>1. up[u].phase \notin Outer
  BY DEF Outer
<1>2. QED
  BY <1>1 DEF IndInv, TypeOK, LockHeld, FileAtHand, File

LEMMA ApplyPresetKeeps ==
    ASSUME IndInv, NEW u \in Uploads, ApplyPreset(u)
    PROVE  StepKept
<1> DEFINE A == [up[u] EXCEPT !.phase = "attach"]
<1>1. /\ up[u] \in Upload /\ lock = u
      /\ up[u].left # <<>> /\ Readable(Head(up[u].left))
  BY DuplicateAtHand DEF ApplyPreset, At
<1>2. /\ UNCHANGED <<rows, files, author, water, seq, deleteVars, top, begun>>
      /\ files \subseteq files' /\ files' \subseteq Nat \X Formats
  BY DEF ApplyPreset, IndInv, TypeOK
<1>3. CASE up' = [up EXCEPT ![u] = NextFile(@)] /\ UNCHANGED lock
  BY <1>1, <1>2, <1>3, SkipKeeps
<1>4. CASE up' = [up EXCEPT ![u] = A] /\ UNCHANGED lock
  <2>1. Onward(up[u], A, "attach")
    BY <1>1, PhaseStep DEF Phases
  <2> HIDE DEF A
  <2>2. Moves(u, A)
    BY <1>1, <1>2, <1>4, <2>1 DEF IndInv, Moves, TypeOK, SequenceAhead, Outer,
       Floored, Drawn, NewText, Onward
  <2>3. QED
    BY <2>1, <2>2, MoveKeeps DEF Onward
<1>5. CASE Abort(u)
  BY <1>2, <1>5, AbortKeeps
<1>6. ASSUME NEW r \in Target(u), UNCHANGED lock,
             up' = [up EXCEPT ![u] = [Patch(@, [r EXCEPT !.authored = TRUE])
                                        EXCEPT !.phase = "attach"]]
      PROVE  StepKept
  <2> DEFINE s == [r EXCEPT !.authored = TRUE]
             P == Patch(up[u], s)
             X == [P EXCEPT !.phase = "attach"]
  <2>1. r \in Seen(u) /\ r \in Row /\ Sound(r)
    BY TargetIsSound
  <2>2. s \in Row /\ s.coord = r.coord /\ s.body = r.body /\ s.epub = r.epub
    BY <2>1 DEF Row
  <2>3. up' = [up EXCEPT ![u] = X]
    BY <1>6
  <2> HIDE DEF s
  <2>4. /\ P \in Upload /\ P.left = up[u].left
        /\ \/ /\ \E m \in up[u].made : m.coord = s.coord
              /\ P.made = Patched(up[u].made, {s}) /\ P.patched = up[u].patched
           \/ /\ \A m \in up[u].made : m.coord # s.coord
              /\ P.made = up[u].made /\ P.patched = Patched(up[u].patched, {s})
    BY <1>1, <2>2, PatchEffect
  <2> HIDE DEF P
  <2>5. Onward(P, X, "attach")
    BY <2>4, PhaseStep DEF Phases
  <2> HIDE DEF X
  <2>6. HasFiles(s)'
    BY <1>2, <2>1, <2>2 DEF Sound, HasFiles
  <2>7. Rewrites(u, X, r, s)
    BY <1>1, <1>2, <1>6, <2>1, <2>2, <2>3, <2>4, <2>5, <2>6 DEF Rewrites, Onward
  <2>8. QED
    BY <2>2, <2>5, <2>7, RewriteKeeps DEF Onward
<1>7. QED
  BY <1>3, <1>4, <1>5, <1>6 DEF ApplyPreset

LEMMA AttachKeeps ==
    ASSUME IndInv, NEW u \in Uploads, NEW written \in BOOLEAN, Attach(u, written)
    PROVE  StepKept
<1> DEFINE file == <<up[u].target, "epub">>
           due == File(u).epub /\ ~(file \in files /\ \E r \in Target(u) : r.epub)
<1>1. /\ up[u] \in Upload /\ lock = u
      /\ up[u].left # <<>> /\ Readable(Head(up[u].left))
  BY DuplicateAtHand DEF Attach, At
<1>2. /\ UNCHANGED <<rows, author, water, seq, deleteVars, top, begun>>
      /\ files' = IF due /\ written THEN files \cup {file} ELSE files
  BY DEF Attach
<1>3. files \subseteq files' /\ files' \subseteq Nat \X Formats
  BY <1>1, <1>2, UploadFields DEF IndInv, TypeOK, Formats
<1>4. CASE up' = [up EXCEPT ![u] = NextFile(@)] /\ UNCHANGED lock
  BY <1>1, <1>2, <1>3, <1>4, SkipKeeps
<1>5. CASE Abort(u)
  BY <1>2, <1>3, <1>5, AbortKeeps
<1>6. ASSUME due, NEW r \in Target(u), UNCHANGED lock,
             up' = [up EXCEPT ![u] = NextFile(Patch(@, AttachEpub(written, r)))]
      PROVE  StepKept
  <2> DEFINE s == AttachEpub(written, r)
             P == Patch(up[u], s)
             X == NextFile(P)
  <2>1. r \in Seen(u) /\ r \in Row /\ Sound(r) /\ r.coord = up[u].target
    BY TargetIsSound
  <2>2. /\ s \in Row /\ s.coord = r.coord /\ s.body = r.body
        /\ s.epub = (written \/ r.epub)
    BY <2>1 DEF Row, AttachEpub
  <2>3. up' = [up EXCEPT ![u] = X]
    BY <1>6
  <2> HIDE DEF s
  <2>4. /\ P \in Upload /\ P.left = up[u].left
        /\ \/ /\ \E m \in up[u].made : m.coord = s.coord
              /\ P.made = Patched(up[u].made, {s}) /\ P.patched = up[u].patched
           \/ /\ \A m \in up[u].made : m.coord # s.coord
              /\ P.made = up[u].made /\ P.patched = Patched(up[u].patched, {s})
    BY <1>1, <2>2, PatchEffect
  <2> HIDE DEF P
  <2>5. X \in Upload /\ X.phase = "file" /\ X.made = P.made /\ X.patched = P.patched
    BY <1>1, <2>4, NextFileEffect
  <2> HIDE DEF X
  <2>6. HasFiles(s)'
    <3>1. HasFiles(r) /\ stripped' = stripped
      BY <1>2, <2>1 DEF Sound
    <3>2. ASSUME s.coord \notin stripped
          PROVE  <<s.coord, "txt">> \in files'
      BY <1>3, <2>2, <3>1, <3>2 DEF HasFiles
    <3>3. ASSUME s.coord \notin stripped, s.epub
          PROVE  <<s.coord, "epub">> \in files'
      <4>1. CASE written
        BY <1>2, <1>6, <2>1, <2>2, <4>1
      <4>2. CASE ~written
        BY <1>3, <2>2, <3>1, <3>3, <4>2 DEF HasFiles
      <4>3. QED
        BY <4>1, <4>2
    <3>4. QED
      BY <3>1, <3>2, <3>3 DEF HasFiles
  <2> HIDE DEF file, due
  <2>7. Rewrites(u, X, r, s)
    BY <1>1, <1>2, <1>3, <1>6, <2>1, <2>2, <2>3, <2>4, <2>5, <2>6 DEF Rewrites
  <2>8. QED
    BY <2>2, <2>5, <2>7, RewriteKeeps
<1>7. ASSUME due, Target(u) # {},
             \E r \in Target(u) :
               /\ up' = [up EXCEPT ![u] = NextFile(
                           IF AttachEpub(written, r) = r THEN @
                           ELSE Patch(@, AttachEpub(written, r)))]
               /\ UNCHANGED lock
      PROVE  StepKept
  <2> HIDE DEF due, file
  <2>1. PICK r \in Target(u) :
               /\ up' = [up EXCEPT ![u] = NextFile(
                           IF AttachEpub(written, r) = r THEN @
                           ELSE Patch(@, AttachEpub(written, r)))]
               /\ UNCHANGED lock
    BY <1>7
  <2>2. CASE AttachEpub(written, r) = r
    BY <1>4, <2>1, <2>2
  <2>3. CASE AttachEpub(written, r) # r
    BY <1>6, <1>7, <2>1, <2>3
  <2>4. QED
    BY <2>2, <2>3
<1>8. QED
  BY <1>4, <1>5, <1>7 DEF Attach

----------------------------------------------------------------------------
(* The others *)

LEMMA FetchCommitsKeeps ==
    ASSUME IndInv, FetchCommits
    PROVE  StepKept
<1>1. TypeOK'
  BY UploadAssumption DEF IndInv, TypeOK, FetchCommits
<1>2. QED
  BY <1>1 DEF StepKept, Climbs, IndInv, FetchCommits, LockHeld, FileAtHand, File, SequenceAhead,
     OneRowPerCoord, RowsSound, Sound, HasFiles, Written, CoordIsFree, TextIsNew,
     Seen, At

LEMMA DeleteRowKeeps ==
    ASSUME IndInv, NEW d \in rows, DeleteRow(d)
    PROVE  StepKept
<1> USE DEF IndInv
<1>1. /\ rows' = rows \ {d} /\ unlinking' = unlinking \cup {d.coord}
      /\ UNCHANGED <<files, author, water, seq, lock, up, leaving, stripped, top, begun>>
  BY DEF DeleteRow
<1>2. \A u \in Uploads : \A p \in up[u].patched : p.coord # d.coord
  <2> HIDE DEF IndInv
  <2>1. d.coord \notin UNION {{r.coord : r \in up[u].patched} : u \in Uploads}
    BY DEF DeleteRow, LockedCoords
  <2>2. QED
    BY <2>1
<1>3. \A u \in Uploads : \A m \in up[u].made : m.coord # d.coord
  BY DEF OneRowPerCoord
<1>4. d \in Row /\ d.coord <= top
  BY DEF TypeOK, RowsSound, Sound
<1>5. TypeOK'
  <2>1. d.coord \in Nat
    BY <1>4, RowFields
  <2> HIDE DEF IndInv
  <2>2. QED
    BY <1>1, <2>1 DEF IndInv, TypeOK
<1>6. LockHeld' /\ FileAtHand' /\ SequenceAhead'
  BY <1>1 DEF LockHeld, FileAtHand, File, SequenceAhead, At
<1>7. OneRowPerCoord'
  BY <1>1 DEF OneRowPerCoord
<1>8. RowsSound'
  <2>1. ASSUME NEW r \in rows \ {d}
        PROVE  Sound(r)'
    BY <1>1 DEF RowsSound, OneRowPerCoord, Sound, HasFiles
  <2>2. ASSUME NEW u \in Uploads, NEW r \in Written(u)
        PROVE  Sound(r)'
    BY <1>1, <1>2, <1>3 DEF RowsSound, Sound, HasFiles, Written
  <2>3. QED
    BY <1>1, <1>4, <2>1, <2>2 DEF RowsSound, Written
<1>9. CoordIsFree'
  BY <1>1 DEF CoordIsFree, Written, At, File
<1>10. TextIsNew'
  BY <1>1 DEF TextIsNew, Seen, Patched, File
<1>11. QED
  BY <1>1, <1>5, <1>6, <1>7, <1>8, <1>9, <1>10 DEF StepKept, Climbs, At

LEMMA UnlinkFilesKeeps ==
    ASSUME IndInv, NEW c \in unlinking, UnlinkFiles(c)
    PROVE  StepKept
<1> USE DEF IndInv
<1>1. /\ unlinking' = unlinking \ {c} /\ files' = files \ FilesOf(c)
      /\ UNCHANGED <<rows, author, water, seq, lock, up, leaving, stripped, top, begun>>
  BY DEF UnlinkFiles
<1>2. TypeOK'
  BY <1>1 DEF TypeOK
<1>3. LockHeld' /\ FileAtHand' /\ SequenceAhead' /\ OneRowPerCoord' /\ TextIsNew'
  BY <1>1 DEF LockHeld, FileAtHand, File, SequenceAhead, At, OneRowPerCoord,
     TextIsNew, Seen
<1>4. \A r : Sound(r) => Sound(r)'
  BY <1>1 DEF Sound, HasFiles, FilesOf
<1>5. RowsSound'
  BY <1>1, <1>4 DEF RowsSound, Written
<1>6. CoordIsFree'
  BY <1>1 DEF CoordIsFree, Drawn, Written, At, File, FilesOf
<1>7. QED
  BY <1>1, <1>2, <1>3, <1>5, <1>6 DEF StepKept, Climbs, At

\* What a DELETE request takes are the files of rows, and no upload is about to
\* insert a row at their coordinates.
LEMMA DeleteRequestKeeps ==
    ASSUME IndInv, NEW D \in SUBSET {r.coord : r \in rows}, DeleteRequest(D)
    PROVE  StepKept
<1> USE DEF IndInv
<1>1. /\ leaving' = leaving \cup {D} /\ stripped' = stripped \cup D
      /\ files' = {f \in files : f[1] \notin D}
      /\ UNCHANGED <<rows, author, water, seq, lock, up, unlinking, top, begun>>
  BY DEF DeleteRequest
<1>2. D \subseteq Nat
  BY RowFields DEF TypeOK
<1>3. TypeOK'
  BY <1>1, <1>2 DEF TypeOK
<1>4. LockHeld' /\ FileAtHand' /\ SequenceAhead' /\ OneRowPerCoord' /\ TextIsNew'
  BY <1>1 DEF LockHeld, FileAtHand, File, SequenceAhead, At, OneRowPerCoord,
     TextIsNew, Seen
<1>5. \A r : Sound(r) => Sound(r)'
  BY <1>1 DEF Sound, HasFiles
<1>6. RowsSound'
  BY <1>1, <1>5 DEF RowsSound, Written
<1>7. CoordIsFree'
  <2>1. \A u \in Uploads : up[u].phase \in Drawn => up[u].coord \notin D
    BY DEF CoordIsFree
  <2>2. QED
    BY <1>1, <2>1 DEF CoordIsFree, Drawn, Written, At, File
<1>8. QED
  BY <1>1, <1>3, <1>4, <1>6, <1>7 DEF StepKept, Climbs, At

LEMMA DeleteEndsKeeps ==
    ASSUME IndInv, NEW D \in leaving, DeleteCommits(D) \/ DeleteFails(D)
    PROVE  StepKept
<1> USE DEF IndInv
<1>1. /\ rows' \subseteq rows /\ leaving' \subseteq leaving
      /\ UNCHANGED <<files, author, water, seq, lock, up, unlinking, stripped, top, begun>>
  BY DEF DeleteCommits, DeleteFails
<1>2. TypeOK' /\ LockHeld' /\ FileAtHand' /\ SequenceAhead' /\ OneRowPerCoord'
  BY <1>1 DEF TypeOK, LockHeld, FileAtHand, File, SequenceAhead, At, OneRowPerCoord
<1>3. RowsSound' /\ CoordIsFree' /\ TextIsNew'
  BY <1>1 DEF RowsSound, Sound, HasFiles, Written, CoordIsFree, TextIsNew, Seen,
     Patched, At, File
<1>4. QED
  BY <1>1, <1>2, <1>3 DEF StepKept, Climbs, At

LEMMA DeleteAuthorKeeps ==
    ASSUME IndInv, DeleteAuthor
    PROVE  StepKept
<1> USE DEF IndInv
<1>1. /\ rows' \subseteq rows /\ author' = FALSE
      /\ UNCHANGED <<files, water, seq, lock, up, deleteVars, top, begun>>
  BY DEF DeleteAuthor
<1>2. TypeOK' /\ LockHeld' /\ FileAtHand' /\ SequenceAhead' /\ OneRowPerCoord'
  BY <1>1 DEF TypeOK, LockHeld, FileAtHand, File, SequenceAhead, At, OneRowPerCoord
<1>3. RowsSound' /\ CoordIsFree' /\ TextIsNew'
  BY <1>1 DEF RowsSound, Sound, HasFiles, Written, CoordIsFree, TextIsNew, Seen,
     Patched, At, File
<1>4. QED
  BY <1>1, <1>2, <1>3 DEF StepKept, Climbs, At

LEMMA CrashKeeps ==
    ASSUME IndInv, Crash
    PROVE  StepKept
<1> USE DEF IndInv
<1>1. /\ up' = [w \in Uploads |-> NoUpload] /\ lock' = NoOne /\ unlinking' = {}
      /\ leaving' = {}
      /\ UNCHANGED <<rows, files, author, water, seq, stripped, top, begun>>
  BY DEF Crash
<1>2. \A w \in Uploads : /\ up'[w] \in Upload /\ up'[w].phase = "idle"
                         /\ up'[w].made = {} /\ up'[w].patched = {}
  BY <1>1, NoUploadEffect
<1>3. up' \in [Uploads -> Upload]
  BY <1>1, <1>2
<1> HIDE DEF NoUpload
<1>4. TypeOK'
  BY <1>1, <1>3 DEF TypeOK
<1>5. LockHeld' /\ FileAtHand' /\ SequenceAhead' /\ OneRowPerCoord'
  BY <1>1, <1>2 DEF LockHeld, FileAtHand, SequenceAhead, At, OneRowPerCoord,
     Outer, Floored
<1>6. RowsSound' /\ CoordIsFree' /\ TextIsNew'
  BY <1>1, <1>2 DEF RowsSound, Sound, HasFiles, Written, CoordIsFree, TextIsNew,
     At, Drawn, NewText
<1>7. QED
  BY <1>2, <1>4, <1>5, <1>6 DEF StepKept, Climbs

\* The empty library satisfies the invariant.
LEMMA InitEstablishes ==
    Init => IndInv
<1> SUFFICES ASSUME Init PROVE IndInv
  OBVIOUS
<1>1. \A w \in Uploads : /\ up[w] \in Upload /\ up[w].phase = "idle"
                         /\ up[w].made = {} /\ up[w].patched = {}
  BY NoUploadEffect DEF Init
<1>2. up \in [Uploads -> Upload]
  BY <1>1 DEF Init
<1> HIDE DEF NoUpload
<1>3. TypeOK
  BY <1>2, UploadAssumption DEF Init, TypeOK
<1>4. LockHeld /\ FileAtHand /\ SequenceAhead /\ OneRowPerCoord
  BY <1>1 DEF Init, LockHeld, FileAtHand, SequenceAhead, At, OneRowPerCoord,
     Outer, Floored
<1>5. RowsSound /\ CoordIsFree /\ TextIsNew
  BY <1>1 DEF Init, RowsSound, Written, CoordIsFree, TextIsNew, At, Drawn, NewText
<1>6. QED
  BY <1>3, <1>4, <1>5 DEF IndInv

\* Every step keeps it.
LEMMA NextKeeps ==
    IndInv /\ [Next]_vars => StepKept
<1> SUFFICES ASSUME IndInv, [Next]_vars PROVE StepKept
  OBVIOUS
<1>1. CASE UNCHANGED vars
  BY <1>1 DEF StepKept, Climbs, vars, IndInv, TypeOK, LockHeld, FileAtHand, File, SequenceAhead,
     OneRowPerCoord, RowsSound, Sound, HasFiles, Written, CoordIsFree, TextIsNew,
     Seen, At
<1>2. ASSUME NEW u \in Uploads,
             \/ \E b \in Batches, p \in BOOLEAN : Begin(u, b, p)
             \/ Step(u)
      PROVE  StepKept
  BY <1>2, BeginKeeps, ResolveAuthorKeeps, OpenKeeps, UnreadableKeeps,
     PrecheckKeeps, ApplyPresetKeeps, ReadFloorKeeps, NextValKeeps, SetValKeeps,
     NextValAgainKeeps, InsertRowKeeps, CommitKeeps, LockTimeoutKeeps,
     AttachKeeps, WriteFilesKeeps DEF Step
<1>3. CASE FetchCommits \/ DeleteAuthor \/ Crash
  BY <1>3, FetchCommitsKeeps, DeleteAuthorKeeps, CrashKeeps
<1>4. CASE \/ \E r \in rows : DeleteRow(r)
           \/ \E c \in unlinking : UnlinkFiles(c)
  BY <1>4, DeleteRowKeeps, UnlinkFilesKeeps
<1>5. CASE \/ \E D \in SUBSET {r.coord : r \in rows} : DeleteRequest(D)
           \/ \E D \in leaving : DeleteCommits(D) \/ DeleteFails(D)
  BY <1>5, DeleteRequestKeeps, DeleteEndsKeeps
<1>6. QED
  BY <1>1, <1>2, <1>3, <1>4, <1>5 DEF Next

----------------------------------------------------------------------------
(* The theorems *)

\* The inductive invariant holds in every state of every upload.
THEOREM UploadInvariance ==
    Spec => []IndInv
<1>1. IndInv /\ [Next]_vars => IndInv'
  BY NextKeeps DEF StepKept
<1>2. QED
  BY <1>1, InitEstablishes, PTL DEF Spec

\* Rows, files, requests and the sequence keep their types.
THEOREM UploadTypes ==
    Spec => []TypeOK
<1>1. IndInv => TypeOK
  BY DEF IndInv
<1>2. QED
  BY <1>1, UploadInvariance, PTL

\* The lock and the precheck leave the insert nothing to refuse: whatever other
\* uploads, fetches, deletions and crashes come in between, the id and the text
\* of a file are free when its row is inserted.
THEOREM UploadsNeverClash ==
    Spec => []InsertNeverClashes
<1>1. IndInv => InsertNeverClashes
  <2> SUFFICES ASSUME IndInv, NEW u \in Uploads, At(u, "insert"), NEW r \in Seen(u)
               PROVE  r.coord # up[u].coord /\ r.body # File(u).body
    BY DEF InsertNeverClashes, Clash
  <2>1. r \in rows \cup Written(u)
    BY SeenIsReached
  <2>2. QED
    BY <2>1 DEF IndInv, CoordIsFree, TextIsNew, At, Drawn, NewText
<1>2. QED
  BY <1>1, UploadInvariance, PTL

\* Files come before their row, and in the batch task go after it: no committed
\* local novel lacks its text, or the EPUB its has_epub promises, unless a DELETE
\* request has taken them in a transaction that is open or has failed.
THEOREM CommittedRowsHaveFiles ==
    Spec => []RowHasItsFiles
<1>1. IndInv => RowHasItsFiles
  BY DEF IndInv, RowsSound, Sound, HasFiles, RowHasItsFiles
<1>2. QED
  BY <1>1, UploadInvariance, PTL

\* Coordinates climb: a file is given one past every coordinate given before,
\* rolled back, deleted or lost in a crash, and past the newest Pixiv id.
THEOREM CoordinatesClimb ==
    Spec => CoordsClimb
<1>1. IndInv /\ [Next]_vars
      => [\A u \in Uploads :
            ~At(u, "write") /\ up'[u].phase = "write" =>
               /\ up'[u].coord > top
               /\ up'[u].coord > up'[u].saw]_vars
  BY NextKeeps DEF StepKept, Climbs
<1>2. QED
  BY <1>1, UploadInvariance, PTL DEF Spec, CoordsClimb

----------------------------------------------------------------------------
(* Catalogue *)

\* What the list, its requests and the queries beside it are made of.
Cursors == [id : Ids \cup {0}, key : Nat]
Clients == [search : Searches, items : Seq(Ids), from : SUBSET Searches, cursor : Cursors,
            noMore : BOOLEAN, bar : BOOLEAN, barred : BOOLEAN, back : BOOLEAN, began : Nat,
            hides : SUBSET BOOLEAN]
Sent == [state : {"sent"}, search : Searches, hide : BOOLEAN, more : BOOLEAN,
         superseded : BOOLEAN, cursor : Cursors]
Answers == [state : {"listed", "answered"}, search : Searches, hide : BOOLEAN, more : BOOLEAN,
            superseded : BOOLEAN, cursor : Cursors,
            page : [ids : Seq(Ids), cursor : Cursors], bar : BOOLEAN, at : Nat]
BatchSides == [kind : {"batch"}, state : {"resolved", "counting", "listing"}, kw : BOOLEAN,
               excluded : SUBSET Ids, ids : SUBSET Ids]
Views == [kind : {"view"}, state : {"reading", "filtering", "done"}, search : Searches,
          left : Seq(Ids), ids : Seq(Ids), began : Nat]

\* Every batch that is under way may still commit one edit of its own.
CatalogueShapes ==
    /\ DOMAIN table \subseteq Ids /\ \A i \in DOMAIN table : table[i] \in Rows
    /\ pref \in BOOLEAN /\ active \in BOOLEAN
    /\ tab \in [known : BOOLEAN, hide : BOOLEAN] /\ (tab.known \/ tab.hide)
    /\ client \in Clients
    /\ req \in {NoReq} \cup Sent \cup Answers
    /\ side \in {NoSide} \cup BatchSides \cup Views
    /\ steady \subseteq DOMAIN table
    /\ edits \in Nat /\ searches \in Nat /\ faults \in Nat /\ sides \in Nat
    /\ side # NoSide => sides > 0
    /\ IF side.kind = "batch" THEN edits < MaxEdits + sides ELSE edits <= MaxEdits + sides
    /\ sides <= MaxSides

\* A request whose answer will be shown, and one that has read its page.
Live == req # NoReq /\ ~req.superseded /\ ~client.back
Answered == Live /\ req.state # "sent"

\* The list is of the search in the filters, and so is a request whose answer
\* will be shown: it continues where the list ends, or the list is empty. It
\* hides what the tab hides, or what a tab without a setting did.
ListOK ==
    /\ client.from = {} => /\ client.items = <<>> /\ client.cursor = NoCursor
                           /\ ~client.noMore /\ ~client.barred
    /\ client.from # {} => (client.noMore <=> client.cursor = NoCursor) /\ client.hides # {}
    /\ ~client.back => client.from \subseteq {client.search}
    /\ searches = 0 => req = NoReq /\ client.from = {}
    /\ client.began <= edits
    /\ req # NoReq /\ req.superseded => client.from = {}
    /\ req # NoReq /\ req.state # "sent" => req.at <= edits
    /\ Live => /\ req.search = client.search /\ (tab.hide => req.hide)
               /\ req.cursor = client.cursor /\ ~client.noMore
               /\ ~req.more => client.from = {}

\* Row i comes after cursor c; and what a sequence may hold of a row.
Beyond(s, c, i) == Precedes(s, c.key, c.id, Key(s, i), i)
Never(q, i) == \A k \in 1..Len(q) : q[k] # i
Once(q, i) == \E k \in 1..Len(q) : q[k] = i /\ \A m \in 1..Len(q) : q[m] = i => m = k
Distinct(q) == \A j, k \in 1..Len(q) : q[j] = q[k] => j = k

Holds(q, i, yes) == IF yes THEN Once(q, i) ELSE Never(q, i)

\* The rows the search in the filters lists at this moment, for a request with
\* the given setting and under the setting in force.
Sees(hide) == Listed(client.search.kw, hide)
Now == Sees(active)

\* A row nobody has touched is in the list, once, exactly when the cursor has
\* reached it, and in a page exactly when it lies between the page's cursors.
SteadyOK ==
    LET s == client.search IN ~client.back /\ ~Browse(s) =>
    /\ client.from # {} =>
         /\ steady \subseteq Sees(tab.hide) /\ (Live => steady \subseteq Sees(req.hide))
         /\ \A i \in steady : Holds(client.items, i,
                                    client.cursor = NoCursor \/ ~Beyond(s, client.cursor, i))
    /\ Answered =>
         /\ steady \subseteq Sees(tab.hide)
         /\ \A i \in steady : Holds(req.page.ids, i,
                 /\ req.cursor = NoCursor \/ Beyond(s, req.cursor, i)
                 /\ req.page.cursor = NoCursor \/ ~Beyond(s, req.page.cursor, i))
         /\ req.cursor # NoCursor /\ req.page.cursor # NoCursor =>
              Precedes(s, req.cursor.key, req.cursor.id, req.page.cursor.key, req.page.cursor.id)

\* The first page of a browse, which starts anywhere and wraps, repeats no row.
BrowseOK ==
    ~client.back /\ Browse(client.search) =>
    /\ Len(client.items) <= PerPage => Distinct(client.items)
    /\ client.cursor # NoCursor => Len(client.items) >= PerPage
    /\ Answered /\ req.cursor = NoCursor =>
         /\ Distinct(req.page.ids)
         /\ req.page.cursor # NoCursor => Len(req.page.ids) >= PerPage

\* While no edit has come since the first page was read, and if the setting in
\* force was the one asked with, every row listed is untouched and nothing but
\* rows of the search is shown.
UntouchedOK ==
    LET s == client.search IN
    ~client.back /\ ~Browse(s) =>
    /\ client.from # {} /\ client.began = edits /\ client.hides = {active} =>
         /\ steady = Now
         /\ \A k \in 1..Len(client.items) : client.items[k] \in Now
         /\ client.barred /\ s.kw => (client.bar <=> HasExcluded(s.kw, active))
    /\ Answered /\ req.cursor = NoCursor /\ req.at = edits /\ req.hide = active =>
         /\ steady = Now
         /\ req.state = "answered" /\ s.kw => (req.bar <=> HasExcluded(s.kw, active))
    /\ Answered /\ req.hide = active
       /\ edits = (IF req.cursor = NoCursor THEN req.at ELSE client.began) =>
         \A k \in 1..Len(req.page.ids) : req.page.ids[k] \in Now

\* The view of hidden novels, as far as no edit has come since it was opened: it
\* holds the blocked matches of what it has filtered, the rest is still ahead.
Excluded == {i \in DOMAIN table : active /\ Blocked(i)}
ViewOK ==
    side.kind = "view" =>
    LET s == side.search IN
    /\ side.began <= edits
    /\ side.state = "reading" => side.ids = <<>>
    /\ side.began = edits /\ side.state = "filtering" =>
         /\ Range(side.left) \subseteq Excluded
         /\ Range(side.ids) \subseteq Excluded \cap Matches(s.kw)
         /\ Excluded \cap Matches(s.kw) \subseteq Range(side.ids) \cup Range(side.left)
    /\ side.began = edits /\ side.state = "done" => Range(side.ids) = Excluded \cap Matches(s.kw)

CatalogueInv == CatalogueShapes /\ ListOK /\ SteadyOK /\ BrowseOK /\ UntouchedOK /\ ViewOK

----------------------------------------------------------------------------
(* The order of the rows and a page of it *)

\* The table holds rows under ids.
Stored == DOMAIN table \subseteq Ids /\ \A i \in DOMAIN table : table[i] \in Rows

Before(s, i, j) == Precedes(s, Key(s, i), i, Key(s, j), j)

\* The query's order compares the pair of key and id, a strict total order.
LEMMA OrderFacts ==
    ASSUME NEW s \in SearchRecords, NEW k \in Nat, NEW l \in Nat, NEW m \in Nat,
           NEW i \in Int, NEW j \in Int, NEW h \in Int
    PROVE  /\ ~Precedes(s, k, i, k, i)
           /\ Precedes(s, k, i, l, j) /\ Precedes(s, l, j, m, h) => Precedes(s, k, i, m, h)
           /\ i # j => Precedes(s, k, i, l, j) \/ Precedes(s, l, j, k, i)
  BY DEF Precedes

LEMMA KeyIsNat ==
    ASSUME Stored, NEW s \in SearchRecords, NEW i \in DOMAIN table
    PROVE  Key(s, i) \in Nat /\ i \in Int /\ i # 0
<1>1. i \in Ids /\ i \in Int /\ i # 0
  BY CatalogueAssumption DEF Stored
<1>2. table[i].like \in Nat
  BY DEF Stored, Rows
<1>3. Shuffle[i] \in Nat
  BY <1>1, CatalogueAssumption
<1>4. s.order \in {"id", "like", "random"}
  BY DEF SearchRecords
<1>5. QED
  BY <1>1, <1>2, <1>3, <1>4 DEF Key, Abs

LEMMA BeforeOrders ==
    ASSUME Stored, NEW s \in SearchRecords
    PROVE  /\ \A i \in DOMAIN table : ~Before(s, i, i)
           /\ \A i, j, h \in DOMAIN table : Before(s, i, j) /\ Before(s, j, h) => Before(s, i, h)
           /\ \A i, j \in DOMAIN table : i # j => Before(s, i, j) \/ Before(s, j, i)
  BY KeyIsNat, OrderFacts DEF Before

LEMMA TableFinite ==
    ASSUME Stored, NEW S \in SUBSET DOMAIN table
    PROVE  IsFiniteSet(S) /\ Cardinality(S) \in Nat
  BY FS_Subset, FS_CardinalityType, CatalogueAssumption DEF Stored

\* A later row has more rows up to it.
LEMMA RankFollowsOrder ==
    ASSUME Stored, NEW s \in SearchRecords, NEW S \in SUBSET DOMAIN table,
           NEW i \in S, NEW j \in S, Before(s, i, j)
    PROVE  Cardinality(UpTo(s, S, i)) < Cardinality(UpTo(s, S, j))
<1> DEFINE A == UpTo(s, S, i)
           B == UpTo(s, S, j)
<1>1. A \subseteq S /\ B \subseteq S
  BY DEF UpTo
<1>2. \A h \in S : h \in A <=> h = i \/ Before(s, h, i)
  BY DEF UpTo, Before
<1>3. \A h \in S : h \in B <=> h = j \/ Before(s, h, j)
  BY DEF UpTo, Before
<1> HIDE DEF A, B
<1>4. A \subseteq B
  BY <1>1, <1>2, <1>3, BeforeOrders
<1>5. j \in B /\ j \notin A
  <2>1. j # i /\ ~Before(s, j, i)
    BY BeforeOrders
  <2>2. QED
    BY <1>2, <1>3, <2>1
<1>6. IsFiniteSet(B) /\ B \in SUBSET DOMAIN table
  BY <1>1, TableFinite
<1>7. Cardinality(A) <= Cardinality(B) /\ Cardinality(A) # Cardinality(B)
  BY <1>4, <1>5, <1>6, FS_Subset
<1>8. Cardinality(A) \in Nat /\ Cardinality(B) \in Nat
  BY <1>4, <1>6, TableFinite
<1>9. QED
  BY <1>7, <1>8 DEF A, B

\* ORDER BY returns every row once, each before the next.
LEMMA OrderedSorts ==
    ASSUME Stored, NEW s \in SearchRecords, NEW S \in SUBSET DOMAIN table
    PROVE  LET q == Ordered(s, S)
           IN  /\ q \in Seq(S)
               /\ \A k, l \in 1..Len(q) : k < l => Before(s, q[k], q[l])
               /\ \A i \in S : \E k \in 1..Len(q) : q[k] = i
<1> DEFINE n == Cardinality(S)
           q == Ordered(s, S)
           Rank(i) == Cardinality(UpTo(s, S, i))
           rank == [i \in S |-> Rank(i)]
<1>1. n \in Nat /\ IsFiniteSet(S)
  BY TableFinite
<1>2. ASSUME NEW i \in S PROVE Rank(i) \in 1..n
  <2>1. UpTo(s, S, i) \in SUBSET S /\ i \in UpTo(s, S, i)
    BY DEF UpTo
  <2>2. IsFiniteSet(UpTo(s, S, i)) /\ Cardinality(UpTo(s, S, i)) <= n
    BY <1>1, <2>1, FS_Subset
  <2>3. Cardinality(UpTo(s, S, i)) \in Nat /\ Cardinality(UpTo(s, S, i)) # 0
    BY <2>1, <2>2, FS_CardinalityType, FS_EmptySet
  <2>4. QED
    BY <1>1, <2>2, <2>3
<1>3. ASSUME NEW i \in S, NEW j \in S, Before(s, i, j) PROVE Rank(i) < Rank(j)
  BY <1>3, RankFollowsOrder
<1> HIDE DEF Rank
<1>4. ASSUME NEW i \in S, NEW j \in S, Rank(i) = Rank(j) PROVE i = j
  <2>1. Rank(i) \in Int /\ Rank(j) \in Int
    BY <1>1, <1>2
  <2>2. ~Before(s, i, j) /\ ~Before(s, j, i)
    BY <1>3, <1>4, <2>1
  <2>3. QED
    BY <2>2, BeforeOrders
<1>5. ASSUME NEW k \in 1..n PROVE \E i \in S : Rank(i) = k
  <2>1. rank \in [S -> 1..n]
    BY <1>2
  <2>2. \A i, j \in S : rank[i] = rank[j] => i = j
    BY <1>4
  <2> HIDE DEF rank
  <2>3. rank \in Injection(S, 1..n)
    BY <2>1, <2>2, Fun_IsInj
  <2>4. IsFiniteSet(1..n) /\ Cardinality(1..n) = n
    BY <1>1, FS_Interval
  <2>5. rank \in Surjection(S, 1..n)
    BY <2>3, <2>4, FS_Injection
  <2>6. \A m \in 1..n : \E i \in S : rank[i] = m
    BY <2>5, Fun_SurjectionProperties
  <2>7. QED
    BY <1>5, <2>6 DEF rank
<1> DEFINE Kth(k) == CHOOSE i \in S : Rank(i) = k
<1>6. q = [k \in 1..n |-> Kth(k)]
  BY DEF Ordered, Rank
<1> HIDE DEF q, n
<1>7. ASSUME NEW k \in 1..n PROVE q[k] \in S /\ Rank(q[k]) = k
  <2>1. q[k] = CHOOSE i \in S : Rank(i) = k
    BY <1>6
  <2>2. QED
    BY <1>5, <2>1
<1>8. q \in Seq(S) /\ Len(q) = n
  <2>1. q = [k \in 1..n |-> q[k]]
    BY <1>6
  <2>2. QED
    BY <1>1, <1>7, <2>1
<1>9. ASSUME NEW k \in 1..n, NEW l \in 1..n, k < l PROVE Before(s, q[k], q[l])
  <2>1. q[k] # q[l]
    BY <1>7, <1>9
  <2>2. ~Before(s, q[l], q[k])
    BY <1>1, <1>3, <1>7, <1>9
  <2>3. QED
    BY <1>7, <2>1, <2>2, BeforeOrders
<1>10. ASSUME NEW i \in S PROVE \E k \in 1..n : q[k] = i
  <2>1. Rank(i) \in 1..n
    BY <1>2
  <2>2. q[Rank(i)] \in S /\ Rank(q[Rank(i)]) = Rank(i)
    BY <1>7, <2>1
  <2>3. QED
    BY <1>4, <2>1, <2>2
<1>11. QED
  BY <1>8, <1>9, <1>10 DEF q

\* The front of a sequence.
LEMMA FrontOf ==
    ASSUME NEW S, NEW q \in Seq(S), NEW n \in Nat
    PROVE  LET f == FirstOf(q, n)
           IN  /\ f \in Seq(S) /\ Len(f) = (IF Len(q) < n THEN Len(q) ELSE n)
               /\ \A k \in 1..Len(f) : k \in 1..Len(q) /\ f[k] = q[k]
<1> DEFINE m == IF Len(q) < n THEN Len(q) ELSE n
<1>1. Len(q) \in Nat /\ m \in Nat /\ m <= Len(q)
  BY LenProperties
<1>2. \A k \in 1..m : q[k] \in S
  BY <1>1, ElementOfSeq
<1>3. FirstOf(q, n) = SubSeq(q, 1, m)
  BY DEF FirstOf
<1> HIDE DEF m
<1>4. /\ SubSeq(q, 1, m) \in Seq(S) /\ Len(SubSeq(q, 1, m)) = m
      /\ \A k \in 1..m : SubSeq(q, 1, m)[k] = q[k]
  BY <1>1, <1>2, SubSeqProperties
<1>5. QED
  BY <1>1, <1>3, <1>4 DEF m

\* The cursor of the empty page is no row's.
LEMMA CursorIsOfRow ==
    ASSUME Stored, NEW s \in SearchRecords, NEW i \in DOMAIN table
    PROVE  /\ CursorAt(s, i) \in Cursors /\ CursorAt(s, i) # NoCursor
           /\ CursorAt(s, i).key = Key(s, i) /\ CursorAt(s, i).id = i
<1>1. i \in Ids /\ i # 0 /\ Key(s, i) \in Nat
  BY KeyIsNat DEF Stored
<1>2. CursorAt(s, i).key = Key(s, i) /\ CursorAt(s, i).id = i
  BY DEF CursorAt
<1>3. CursorAt(s, i) \in Cursors
  BY <1>1 DEF CursorAt, Cursors
<1>4. NoCursor.id = 0
  BY DEF NoCursor
<1>5. QED
  BY <1>1, <1>2, <1>3, <1>4

LEMMA BeyondOrders ==
    ASSUME Stored, NEW s \in SearchRecords, NEW c \in Cursors, NEW i \in DOMAIN table
    PROVE  /\ \A j \in DOMAIN table : Beyond(s, c, i) /\ Before(s, i, j) => Beyond(s, c, j)
           /\ \A d \in Cursors : Precedes(s, c.key, c.id, d.key, d.id) /\ Beyond(s, d, i)
                                   => Beyond(s, c, i)
<1>1. ASSUME NEW d \in Cursors PROVE d.key \in Nat /\ d.id \in Int
  <2>1. d.key \in Nat /\ d.id \in Ids \cup {0}
    BY DEF Cursors
  <2>2. \A e \in Ids : e \in Int
    BY CatalogueAssumption
  <2>3. d.id \in Ids \/ d.id = 0
    BY <2>1
  <2>4. d.id \in Int
    BY <2>2, <2>3
  <2>5. QED
    BY <2>1, <2>4
<1>2. QED
  BY <1>1, KeyIsNat, OrderFacts DEF Beyond, Before

\* A listing in the query's order shows a row at one place.
LEMMA SortedShowsOnce ==
    ASSUME Stored, NEW s \in SearchRecords, NEW q \in Seq(DOMAIN table),
           \A k, l \in 1..Len(q) : k < l => Before(s, q[k], q[l])
    PROVE  /\ Distinct(q)
           /\ \A k \in 1..Len(q) : Once(q, q[k])
<1>1. Len(q) \in Nat /\ \A k \in 1..Len(q) : q[k] \in DOMAIN table
  BY LenProperties, ElementOfSeq
<1>2. \A k, l \in 1..Len(q) : k < l => q[k] # q[l]
  BY <1>1, BeforeOrders
<1>3. \A k, l \in 1..Len(q) : q[k] = q[l] => k = l
  BY <1>1, <1>2
<1>4. QED
  BY <1>3 DEF Distinct, Once

\* A page has every listed row between its cursors, once, and no other row.
LEMMA PageFollowsCursor ==
    ASSUME Stored, NEW s \in SearchRecords, NEW hide \in BOOLEAN, NEW c \in Cursors
    PROVE  LET p == Page(s, Fetched(s, hide, c))
               listed == Listed(s.kw, hide)
           IN  /\ p = [ids |-> p.ids, cursor |-> p.cursor]
               /\ p.ids \in Seq(listed) /\ p.cursor \in Cursors
               /\ \A i \in listed : Holds(p.ids, i,
                     /\ c = NoCursor \/ Beyond(s, c, i)
                     /\ p.cursor = NoCursor \/ ~Beyond(s, p.cursor, i))
               /\ c # NoCursor /\ p.cursor # NoCursor =>
                     Precedes(s, c.key, c.id, p.cursor.key, p.cursor.id)
<1> DEFINE listed == Listed(s.kw, hide)
           after == {i \in listed : c = NoCursor \/ Beyond(s, c, i)}
           q == Ordered(s, after)
           got == FirstOf(q, PerPage + 1)
           p == Page(s, got)
           r == SubSeq(got, 1, PerPage)
<1>1. listed \in SUBSET DOMAIN table /\ after \in SUBSET listed
  BY DEF Listed, Matches
<1>2. Fetched(s, hide, c) = got
  BY DEF Fetched, Beyond
<1>3. PerPage \in Nat \ {0} /\ PerPage + 1 \in Nat
  BY CatalogueAssumption
<1>4. /\ q \in Seq(after)
      /\ \A k, l \in 1..Len(q) : k < l => Before(s, q[k], q[l])
      /\ \A i \in after : \E k \in 1..Len(q) : q[k] = i
  BY <1>1, OrderedSorts
<1> HIDE DEF q, after, listed
<1>5. /\ got \in Seq(after) /\ Len(got) = (IF Len(q) < PerPage + 1 THEN Len(q) ELSE PerPage + 1)
      /\ \A k \in 1..Len(got) : k \in 1..Len(q) /\ got[k] = q[k]
  BY <1>3, <1>4, FrontOf
<1> HIDE DEF got
<1>6. Len(q) \in Nat /\ Len(got) \in Nat
  BY <1>4, <1>5, LenProperties
<1>7. \A k, l \in 1..Len(q) : q[k] = q[l] => k = l
  <2>1. q \in Seq(DOMAIN table)
    BY <1>1, <1>4, SeqMonotonic
  <2>2. QED
    BY <1>4, <2>1, SortedShowsOnce DEF Distinct
<1>8. \A k \in 1..Len(q) : q[k] \in after
  BY <1>4, ElementOfSeq
\* Nothing is left over.
<1>9. CASE Len(got) <= PerPage
  <2>1. p = [ids |-> got, cursor |-> NoCursor]
    BY <1>9 DEF Page
  <2>2. Len(got) = Len(q)
    BY <1>3, <1>5, <1>6, <1>9
  <2>3. NoCursor \in Cursors
    BY DEF NoCursor, Cursors
  <2>4. ASSUME NEW i \in listed, i \in after PROVE Once(got, i)
    <3>1. PICK k \in 1..Len(q) : q[k] = i
      BY <1>4, <2>4
    <3>2. \A m \in 1..Len(got) : got[m] = q[m]
      BY <1>5
    <3>3. k \in 1..Len(got) /\ got[k] = i /\ \A m \in 1..Len(got) : got[m] = i => m = k
      BY <1>7, <2>2, <3>1, <3>2
    <3>4. QED
      BY <3>3 DEF Once
  <2>5. ASSUME NEW i \in listed, i \notin after PROVE Never(got, i)
    BY <1>5, <1>8, <2>2, <2>5 DEF Never
  <2>6. \A i \in listed : Holds(got, i, c = NoCursor \/ Beyond(s, c, i))
    BY <2>4, <2>5 DEF Holds, after
  <2>7. got \in Seq(listed)
    BY <1>1, <1>5, SeqMonotonic
  <2>8. QED
    BY <1>2, <2>1, <2>3, <2>6, <2>7 DEF listed, Holds
\* The cursor is at the last row of the page.
<1>10. CASE Len(got) > PerPage
  <2> DEFINE z == got[PerPage]
             d == CursorAt(s, z)
  <2>1. p = [ids |-> r, cursor |-> d]
    BY <1>3, <1>6, <1>10 DEF Page
  <2>2. \A k \in 1..PerPage : k \in 1..Len(got) /\ k \in 1..Len(q) /\ got[k] = q[k] /\ got[k] \in after
    BY <1>3, <1>5, <1>6, <1>8, <1>10
  <2>3. r \in Seq(after) /\ Len(r) = PerPage /\ \A k \in 1..PerPage : r[k] = q[k]
    <3>1. /\ r \in Seq(after) /\ Len(r) = PerPage
          /\ \A k \in 1..PerPage : r[k] = got[k]
      BY <1>3, <2>2, SubSeqProperties
    <3>2. QED
      BY <2>2, <3>1
  <2>4. PerPage \in 1..PerPage /\ z \in after /\ z \in DOMAIN table /\ z = q[PerPage]
    BY <1>1, <1>3, <2>2
  <2>5. d \in Cursors /\ d # NoCursor /\ d.key = Key(s, z) /\ d.id = z
    BY <2>4, CursorIsOfRow
  <2> HIDE DEF d, r, z
  <2>6. \A i \in DOMAIN table : Beyond(s, d, i) <=> Before(s, z, i)
    BY <2>5 DEF Beyond, Before
  <2>7. ASSUME NEW k \in 1..Len(q) PROVE Before(s, z, q[k]) <=> k > PerPage
    <3>1. q[k] \in DOMAIN table /\ z \in DOMAIN table /\ PerPage \in 1..Len(q)
      BY <1>1, <1>8, <2>2, <2>4
    <3>2. k > PerPage => Before(s, z, q[k])
      BY <1>4, <2>4, <3>1
    <3>3. k < PerPage => Before(s, q[k], z)
      BY <1>4, <2>4, <3>1
    <3>4. k = PerPage => ~Before(s, z, q[k])
      BY <2>4, <3>1, BeforeOrders
    <3>5. ~(Before(s, z, q[k]) /\ Before(s, q[k], z))
      BY <3>1, BeforeOrders
    <3>6. QED
      BY <1>3, <1>6, <3>2, <3>3, <3>4, <3>5
  <2>8. ASSUME NEW i \in listed, i \in after, ~Beyond(s, d, i) PROVE Once(r, i)
    <3>1. PICK k \in 1..Len(q) : q[k] = i
      BY <1>4, <2>8
    <3>2. k \in 1..PerPage
      BY <1>1, <1>3, <1>6, <2>6, <2>7, <2>8, <3>1
    <3>3. \A m \in 1..PerPage : m \in 1..Len(q) /\ (q[m] = i => m = k)
      BY <1>7, <2>2, <3>1
    <3>4. QED
      BY <2>3, <3>1, <3>2, <3>3 DEF Once
  <2>9. ASSUME NEW i \in listed, i \notin after \/ Beyond(s, d, i) PROVE Never(r, i)
    <3>1. ASSUME NEW k \in 1..PerPage, r[k] = i PROVE FALSE
      <4>1. k \in 1..Len(q) /\ q[k] = i /\ i \in after /\ i \in DOMAIN table
        BY <1>1, <2>2, <2>3, <3>1
      <4>2. ~Before(s, z, i)
        BY <1>3, <2>7, <4>1
      <4>3. QED
        BY <2>6, <2>9, <4>1, <4>2
    <3>2. QED
      BY <2>3, <3>1 DEF Never
  <2>10. \A i \in listed : Holds(r, i, (c = NoCursor \/ Beyond(s, c, i)) /\ ~Beyond(s, d, i))
    BY <2>8, <2>9 DEF Holds, after
  <2>11. c # NoCursor => Precedes(s, c.key, c.id, d.key, d.id)
    BY <2>4, <2>5 DEF after, Beyond
  <2>12. r \in Seq(listed)
    BY <1>1, <2>3, SeqMonotonic
  <2>13. QED
    BY <1>2, <2>1, <2>5, <2>10, <2>11, <2>12 DEF listed, Holds
<1>11. Len(got) <= PerPage \/ Len(got) > PerPage
  BY <1>3, <1>6
<1>12. QED
  BY <1>9, <1>10, <1>11, Zenon

\* A sequence and one that shares nothing with it.
LEMMA DistinctConcat ==
    ASSUME NEW S, NEW q \in Seq(S), NEW r \in Seq(S), Distinct(q), Distinct(r),
           \A k \in 1..Len(q), l \in 1..Len(r) : q[k] # r[l]
    PROVE  Distinct(q \o r)
<1>1. Len(q) \in Nat /\ Len(r) \in Nat
  BY LenProperties
<1>2. /\ Len(q \o r) = Len(q) + Len(r)
      /\ \A k \in 1..Len(q) + Len(r) : (q \o r)[k] = IF k <= Len(q) THEN q[k] ELSE r[k - Len(q)]
  BY ConcatProperties
<1>3. \A k \in 1..Len(q) + Len(r) : k > Len(q) => k - Len(q) \in 1..Len(r)
  BY <1>1
<1>4. ASSUME NEW j \in 1..Len(q) + Len(r), NEW k \in 1..Len(q) + Len(r),
             (q \o r)[j] = (q \o r)[k]
      PROVE  j = k
  <2>1. CASE j <= Len(q) /\ k <= Len(q)
    <3>1. j \in 1..Len(q) /\ k \in 1..Len(q) /\ q[j] = q[k]
      BY <1>1, <1>2, <1>4, <2>1
    <3>2. QED
      BY <3>1 DEF Distinct
  <2>2. CASE j > Len(q) /\ k > Len(q)
    <3>1. j - Len(q) \in 1..Len(r) /\ k - Len(q) \in 1..Len(r) /\ r[j - Len(q)] = r[k - Len(q)]
      BY <1>1, <1>2, <1>3, <1>4, <2>2
    <3>2. j - Len(q) = k - Len(q)
      BY <3>1 DEF Distinct
    <3>3. QED
      BY <1>1, <3>2
  <2>3. CASE j <= Len(q) /\ k > Len(q)
    <3>1. j \in 1..Len(q) /\ k - Len(q) \in 1..Len(r) /\ q[j] = r[k - Len(q)]
      BY <1>1, <1>2, <1>3, <1>4, <2>3
    <3>2. QED
      BY <3>1
  <2>4. CASE k <= Len(q) /\ j > Len(q)
    <3>1. k \in 1..Len(q) /\ j - Len(q) \in 1..Len(r) /\ q[k] = r[j - Len(q)]
      BY <1>1, <1>2, <1>3, <1>4, <2>4
    <3>2. QED
      BY <3>1
  <2>5. QED
    BY <1>1, <2>1, <2>2, <2>3, <2>4
<1>5. QED
  BY <1>2, <1>4 DEF Distinct

\* The front of a sequence without repetition has none either.
LEMMA DistinctFront ==
    ASSUME NEW S, NEW q \in Seq(S), Distinct(q), NEW n \in Nat
    PROVE  Distinct(FirstOf(q, n))
  BY FrontOf DEF Distinct

LEMMA OrderedIsDistinct ==
    ASSUME Stored, NEW s \in SearchRecords, NEW S \in SUBSET DOMAIN table
    PROVE  Distinct(Ordered(s, S))
<1> DEFINE q == Ordered(s, S)
<1>1. q \in Seq(S) /\ \A k, l \in 1..Len(q) : k < l => Before(s, q[k], q[l])
  BY OrderedSorts
<1> HIDE DEF q
<1>2. q \in Seq(DOMAIN table)
  BY <1>1, SeqMonotonic
<1>3. Distinct(q)
  BY <1>1, <1>2, SortedShowsOnce
<1>4. QED
  BY <1>3 DEF q

\* The first page of a browse shows no row twice, and offers more only when full.
LEMMA RandomPageIsDistinct ==
    ASSUME Stored, NEW s \in SearchRecords, NEW hide \in BOOLEAN, NEW start
    PROVE  LET p == RandomPage(s, hide, start)
           IN  /\ p = [ids |-> p.ids, cursor |-> p.cursor]
               /\ p.ids \in Seq(DOMAIN table) /\ p.cursor \in Cursors
               /\ Distinct(p.ids)
               /\ p.cursor # NoCursor => Len(p.ids) >= PerPage
<1> DEFINE visible == Listed(FALSE, hide)
           S == {i \in visible : Shuffle[i] >= start}
           q == Ordered(s, S)
           tail == FirstOf(q, PerPage)
           all == Ordered(s, visible)
           rest == Range(FirstOf(all, PerPage)) \ Range(tail)
           wrap == tail \o Ordered(s, rest)
           got == IF Len(tail) < PerPage /\ start > 0 THEN Wrapped(s, tail, all) ELSE tail
<1>1. PerPage \in Nat \ {0}
  BY CatalogueAssumption
<1>2. visible \in SUBSET DOMAIN table /\ S \in SUBSET DOMAIN table
  BY DEF Listed, Matches
<1>3. RandomPage(s, hide, start) =
        [ids |-> got, cursor |-> IF Len(got) >= PerPage THEN CursorAt(s, Last(got)) ELSE NoCursor]
  BY DEF RandomPage
<1> HIDE DEF S, visible
<1>4. q \in Seq(DOMAIN table) /\ Distinct(q)
  BY <1>2, OrderedSorts, OrderedIsDistinct, SeqMonotonic
<1>5. all \in Seq(DOMAIN table)
  BY <1>2, OrderedSorts, SeqMonotonic
<1> HIDE DEF q, all
<1>6. tail \in Seq(DOMAIN table) /\ Distinct(tail)
  BY <1>1, <1>4, FrontOf, DistinctFront
<1> HIDE DEF tail
<1>7. Wrapped(s, tail, all) = FirstOf(wrap, PerPage)
  BY DEF Wrapped
<1>8. rest \in SUBSET DOMAIN table
  <2>1. FirstOf(all, PerPage) \in Seq(DOMAIN table)
    BY <1>1, <1>5, FrontOf
  <2>2. QED
    BY <2>1, LenProperties, ElementOfSeq DEF Range
<1>9. \A k \in 1..Len(tail) : tail[k] \notin rest
  BY <1>6, LenProperties DEF Range
<1> HIDE DEF rest
<1>10. /\ Ordered(s, rest) \in Seq(rest) /\ Ordered(s, rest) \in Seq(DOMAIN table)
       /\ Distinct(Ordered(s, rest))
  BY <1>8, OrderedSorts, OrderedIsDistinct, SeqMonotonic
<1>11. \A l \in 1..Len(Ordered(s, rest)) : Ordered(s, rest)[l] \in rest
  BY <1>10, ElementOfSeq
<1>12. wrap \in Seq(DOMAIN table) /\ Distinct(wrap)
  <2>1. \A k \in 1..Len(tail), l \in 1..Len(Ordered(s, rest)) : tail[k] # Ordered(s, rest)[l]
    BY <1>9, <1>11
  <2>2. QED
    BY <1>6, <1>10, <2>1, ConcatProperties, DistinctConcat
<1> HIDE DEF wrap
<1>13. got \in Seq(DOMAIN table) /\ Distinct(got)
  <2>1. FirstOf(wrap, PerPage) \in Seq(DOMAIN table) /\ Distinct(FirstOf(wrap, PerPage))
    BY <1>1, <1>12, FrontOf, DistinctFront
  <2>2. got = FirstOf(wrap, PerPage) \/ got = tail
    BY <1>7, Zenon
  <2> HIDE DEF got
  <2>3. QED
    BY <1>6, <2>1, <2>2
<1> HIDE DEF got
<1>14. Len(got) >= PerPage => Last(got) \in DOMAIN table
  BY <1>1, <1>13, LenProperties, ElementOfSeq DEF Last
<1>15. NoCursor \in Cursors
  BY DEF NoCursor, Cursors
<1>16. QED
  BY <1>1, <1>3, <1>13, <1>14, <1>15, CursorIsOfRow

\* A set sent as a list arrives whole.
LEMMA ListOfSet ==
    ASSUME NEW S, IsFiniteSet(S)
    PROVE  SetToSeq(S) \in Seq(S) /\ Range(SetToSeq(S)) = S
<1> DEFINE n == Cardinality(S)
           q == SetToSeq(S)
<1>1. n \in Nat /\ \E f \in [1..n -> S] : IsInjective(f)
  <2>1. n \in Nat /\ ExistsBijection(1..n, S)
    BY FS_CardinalityType
  <2>2. PICK f \in Bijection(1..n, S) : TRUE
    BY <2>1 DEF ExistsBijection
  <2>3. f \in [1..n -> S] /\ \A a, b \in 1..n : f[a] = f[b] => a = b
    BY <2>2, Fun_BijectionProperties
  <2>4. QED
    BY <2>1, <2>3 DEF IsInjective
<1>2. q = CHOOSE f \in [1..n -> S] : IsInjective(f)
  BY DEF SetToSeq
<1>3. q \in [1..n -> S] /\ IsInjective(q)
  BY <1>1, <1>2
<1> HIDE DEF q
<1>4. q \in Injection(1..n, S)
  BY <1>3, Fun_IsInj DEF IsInjective
<1>5. IsFiniteSet(1..n) /\ Cardinality(1..n) = n
  BY <1>1, FS_Interval
<1>6. q \in Surjection(1..n, S)
  BY <1>4, <1>5, FS_Injection
<1>7. Range(q) = S
  BY <1>6, Fun_SurjectionProperties
<1>8. q \in Seq(S)
  BY <1>1, <1>3
<1>9. QED
  BY <1>7, <1>8 DEF q

LEMMA RangeOfConcat ==
    ASSUME NEW S, NEW q \in Seq(S), NEW r \in Seq(S)
    PROVE  Range(q \o r) = Range(q) \cup Range(r)
  BY RangeConcatenation

\* What a list cut in two holds.
LEMMA RangeOfCut ==
    ASSUME NEW S, NEW q \in Seq(S), NEW n \in Nat
    PROVE  LET f == FirstOf(q, n)
               r == SubSeq(q, Len(f) + 1, Len(q))
           IN  f \in Seq(S) /\ r \in Seq(S) /\ Range(q) = Range(f) \cup Range(r)
<1> DEFINE f == FirstOf(q, n)
           m == Len(f)
           r == SubSeq(q, m + 1, Len(q))
<1>1. Len(q) \in Nat /\ DOMAIN q = 1..Len(q) /\ \A k \in 1..Len(q) : q[k] \in S
  BY LenProperties, ElementOfSeq
<1>2. /\ f \in Seq(S) /\ m \in Nat /\ m <= Len(q) /\ DOMAIN f = 1..m
      /\ \A k \in 1..m : f[k] = q[k]
  BY <1>1, FrontOf, LenProperties
<1> HIDE DEF f, m
<1>3. /\ r \in Seq(S) /\ Len(r) = Len(q) - m
      /\ \A k \in 1..Len(q) - m : r[k] = q[m + k]
  <2>1. m + 1 \in Int /\ Len(q) \in Int /\ \A k \in m + 1..Len(q) : q[k] \in S
    BY <1>1, <1>2
  <2>2. Len(r) = IF m + 1 <= Len(q) THEN Len(q) - (m + 1) + 1 ELSE 0
    BY <2>1, SubSeqProperties
  <2>3. /\ r \in Seq(S)
        /\ \A k \in 1..Len(q) - (m + 1) + 1 : r[k] = q[m + 1 + k - 1]
    BY <2>1, SubSeqProperties
  <2>4. Len(q) - (m + 1) + 1 = Len(q) - m /\ \A k \in 1..Len(q) - m : m + 1 + k - 1 = m + k
    BY <1>1, <1>2
  <2> HIDE DEF r
  <2>5. m \in Nat /\ Len(q) \in Nat /\ m <= Len(q)
    BY <1>1, <1>2
  <2>6. Len(r) = Len(q) - m
    BY <2>2, <2>5
  <2>7. \A k \in 1..Len(q) - m : r[k] = q[m + 1 + k - 1]
    BY <2>3, <2>4
  <2>8. QED
    BY <2>3, <2>4, <2>6, <2>7
<1> HIDE DEF r
<1>4. DOMAIN r = 1..Len(q) - m
  BY <1>3, LenProperties
<1>5. ASSUME NEW k \in 1..Len(q) PROVE q[k] \in Range(f) \cup Range(r)
  <2>1. CASE k <= m
    BY <1>1, <1>2, <2>1 DEF Range
  <2>2. CASE k > m
    <3>1. k - m \in 1..Len(q) - m /\ m + (k - m) = k
      BY <1>1, <1>2, <2>2
    <3>2. r[k - m] = q[k]
      BY <1>3, <3>1
    <3>3. QED
      BY <1>4, <3>1, <3>2 DEF Range
  <2>3. QED
    BY <1>1, <1>2, <2>1, <2>2
<1>6. Range(q) \subseteq Range(f) \cup Range(r)
  BY <1>1, <1>5 DEF Range
<1>7. Range(f) \subseteq Range(q)
  BY <1>1, <1>2 DEF Range
<1>8. ASSUME NEW k \in 1..Len(q) - m PROVE r[k] \in Range(q)
  <2>1. m + k \in 1..Len(q)
    BY <1>1, <1>2
  <2>2. QED
    BY <1>1, <1>3, <2>1 DEF Range
<1>9. Range(r) \subseteq Range(q)
  BY <1>4, <1>8 DEF Range
<1>10. QED
  BY <1>2, <1>3, <1>6, <1>7, <1>9 DEF f, m, r

\* A row's places in a list that grows by another.
LEMMA HoldsInConcat ==
    ASSUME NEW S, NEW q \in Seq(S), NEW r \in Seq(S), NEW i
    PROVE  /\ Never(q, i) /\ Never(r, i) => Never(q \o r, i)
           /\ Once(q, i) /\ Never(r, i) => Once(q \o r, i)
           /\ Never(q, i) /\ Once(r, i) => Once(q \o r, i)
<1> DEFINE n == Len(q) + Len(r)
<1>1. Len(q) \in Nat /\ Len(r) \in Nat
  BY LenProperties
<1>2. /\ Len(q \o r) = n
      /\ \A k \in 1..n : (q \o r)[k] = IF k <= Len(q) THEN q[k] ELSE r[k - Len(q)]
  BY ConcatProperties
<1>3. \A k \in 1..Len(q) : k \in 1..n /\ (q \o r)[k] = q[k]
  BY <1>1, <1>2
<1>4. \A k \in 1..n : k > Len(q) => k - Len(q) \in 1..Len(r) /\ (q \o r)[k] = r[k - Len(q)]
  BY <1>1, <1>2
<1>5. \A k \in 1..Len(r) : Len(q) + k \in 1..n /\ (q \o r)[Len(q) + k] = r[k]
  <2>1. ASSUME NEW k \in 1..Len(r)
        PROVE  Len(q) + k \in 1..n /\ Len(q) + k > Len(q) /\ (Len(q) + k) - Len(q) = k
    BY <1>1
  <2>2. QED
    BY <1>4, <2>1
<1>6. \A k \in 1..n : k \in 1..Len(q) \/ k > Len(q)
  BY <1>1
<1>7. Never(q, i) /\ Never(r, i) => Never(q \o r, i)
  <2>1. ASSUME Never(q, i), Never(r, i), NEW k \in 1..n PROVE (q \o r)[k] # i
    BY <1>3, <1>4, <1>6, <2>1 DEF Never
  <2>2. QED
    BY <1>2, <2>1 DEF Never
<1>8. ASSUME Once(q, i), Never(r, i) PROVE Once(q \o r, i)
  <2>1. PICK k \in 1..Len(q) : q[k] = i /\ \A m \in 1..Len(q) : q[m] = i => m = k
    BY <1>8 DEF Once
  <2>2. ASSUME NEW m \in 1..n, (q \o r)[m] = i PROVE m = k
    <3>1. CASE m \in 1..Len(q)
      BY <1>3, <2>1, <2>2, <3>1
    <3>2. CASE m > Len(q)
      BY <1>4, <1>8, <2>2, <3>2 DEF Never
    <3>3. QED
      BY <1>6, <3>1, <3>2
  <2>3. k \in 1..n /\ (q \o r)[k] = i
    BY <1>3, <2>1
  <2>4. QED
    BY <1>2, <2>2, <2>3 DEF Once
<1>9. ASSUME Never(q, i), Once(r, i) PROVE Once(q \o r, i)
  <2>1. PICK k \in 1..Len(r) : r[k] = i /\ \A m \in 1..Len(r) : r[m] = i => m = k
    BY <1>9 DEF Once
  <2>2. ASSUME NEW m \in 1..n, (q \o r)[m] = i PROVE m = Len(q) + k
    <3>1. CASE m \in 1..Len(q)
      BY <1>3, <1>9, <2>2, <3>1 DEF Never
    <3>2. CASE m > Len(q)
      <4>1. m - Len(q) = k
        BY <1>4, <2>1, <2>2, <3>2
      <4>2. QED
        BY <1>1, <4>1
    <3>3. QED
      BY <1>6, <3>1, <3>2
  <2>3. Len(q) + k \in 1..n /\ (q \o r)[Len(q) + k] = i
    BY <1>5, <2>1
  <2>4. QED
    BY <1>2, <2>2, <2>3 DEF Once
<1>10. QED
  BY <1>7, <1>8, <1>9

\* A list that grows has the rows of both parts, and stays as short as it
\* was only if nothing came.
LEMMA GrownList ==
    ASSUME NEW S, NEW q \in Seq(S), NEW r \in Seq(S)
    PROVE  /\ \A P : (\A k \in 1..Len(q) : q[k] \in P) /\ (\A k \in 1..Len(r) : r[k] \in P)
                    => \A k \in 1..Len(q \o r) : (q \o r)[k] \in P
           /\ \A n \in Nat : Len(q) >= n =>
                /\ Len(q \o r) >= n
                /\ Len(q \o r) <= n => r = <<>> /\ q \o r = q /\ Len(q) <= n
<1> DEFINE n == Len(q) + Len(r)
<1>1. Len(q) \in Nat /\ Len(r) \in Nat
  BY LenProperties
<1>2. /\ Len(q \o r) = n
      /\ \A k \in 1..n : (q \o r)[k] = IF k <= Len(q) THEN q[k] ELSE r[k - Len(q)]
  BY ConcatProperties
<1>3. \A k \in 1..n : \/ k \in 1..Len(q) /\ (q \o r)[k] = q[k]
                      \/ k - Len(q) \in 1..Len(r) /\ (q \o r)[k] = r[k - Len(q)]
  BY <1>1, <1>2
<1>4. ASSUME NEW m \in Nat, Len(q) >= m
      PROVE  n >= m /\ (n <= m => Len(r) = 0 /\ Len(q) <= m)
  BY <1>1, <1>4
<1>5. Len(r) = 0 => r = <<>> /\ q \o r = q
  BY EmptySeq, ConcatEmptySeq
<1>6. QED
  BY <1>2, <1>3, <1>4, <1>5

----------------------------------------------------------------------------
(* The steps *)

LEMMA ReqShapes ==
    ASSUME CatalogueShapes
    PROVE  /\ req # NoReq => req \in Sent \cup Answers
           /\ req.state = "sent" => req \in Sent
           /\ req.state \in {"listed", "answered"} => req \in Answers
           /\ req \in Sent => req.state = "sent" /\ req # NoReq
           /\ req \in Answers => req.state \in {"listed", "answered"} /\ req # NoReq
<1>1. NoReq.state = None
  BY DEF NoReq
<1>2. \A r \in Sent : r.state = "sent"
  BY DEF Sent
<1>3. \A r \in Answers : r.state \in {"listed", "answered"}
  BY DEF Answers
<1>4. req \in {NoReq} \cup Sent \cup Answers
  BY DEF CatalogueShapes
<1>5. QED
  BY <1>1, <1>2, <1>3, <1>4 DEF None

LEMMA SideShapes ==
    ASSUME CatalogueShapes
    PROVE  /\ side.kind = "batch" <=> side \in BatchSides
           /\ side.kind = "view" <=> side \in Views
           /\ side.kind \notin {"batch", "view"} <=> side = NoSide
<1>1. NoSide.kind = None
  BY DEF NoSide
<1>2. \A r \in BatchSides : r.kind = "batch"
  BY DEF BatchSides
<1>3. \A r \in Views : r.kind = "view"
  BY DEF Views
<1>4. side \in {NoSide} \cup BatchSides \cup Views
  BY DEF CatalogueShapes
<1>5. QED
  BY <1>1, <1>2, <1>3, <1>4 DEF None

\* What a query answers depends on the rows and the preference alone.
LEMMA SameTable ==
    ASSUME table' = table, pref' = pref
    PROVE  /\ \A s, i : Key(s, i)' = Key(s, i)
           /\ \A s, c, i : Beyond(s, c, i)' <=> Beyond(s, c, i)
           /\ \A kw : Matches(kw)' = Matches(kw)
           /\ \A i : Blocked(i)' <=> Blocked(i)
           /\ \A kw, hide : Listed(kw, hide)' = Listed(kw, hide)
           /\ \A kw, hide : HasExcluded(kw, hide)' <=> HasExcluded(kw, hide)
<1>1. \A s, i : Key(s, i)' = Key(s, i)
  BY DEF Key
<1>2. \A s, c, i : Beyond(s, c, i)' <=> Beyond(s, c, i)
  BY <1>1 DEF Beyond
<1>3. \A kw : Matches(kw)' = Matches(kw)
  BY DEF Matches
<1>4. \A i : Blocked(i)' <=> Blocked(i)
  BY DEF Blocked
<1>5. \A kw, hide : Listed(kw, hide)' = Listed(kw, hide)
  BY <1>3, <1>4 DEF Listed
<1>6. \A kw, hide : HasExcluded(kw, hide)' <=> HasExcluded(kw, hide)
  BY <1>3, <1>4 DEF HasExcluded
<1>7. QED
  BY <1>1, <1>2, <1>3, <1>4, <1>5, <1>6

\* A request that hides nothing lists what one that hides lists.
LEMMA HidingLess ==
    ASSUME NEW kw, NEW hide \in BOOLEAN, NEW h \in BOOLEAN, h => hide
    PROVE  Listed(kw, hide) \subseteq Listed(kw, h)
  BY DEF Listed

\* The visit sees the same rows as before.
LEMMA ViewStays ==
    ASSUME ViewOK, UNCHANGED <<table, pref, active, side, edits>>
    PROVE  ViewOK'
<1>1. Excluded' = Excluded
  BY SameTable DEF Excluded
<1>2. QED
  BY <1>1, SameTable DEF ViewOK

\* The list sees the same rows as before.
LEMMA BrowserStays ==
    ASSUME ListOK, SteadyOK, BrowseOK, UntouchedOK,
           UNCHANGED <<table, pref, active, tab, client, req, steady, edits, searches>>
    PROVE  ListOK' /\ SteadyOK' /\ BrowseOK' /\ UntouchedOK'
<1>1. (Live' <=> Live) /\ (Answered' <=> Answered) /\ Now' = Now /\ \A h : Sees(h)' = Sees(h)
  BY SameTable DEF Live, Answered, Now, Sees
<1>2. ListOK'
  BY <1>1 DEF ListOK
<1>3. SteadyOK'
  BY <1>1, SameTable DEF SteadyOK
<1>4. BrowseOK'
  BY <1>1 DEF BrowseOK
<1>5. UntouchedOK'
  BY <1>1, SameTable DEF UntouchedOK
<1>6. QED
  BY <1>2, <1>3, <1>4, <1>5

LEMMA Positive ==
    /\ PerPage \in Nat \ {0} /\ ChunkSize \in Nat \ {0}
    /\ MaxEdits \in Nat /\ MaxSides \in Nat
  BY CatalogueAssumption

\* A side operation that moves on, or ends, without touching the rows.
LEMMA MoveStep ==
    ASSUME CatalogueInv, NEW record, Move(record),
           record = NoSide \/ (record \in BatchSides /\ side.kind = "batch")
                           \/ (record \in Views /\ side.kind = "view"),
           ViewOK'
    PROVE  CatalogueInv'
<1>1. UNCHANGED <<table, pref, active, tab, client, req, steady, edits, searches, faults, sides>> /\ side' = record
  BY DEF Move
<1>2. CatalogueShapes /\ ListOK /\ SteadyOK /\ BrowseOK /\ UntouchedOK
  BY DEF CatalogueInv
<1>3. ListOK' /\ SteadyOK' /\ BrowseOK' /\ UntouchedOK'
  BY <1>1, <1>2, BrowserStays
<1>4. NoSide.kind = None /\ None # "batch" /\ None # "view"
  BY DEF NoSide, None
<1>5. /\ \A r \in BatchSides : r.kind = "batch"
      /\ \A r \in Views : r.kind = "view"
  BY DEF BatchSides, Views
<1>6. edits \in Nat /\ sides \in Nat /\ MaxEdits \in Nat
  BY <1>2, Positive DEF CatalogueShapes
<1>7. CatalogueShapes'
  <2>1. side' \in {NoSide} \cup BatchSides \cup Views
    BY <1>1
  <2>2. side' # NoSide => sides > 0
    <3>1. side' # NoSide => side # NoSide
      BY <1>1, <1>4
    <3>2. QED
      BY <1>2, <3>1 DEF CatalogueShapes
  <2>3. IF side'.kind = "batch" THEN edits < MaxEdits + sides ELSE edits <= MaxEdits + sides
    <3>1. side'.kind = "batch" => side.kind = "batch"
      BY <1>1, <1>4, <1>5
    <3>2. IF side.kind = "batch" THEN edits < MaxEdits + sides ELSE edits <= MaxEdits + sides
      BY <1>2 DEF CatalogueShapes
    <3>3. QED
      BY <1>6, <3>1, <3>2
  <2>4. QED
    BY <1>1, <1>2, <2>1, <2>2, <2>3 DEF CatalogueShapes
<1>8. QED
  BY <1>3, <1>7 DEF CatalogueInv

\* A side operation that begins.
LEMMA OpenStep ==
    ASSUME CatalogueInv, OpenSide, side' \in BatchSides \cup Views, ViewOK'
    PROVE  CatalogueInv'
<1>1. /\ UNCHANGED <<table, pref, active, tab, client, req, steady, edits, searches, faults>>
      /\ side = NoSide /\ sides < MaxSides /\ sides' = sides + 1
  BY DEF OpenSide
<1>2. CatalogueShapes /\ ListOK /\ SteadyOK /\ BrowseOK /\ UntouchedOK
  BY DEF CatalogueInv
<1>3. ListOK' /\ SteadyOK' /\ BrowseOK' /\ UntouchedOK'
  BY <1>1, <1>2, BrowserStays
<1>4. side.kind # "batch"
  BY <1>1 DEF NoSide, None
<1>5. edits \in Nat /\ sides \in Nat /\ MaxEdits \in Nat /\ MaxSides \in Nat /\ edits <= MaxEdits + sides
  BY <1>2, <1>4, Positive DEF CatalogueShapes
<1>6. /\ sides' \in Nat /\ sides' > 0 /\ sides' <= MaxSides
      /\ edits < MaxEdits + sides' /\ edits <= MaxEdits + sides'
  BY <1>1, <1>5
<1>7. CatalogueShapes'
  BY <1>1, <1>2, <1>6 DEF CatalogueShapes
<1>8. QED
  BY <1>3, <1>7 DEF CatalogueInv

LEMMA SelectedStep ==
    ASSUME CatalogueInv, NEW S \in Selections, NEW capped \in BOOLEAN, BatchSelected(S, capped)
    PROVE  CatalogueInv'
<1>1. S \in SUBSET Ids
  BY CatalogueAssumption
<1>2. OpenSide /\ side' = Batch("resolved", FALSE, {}, S)
  BY DEF BatchSelected
<1>3. side' \in BatchSides /\ side'.kind = "batch"
  BY <1>1, <1>2 DEF Batch, BatchSides
<1>4. ViewOK'
  BY <1>3 DEF ViewOK
<1>5. QED
  BY <1>2, <1>3, <1>4, OpenStep

LEMMA MatchedStep ==
    ASSUME CatalogueInv, NEW kw \in BOOLEAN, NEW capped \in BOOLEAN,
           NEW excluded \in Selections \cup {{}}, BatchMatched(kw, excluded, capped)
    PROVE  CatalogueInv'
<1>1. excluded \in SUBSET Ids
  BY CatalogueAssumption
<1>2. OpenSide /\ side' = Batch(IF capped THEN "counting" ELSE "listing", kw, excluded, {})
  BY DEF BatchMatched
<1>3. side' \in BatchSides /\ side'.kind = "batch"
  BY <1>1, <1>2 DEF Batch, BatchSides
<1>4. ViewOK'
  BY <1>3 DEF ViewOK
<1>5. QED
  BY <1>2, <1>3, <1>4, OpenStep

\* The batch that is under way stays one.
LEMMA BatchMoves ==
    ASSUME CatalogueInv, side.kind = "batch", NEW record, Move(record),
           record = NoSide \/ record \in BatchSides
    PROVE  CatalogueInv'
<1>1. side' = record
  BY DEF Move
<1>2. side'.kind # "view"
  BY <1>1 DEF NoSide, None, BatchSides
<1>3. ViewOK'
  BY <1>2 DEF ViewOK
<1>4. QED
  BY <1>3, MoveStep

LEMMA CountStep ==
    ASSUME CatalogueInv, BatchCount
    PROVE  CatalogueInv'
<1>1. side \in BatchSides
  BY SideShapes DEF BatchCount, CatalogueInv
<1>2. [side EXCEPT !.state = "listing"] \in BatchSides
  BY <1>1 DEF BatchSides
<1> DEFINE record == IF OverCap(CountBounded(side.kw, active)) THEN NoSide
                     ELSE [side EXCEPT !.state = "listing"]
<1>3. Move(record) /\ side.kind = "batch"
  BY DEF BatchCount
<1>4. record = NoSide \/ record \in BatchSides
  BY <1>2
<1> HIDE DEF record
<1>5. QED
  BY <1>3, <1>4, BatchMoves

LEMMA ListStep ==
    ASSUME CatalogueInv, BatchList
    PROVE  CatalogueInv'
<1> DEFINE ids == Listed(side.kw, active) \ side.excluded
           record == IF ids = {} THEN NoSide
                     ELSE [side EXCEPT !.state = "resolved", !.ids = ids]
<1>1. side \in BatchSides
  BY SideShapes DEF BatchList, CatalogueInv
<1>2. ids \in SUBSET Ids
  BY DEF CatalogueInv, CatalogueShapes, Listed, Matches
<1>3. Move(record) /\ side.kind = "batch"
  BY DEF BatchList
<1> HIDE DEF ids
<1>4. [side EXCEPT !.state = "resolved", !.ids = ids] \in BatchSides
  BY <1>1, <1>2 DEF BatchSides
<1>5. record = NoSide \/ record \in BatchSides
  BY <1>4
<1> HIDE DEF record
<1>6. QED
  BY <1>3, <1>5, BatchMoves

LEMMA ViewStep ==
    ASSUME CatalogueInv, BlockedView(client.search)
    PROVE  CatalogueInv'
<1> DEFINE record == [kind |-> "view", state |-> "reading", search |-> client.search,
                      left |-> <<>>, ids |-> <<>>, began |-> edits]
<1>1. client.search \in Searches /\ edits \in Nat
  BY DEF CatalogueInv, CatalogueShapes, Clients
<1>2. OpenSide /\ side' = record /\ edits' = edits
  BY DEF BlockedView, OpenSide
<1>3. record \in Views
  BY <1>1 DEF Views
<1>4. side'.state = "reading" /\ side'.began = edits /\ side'.ids = <<>>
  BY <1>2
<1>5. ViewOK'
  BY <1>1, <1>2, <1>4 DEF ViewOK
<1> HIDE DEF record
<1>6. QED
  BY <1>2, <1>3, <1>5, OpenStep

LEMMA ExcludedFinite ==
    ASSUME Stored
    PROVE  Excluded \in SUBSET DOMAIN table /\ IsFiniteSet(Excluded)
  BY TableFinite DEF Excluded

LEMMA BlockedIdsStep ==
    ASSUME CatalogueInv, ReadBlockedIds
    PROVE  CatalogueInv'
<1> DEFINE record == [side EXCEPT !.state = "filtering", !.left = SetToSeq(Excluded)]
<1>1. Stored /\ side \in Views
  BY SideShapes DEF ReadBlockedIds, CatalogueInv, CatalogueShapes, Stored
<1>2. (IF active THEN {i \in DOMAIN table : Blocked(i)} ELSE {}) = Excluded
  BY DEF Excluded
<1>3. Move(record) /\ side.kind = "view" /\ side.state = "reading"
  BY <1>2 DEF ReadBlockedIds
<1>4. SetToSeq(Excluded) \in Seq(Excluded) /\ Range(SetToSeq(Excluded)) = Excluded
  BY <1>1, ExcludedFinite, ListOfSet
<1>5. SetToSeq(Excluded) \in Seq(Ids)
  BY <1>1, <1>4, ExcludedFinite, SeqMonotonic DEF Stored
<1>6. record \in Views
  BY <1>1, <1>5 DEF Views
<1>7. /\ record.state = "filtering" /\ record.left = SetToSeq(Excluded)
      /\ record.ids = side.ids /\ record.search = side.search /\ record.began = side.began
  BY <1>1 DEF Views
<1> HIDE DEF record
<1>8. side.ids = <<>> /\ side.began <= edits
  BY <1>3 DEF CatalogueInv, ViewOK
<1>9. side' = record /\ UNCHANGED <<table, pref, active, edits>>
  BY <1>3 DEF Move
<1>10. Excluded' = Excluded /\ \A kw : Matches(kw)' = Matches(kw)
  BY <1>9, SameTable DEF Excluded
<1>11. Range(record.ids) = {}
  BY <1>7, <1>8 DEF Range
<1>12. ViewOK'
  BY <1>4, <1>7, <1>8, <1>9, <1>10, <1>11 DEF ViewOK
<1>13. QED
  BY <1>3, <1>6, <1>12, MoveStep

LEMMA FilterStep ==
    ASSUME CatalogueInv, FilterChunk
    PROVE  CatalogueInv'
<1> DEFINE chunk == FirstOf(side.left, ChunkSize)
           rest == SubSeq(side.left, Len(chunk) + 1, Len(side.left))
           found == InScope(side.search.kw, Range(chunk))
           record == [side EXCEPT !.left = rest, !.ids = side.ids \o SetToSeq(found)]
<1>1. Stored /\ side \in Views
  BY SideShapes DEF FilterChunk, CatalogueInv, CatalogueShapes, Stored
<1>2. Move(record) /\ side.kind = "view" /\ side.state = "filtering"
  BY DEF FilterChunk
<1>3. found = Range(chunk) \cap Matches(side.search.kw)
  BY DEF InScope, Listed
<1>4. side.left \in Seq(Ids) /\ side.ids \in Seq(Ids)
  BY <1>1 DEF Views
<1>5. rest \in Seq(Ids) /\ Range(side.left) = Range(chunk) \cup Range(rest)
  BY <1>4, Positive, RangeOfCut
<1> HIDE DEF chunk, rest
<1>6. found \in SUBSET DOMAIN table
  BY <1>3 DEF Matches
<1> HIDE DEF found
<1>7. SetToSeq(found) \in Seq(Ids) /\ Range(SetToSeq(found)) = found
  <2>1. IsFiniteSet(found)
    BY <1>1, <1>6, TableFinite
  <2>2. found \subseteq Ids
    BY <1>1, <1>6 DEF Stored
  <2>3. QED
    BY <2>1, <2>2, ListOfSet, SeqMonotonic
<1>8. /\ side.ids \o SetToSeq(found) \in Seq(Ids)
      /\ Range(side.ids \o SetToSeq(found)) = Range(side.ids) \cup found
  BY <1>4, <1>7, ConcatProperties, RangeOfConcat
<1>9. record \in Views
  BY <1>1, <1>5, <1>8 DEF Views
<1>10. /\ record.state = "filtering" /\ record.left = rest
       /\ record.ids = side.ids \o SetToSeq(found)
       /\ record.search = side.search /\ record.began = side.began
  BY <1>1, <1>2 DEF Views
<1> HIDE DEF record
<1>11. side' = record /\ UNCHANGED <<table, pref, active, edits>>
  BY <1>2 DEF Move
<1>12. Excluded' = Excluded /\ \A kw : Matches(kw)' = Matches(kw)
  BY <1>11, SameTable DEF Excluded
<1>13. ViewOK
  BY DEF CatalogueInv
<1>14. ASSUME side.began = edits
       PROVE  LET found_ == Excluded \cap Matches(side.search.kw)
              IN  /\ Range(rest) \subseteq Excluded
                  /\ Range(side.ids) \cup found \subseteq found_
                  /\ found_ \subseteq (Range(side.ids) \cup found) \cup Range(rest)
  <2>1. /\ Range(side.left) \subseteq Excluded
        /\ Range(side.ids) \subseteq Excluded \cap Matches(side.search.kw)
        /\ Excluded \cap Matches(side.search.kw) \subseteq Range(side.ids) \cup Range(side.left)
    BY <1>2, <1>13, <1>14 DEF ViewOK
  <2>2. found = Range(chunk) \cap Matches(side.search.kw)
    BY <1>3
  <2>3. QED
    BY <1>5, <2>1, <2>2
<1>15. side.began <= edits
  BY <1>2, <1>13 DEF ViewOK
<1>16. ViewOK'
  BY <1>8, <1>10, <1>11, <1>12, <1>14, <1>15 DEF ViewOK
<1>17. QED
  BY <1>2, <1>9, <1>16, MoveStep

LEMMA SortStep ==
    ASSUME CatalogueInv, SortView
    PROVE  CatalogueInv'
<1> DEFINE s == side.search
           S == Range(side.ids) \cap DOMAIN table
           ids == IF s.order = "random" THEN side.ids ELSE Ordered(s, S)
           record == [side EXCEPT !.state = "done", !.ids = ids]
<1>1. Stored /\ side \in Views
  BY SideShapes DEF SortView, CatalogueInv, CatalogueShapes, Stored
<1>2. Move(record) /\ side.kind = "view" /\ side.state = "filtering" /\ side.left = <<>>
  BY DEF SortView
<1>3. s \in SearchRecords /\ side.ids \in Seq(Ids)
  BY <1>1, CatalogueAssumption DEF Views
<1>4. Ordered(s, S) \in Seq(S) /\ \A i \in S : \E k \in 1..Len(Ordered(s, S)) : Ordered(s, S)[k] = i
  BY <1>1, <1>3, OrderedSorts
<1>5. Range(Ordered(s, S)) = S
  <2> DEFINE q == Ordered(s, S)
  <2>1. DOMAIN q = 1..Len(q) /\ \A k \in 1..Len(q) : q[k] \in S
    BY <1>4, LenProperties, ElementOfSeq
  <2> HIDE DEF q
  <2>2. \A i \in S : \E k \in 1..Len(q) : q[k] = i
    BY <1>4 DEF q
  <2>3. Range(q) = S
    BY <2>1, <2>2 DEF Range
  <2>4. QED
    BY <2>3 DEF q
<1>6. Ordered(s, S) \in Seq(Ids)
  BY <1>1, <1>4, SeqMonotonic DEF Stored
<1>7. ids \in Seq(Ids)
  BY <1>3, <1>6
<1>8. ids = side.ids \/ Range(ids) = S
  BY <1>5
<1> HIDE DEF ids
<1>9. record \in Views
  BY <1>1, <1>7 DEF Views
<1>10. /\ record.state = "done" /\ record.ids = ids
       /\ record.search = side.search /\ record.began = side.began
  BY <1>1 DEF Views
<1> HIDE DEF record
<1>11. side' = record /\ UNCHANGED <<table, pref, active, edits>>
  BY <1>2 DEF Move
<1>12. Excluded' = Excluded /\ \A kw : Matches(kw)' = Matches(kw)
  BY <1>11, SameTable DEF Excluded
<1>13. ViewOK
  BY DEF CatalogueInv
<1>14. side.began = edits => Range(ids) = Excluded \cap Matches(s.kw)
  <2>1. SUFFICES ASSUME side.began = edits PROVE Range(ids) = Excluded \cap Matches(s.kw)
    OBVIOUS
  <2>2. Range(<<>>) = {}
    BY DEF Range
  <2>3. Range(side.ids) = Excluded \cap Matches(s.kw)
    BY <1>2, <1>13, <2>1, <2>2 DEF ViewOK
  <2>4. S = Range(side.ids)
    BY <2>3 DEF Excluded
  <2>5. QED
    BY <1>8, <2>3, <2>4
<1>15. side.began <= edits
  BY <1>2, <1>13 DEF ViewOK
<1>16. ViewOK'
  BY <1>10, <1>11, <1>12, <1>14, <1>15 DEF ViewOK
<1>17. QED
  BY <1>2, <1>9, <1>16, MoveStep

LEMMA LeaveStep ==
    ASSUME CatalogueInv, LeaveView
    PROVE  CatalogueInv'
<1>1. Move(NoSide) /\ side' = NoSide
  BY DEF LeaveView, Move
<1>2. ViewOK'
  BY <1>1 DEF ViewOK, NoSide, None
<1>3. QED
  BY <1>1, <1>2, MoveStep

\* A row of the listing that is not written keeps its place in the order and
\* stays in the listing; what else the write does is not looked at.
LEMMA UnwrittenRows ==
    ASSUME NEW j \in DOMAIN table, j \in DOMAIN table', table'[j] = table[j],
           Blocked(j)' <=> Blocked(j)
    PROVE  /\ \A s : Key(s, j)' = Key(s, j)
           /\ \A s, c : Beyond(s, c, j)' <=> Beyond(s, c, j)
           /\ \A kw, hide : j \in Listed(kw, hide) => (j \in Listed(kw, hide))'
<1>1. \A s : Key(s, j)' = Key(s, j)
  BY DEF Key
<1>2. \A s, c : Beyond(s, c, j)' <=> Beyond(s, c, j)
  BY <1>1 DEF Beyond
<1>3. \A kw, hide : j \in Listed(kw, hide) => (j \in Listed(kw, hide))'
  BY DEF Listed, Matches
<1>4. QED
  BY <1>1, <1>2, <1>3

\* A write to other rows than those of steady'.
LEMMA RowsChange ==
    ASSUME CatalogueInv, Stored', pref' \in BOOLEAN, steady' \in SUBSET steady,
           active' \in BOOLEAN, UNCHANGED <<tab, client, req, searches, faults, sides>>,
           edits' = edits + 1,
           \A j \in steady' : /\ j \in DOMAIN table' /\ table'[j] = table[j]
                              /\ Blocked(j)' <=> Blocked(j),
           \/ side' = side /\ edits < MaxEdits
           \/ side' = NoSide /\ side.kind = "batch"
    PROVE  CatalogueInv'
<1>1. CatalogueShapes /\ ListOK /\ SteadyOK /\ BrowseOK /\ UntouchedOK /\ ViewOK
  BY DEF CatalogueInv
<1>2. edits \in Nat /\ edits' \in Nat /\ sides \in Nat /\ MaxEdits \in Nat /\ edits' > edits
  BY <1>1, Positive DEF CatalogueShapes
<1>3. steady \subseteq DOMAIN table
  BY <1>1 DEF CatalogueShapes
<1>4. \A j \in steady' : /\ j \in steady /\ j \in DOMAIN table'
                         /\ \A s, c : Beyond(s, c, j)' <=> Beyond(s, c, j)
                         /\ \A kw, hide : j \in Listed(kw, hide) => (j \in Listed(kw, hide))'
  BY <1>3, UnwrittenRows
<1>5. (Live' <=> Live) /\ (Answered' <=> Answered)
  BY DEF Live, Answered
<1>6. client.began \in Nat /\ client.began <= edits
  BY <1>1 DEF CatalogueShapes, Clients, ListOK
<1>7. req # NoReq /\ req.state # "sent" => req.at \in Nat /\ req.at <= edits
  <2>1. req \in Answers => req.at \in Nat
    BY DEF Answers
  <2>2. req \in Sent => req.state = "sent"
    BY DEF Sent
  <2>3. QED
    BY <1>1, <2>1, <2>2, ReqShapes DEF ListOK
<1>8. \A h : steady \subseteq Sees(h) => steady' \subseteq Sees(h)'
  BY <1>4 DEF Sees
<1>9. CatalogueShapes'
  <2>1. /\ side' \in {NoSide} \cup BatchSides \cup Views
        /\ side' # NoSide => sides' > 0
    BY <1>1 DEF CatalogueShapes
  <2>2. IF side'.kind = "batch" THEN edits' < MaxEdits + sides' ELSE edits' <= MaxEdits + sides'
    <3>1. CASE side' = side /\ edits < MaxEdits
      <4>1. side'.kind = "batch" => side # NoSide
        BY <3>1 DEF NoSide, None
      <4>2. side'.kind = "batch" => sides > 0
        BY <1>1, <4>1 DEF CatalogueShapes
      <4>3. edits' <= MaxEdits + sides' /\ (sides > 0 => edits' < MaxEdits + sides')
        BY <1>2, <3>1
      <4>4. QED
        BY <4>2, <4>3
    <3>2. CASE side' = NoSide /\ side.kind = "batch"
      <4>1. side'.kind # "batch"
        BY <3>2 DEF NoSide, None
      <4>2. edits < MaxEdits + sides
        BY <1>1, <3>2 DEF CatalogueShapes
      <4>3. edits' <= MaxEdits + sides'
        BY <1>2, <4>2
      <4>4. QED
        BY <4>1, <4>3
    <3>3. QED
      BY <3>1, <3>2
  <2>3. steady' \subseteq DOMAIN table'
    BY <1>4
  <2>4. QED
    BY <1>1, <1>2, <2>1, <2>2, <2>3 DEF CatalogueShapes, Stored
<1>10. ListOK'
  <2>1. client.began <= edits'
    BY <1>2, <1>6
  <2>2. req # NoReq /\ req.state # "sent" => req.at <= edits'
    BY <1>2, <1>7
  <2>3. QED
    BY <1>1, <1>5, <2>1, <2>2 DEF ListOK
<1>11. SteadyOK'
  BY <1>1, <1>4, <1>5, <1>8 DEF SteadyOK
<1>12. BrowseOK'
  BY <1>1, <1>5 DEF BrowseOK
<1>13. UntouchedOK'
  <2>1. client.began # edits'
    BY <1>2, <1>6
  <2>2. Answered => req.at # edits'
    BY <1>2, <1>7 DEF Answered, Live
  <2>3. QED
    BY <1>5, <2>1, <2>2 DEF UntouchedOK
<1>14. ViewOK'
  <2>1. CASE side' = side
    <3>1. side \in Views => side.began \in Nat
      BY DEF Views
    <3>2. side.kind = "view" => side.began # edits' /\ side.began <= edits'
      BY <1>1, <1>2, <3>1, SideShapes DEF ViewOK
    <3>3. QED
      BY <1>1, <2>1, <3>2 DEF ViewOK
  <2>2. CASE side' = NoSide
    BY <2>2 DEF ViewOK, NoSide, None
  <2>3. QED
    BY <2>1, <2>2
<1>15. QED
  BY <1>9, <1>10, <1>11, <1>12, <1>13, <1>14 DEF CatalogueInv

LEMMA WriteStep ==
    ASSUME CatalogueInv, NEW i \in Ids, WriteRow(i)
    PROVE  CatalogueInv'
<1>1. PICK row \in Writes : table' = [j \in DOMAIN table \cup {i} |-> IF j = i THEN row ELSE table[j]]
  BY DEF WriteRow
<1>2. /\ edits < MaxEdits /\ edits' = edits + 1 /\ steady' = steady \ {i}
      /\ UNCHANGED <<tab, client, req, side, searches, faults, sides, pref, active>>
  BY DEF WriteRow, Touch
<1>3. row \in Rows
  BY CatalogueAssumption
<1>4. CatalogueShapes
  BY DEF CatalogueInv
<1>5. Stored'
  BY <1>1, <1>3, <1>4 DEF Stored, CatalogueShapes
<1>6. pref' \in BOOLEAN /\ active' \in BOOLEAN
  BY <1>2, <1>4 DEF CatalogueShapes
<1>7. \A j \in steady' : /\ j \in DOMAIN table' /\ table'[j] = table[j]
                         /\ Blocked(j)' <=> Blocked(j)
  <2>1. \A j \in steady' : j \in DOMAIN table' /\ table'[j] = table[j]
    BY <1>1, <1>2, <1>4 DEF CatalogueShapes
  <2>2. QED
    BY <1>2, <2>1 DEF Blocked
<1>8. QED
  BY <1>2, <1>5, <1>6, <1>7, RowsChange

LEMMA RemoveStep ==
    ASSUME CatalogueInv, NEW i \in Ids, RemoveRow(i)
    PROVE  CatalogueInv'
<1>1. /\ table' = [j \in DOMAIN table \ {i} |-> table[j]]
      /\ edits < MaxEdits /\ edits' = edits + 1 /\ steady' = steady \ {i}
      /\ UNCHANGED <<tab, client, req, side, searches, faults, sides, pref, active>>
  BY DEF RemoveRow, Touch
<1>2. CatalogueShapes
  BY DEF CatalogueInv
<1>3. Stored'
  BY <1>1, <1>2 DEF Stored, CatalogueShapes
<1>4. pref' \in BOOLEAN /\ active' \in BOOLEAN
  BY <1>1, <1>2 DEF CatalogueShapes
<1>5. \A j \in steady' : /\ j \in DOMAIN table' /\ table'[j] = table[j]
                         /\ Blocked(j)' <=> Blocked(j)
  <2>1. \A j \in steady' : j \in DOMAIN table' /\ table'[j] = table[j]
    BY <1>1, <1>2 DEF CatalogueShapes
  <2>2. QED
    BY <1>1, <2>1 DEF Blocked
<1>6. QED
  BY <1>1, <1>3, <1>4, <1>5, RowsChange

LEMMA PreferenceStep ==
    ASSUME CatalogueInv, TogglePreference
    PROVE  CatalogueInv'
<1>1. /\ pref' = ~pref /\ edits < MaxEdits /\ edits' = edits + 1 /\ steady' = steady \ Tagged
      /\ UNCHANGED <<tab, client, req, side, searches, faults, sides, table, active>>
  BY DEF TogglePreference, Touch
<1>2. CatalogueShapes
  BY DEF CatalogueInv
<1>3. Stored' /\ pref' \in BOOLEAN /\ active' \in BOOLEAN
  BY <1>1, <1>2 DEF Stored, CatalogueShapes
<1>4. \A j \in steady' : /\ j \in DOMAIN table' /\ table'[j] = table[j]
                         /\ Blocked(j)' <=> Blocked(j)
  <2>1. \A j \in steady' : j \in DOMAIN table /\ ~table[j].tag
    BY <1>1, <1>2 DEF CatalogueShapes, Tagged
  <2>2. QED
    BY <1>1, <2>1 DEF Blocked
<1>5. QED
  BY <1>1, <1>3, <1>4, RowsChange

LEMMA OtherTabStep ==
    ASSUME CatalogueInv, OtherTabToggles
    PROVE  CatalogueInv'
<1>1. /\ active' = ~active /\ edits < MaxEdits /\ edits' = edits + 1 /\ steady' = steady \ {}
      /\ UNCHANGED <<tab, client, req, side, searches, faults, sides, table, pref>>
  BY DEF OtherTabToggles, Touch
<1>2. CatalogueShapes
  BY DEF CatalogueInv
<1>3. Stored' /\ pref' \in BOOLEAN /\ active' \in BOOLEAN
  BY <1>1, <1>2 DEF Stored, CatalogueShapes
<1>4. \A j \in steady' : /\ j \in DOMAIN table' /\ table'[j] = table[j]
                         /\ Blocked(j)' <=> Blocked(j)
  BY <1>1, <1>2 DEF CatalogueShapes, Blocked
<1>5. QED
  BY <1>1, <1>3, <1>4, RowsChange

LEMMA ActStep ==
    ASSUME CatalogueInv, BatchAct
    PROVE  CatalogueInv'
<1>1. /\ side.kind = "batch" /\ side' = NoSide /\ edits' = edits + 1 /\ steady' = steady \ side.ids
      /\ UNCHANGED <<pref, active, tab, client, req, searches, faults, sides>>
  BY DEF BatchAct
<1>2. CatalogueShapes
  BY DEF CatalogueInv
<1>3. \A i \in DOMAIN table : [table[i] EXCEPT !.tag = TRUE] \in Rows
  BY <1>2 DEF CatalogueShapes, Rows
<1>4. /\ Stored' 
      /\ \A j \in DOMAIN table \ side.ids : j \in DOMAIN table' /\ table'[j] = table[j]
  <2>1. CASE table' = [i \in DOMAIN table \ side.ids |-> table[i]]
    BY <1>2, <2>1 DEF Stored, CatalogueShapes
  <2>2. CASE table' = [i \in DOMAIN table |->
                         IF i \in side.ids THEN [table[i] EXCEPT !.tag = TRUE] ELSE table[i]]
    BY <1>2, <1>3, <2>2 DEF Stored, CatalogueShapes
  <2>3. QED
    BY <2>1, <2>2 DEF BatchAct
<1>5. pref' \in BOOLEAN /\ active' \in BOOLEAN
  BY <1>1, <1>2 DEF CatalogueShapes
<1>6. \A j \in steady' : /\ j \in DOMAIN table' /\ table'[j] = table[j]
                         /\ Blocked(j)' <=> Blocked(j)
  <2>1. \A j \in steady' : j \in DOMAIN table' /\ table'[j] = table[j]
    BY <1>1, <1>2, <1>4 DEF CatalogueShapes
  <2>2. QED
    BY <1>1, <2>1 DEF Blocked
<1>7. QED
  BY <1>1, <1>4, <1>5, <1>6, RowsChange

LEMMA FreshList ==
    ASSUME NEW s \in Searches
    PROVE  /\ Empty(s) \in Clients
           /\ \A b \in BOOLEAN : [Empty(s) EXCEPT !.bar = b] \in Clients
<1>1. NoCursor \in Cursors
  BY DEF NoCursor, Cursors
<1>2. <<>> \in Seq(Ids)
  BY EmptySeq
<1>3. QED
  BY <1>1, <1>2 DEF Empty, Clients

LEMMA SentRequest ==
    ASSUME NEW c \in Clients, NEW hide \in BOOLEAN, NEW more \in BOOLEAN
    PROVE  LET r == Request(c, hide, more)
           IN  /\ r \in Sent /\ r # NoReq /\ r.state = "sent" /\ ~r.superseded
               /\ r.search = c.search /\ r.hide = hide /\ r.more = more
               /\ r.cursor = IF more THEN c.cursor ELSE NoCursor
<1> DEFINE r == Request(c, hide, more)
<1>1. NoCursor \in Cursors
  BY DEF NoCursor, Cursors
<1>2. c.search \in Searches /\ c.cursor \in Cursors
  BY DEF Clients
<1>3. /\ r.state = "sent" /\ r.superseded = FALSE
      /\ r.search = c.search /\ r.hide = hide /\ r.more = more
      /\ r.cursor = IF more THEN c.cursor ELSE NoCursor
  BY DEF Request
<1>4. r \in Sent
  BY <1>1, <1>2 DEF Request, Sent
<1>5. r # NoReq
  BY <1>3 DEF NoReq, None
<1>6. QED
  BY <1>3, <1>4, <1>5

\* A list that was reset has no row to answer for, and the request under way
\* is either its first page's or one whose answer will be dropped.
LEMMA LoadResets ==
    ASSUME CatalogueShapes, ListOK, NEW s \in Searches, NEW hide \in BOOLEAN, Load(s, hide),
           tab'.hide = hide, searches' \in Nat, searches' > 0,
           edits' \in Nat, edits <= edits'
    PROVE  /\ client' \in Clients /\ req' \in {NoReq} \cup Sent \cup Answers /\ steady' = {}
           /\ ListOK' /\ SteadyOK' /\ BrowseOK' /\ UntouchedOK'
<1> DEFINE fresh == [Empty(s) EXCEPT !.bar = client.bar]
<1>1. client.bar \in BOOLEAN /\ edits \in Nat
  BY DEF CatalogueShapes, Clients
<1>2. /\ client' = fresh /\ steady' = {}
      /\ req' = IF req = NoReq THEN Request(fresh, hide, FALSE) ELSE SupersededReq
  BY DEF Load
<1>3. fresh \in Clients
  BY <1>1, FreshList
<1>4. /\ fresh.search = s /\ fresh.items = <<>> /\ fresh.from = {} /\ fresh.cursor = NoCursor
      /\ ~fresh.noMore /\ ~fresh.barred /\ ~fresh.back /\ fresh.began = 0
  BY DEF Empty
<1> HIDE DEF fresh
<1>5. \/ /\ req' = Request(fresh, hide, FALSE) /\ req' \in Sent /\ req' # NoReq
         /\ req'.state = "sent" /\ ~req'.superseded /\ req'.search = s /\ req'.hide = hide
         /\ req'.cursor = NoCursor /\ ~req'.more
      \/ /\ req # NoReq /\ req' \in Sent \cup Answers /\ req'.superseded = TRUE
         /\ req'.state = req.state /\ (req \in Answers => req'.at = req.at)
  <2>1. CASE req = NoReq
    BY <1>2, <1>3, <1>4, <2>1, SentRequest
  <2>2. CASE req # NoReq
    <3>1. req \in Sent \cup Answers /\ req' = [req EXCEPT !.superseded = TRUE]
      BY <1>2, <2>2, ReqShapes DEF SupersededReq
    <3>2. CASE req \in Sent
      <4>1. req' \in Sent
        BY <3>1, <3>2 DEF Sent
      <4>2. req'.superseded = TRUE /\ req'.state = req.state
        BY <3>1, <3>2 DEF Sent
      <4>3. req.state = "sent" /\ \A r \in Answers : r.state # "sent"
        BY <3>2, ReqShapes DEF Answers
      <4>4. QED
        BY <2>2, <4>1, <4>2, <4>3
    <3>3. CASE req \in Answers
      <4>1. req' \in Answers
        BY <3>1, <3>3 DEF Answers
      <4>2. req'.superseded = TRUE /\ req'.state = req.state /\ req'.at = req.at
        BY <3>1, <3>3 DEF Answers
      <4>3. QED
        BY <2>2, <4>1, <4>2
    <3>4. QED
      BY <3>1, <3>2, <3>3
  <2>3. QED
    BY <2>1, <2>2
<1>6. ~Answered'
  BY <1>5 DEF Answered, Live
<1>7. Live' => /\ req'.search = client'.search /\ (tab'.hide => req'.hide)
               /\ req'.cursor = client'.cursor /\ ~client'.noMore /\ client'.from = {}
  BY <1>2, <1>4, <1>5 DEF Live
<1>8. req'.state # "sent" => req'.at <= edits'
  <2>1. SUFFICES ASSUME req'.state # "sent" PROVE req'.at <= edits'
    OBVIOUS
  <2>2. req # NoReq /\ req.state # "sent" /\ req'.state = req.state
    BY <1>5, <2>1
  <2>3. req \in Answers
    BY <2>2, ReqShapes
  <2>4. req'.at = req.at /\ req.at \in Nat
    BY <1>5, <2>1, <2>3 DEF Answers
  <2>5. req.at <= edits
    BY <2>2 DEF ListOK
  <2>6. QED
    BY <1>1, <2>4, <2>5
<1>9. ListOK'
  <2>1. client'.began <= edits' /\ searches' # 0
    BY <1>2, <1>4
  <2>2. QED
    BY <1>2, <1>4, <1>7, <1>8, <2>1 DEF ListOK
<1>10. SteadyOK'
  BY <1>2, <1>4, <1>6 DEF SteadyOK
<1>11. BrowseOK'
  <2>1. Distinct(client'.items)
    BY <1>2, <1>4 DEF Distinct
  <2>2. QED
    BY <1>2, <1>4, <1>6, <2>1 DEF BrowseOK
<1>12. UntouchedOK'
  BY <1>2, <1>4, <1>6 DEF UntouchedOK
<1>13. QED
  BY <1>2, <1>3, <1>5, <1>9, <1>10, <1>11, <1>12

LEMMA SearchStep ==
    ASSUME CatalogueInv, NEW s \in Searches, Search(s)
    PROVE  CatalogueInv'
<1>1. /\ searches' = searches + 1 /\ Load(s, tab.hide)
      /\ UNCHANGED <<table, pref, active, tab, side, edits, faults, sides>>
  BY DEF Search
<1>2. CatalogueShapes /\ ListOK /\ ViewOK
  BY DEF CatalogueInv
<1>3. tab.hide \in BOOLEAN /\ searches' \in Nat /\ searches' > 0 /\ edits \in Nat
  BY <1>1, <1>2 DEF CatalogueShapes
<1>4. /\ client' \in Clients /\ req' \in {NoReq} \cup Sent \cup Answers /\ steady' = {}
      /\ ListOK' /\ SteadyOK' /\ BrowseOK' /\ UntouchedOK'
  <2>1. edits <= edits' /\ edits' \in Nat
    BY <1>1, <1>3
  <2>2. QED
    BY <1>1, <1>2, <1>3, <2>1, LoadResets
<1>5. CatalogueShapes'
  BY <1>1, <1>2, <1>3, <1>4 DEF CatalogueShapes
<1>6. ViewOK'
  BY <1>1, <1>2, ViewStays
<1>7. QED
  BY <1>4, <1>5, <1>6 DEF CatalogueInv

\* What this tab knows of the setting changes, and the rows a request hides
\* with it: the list is loaded again, or it was asked for while the tab hid.
LEMMA TabLearns ==
    ASSUME CatalogueShapes, ListOK, SteadyOK, BrowseOK, UntouchedOK,
           UNCHANGED <<table, pref, client, req, steady, searches>>,
           tab' \in [known : BOOLEAN, hide : BOOLEAN], tab.hide \/ searches = 0,
           edits' \in Nat, edits <= edits', active' \in BOOLEAN,
           (active' = active /\ edits' = edits) \/ edits' # edits
    PROVE  ListOK' /\ SteadyOK' /\ BrowseOK' /\ UntouchedOK'
<1>1. (Live' <=> Live) /\ (Answered' <=> Answered) /\ \A h : Sees(h)' = Sees(h)
  BY SameTable DEF Live, Answered, Sees
<1>2. Live => tab.hide /\ req.hide = TRUE
  <2>1. SUFFICES ASSUME Live PROVE tab.hide /\ req.hide = TRUE
    OBVIOUS
  <2>2. req # NoReq /\ searches # 0
    BY <2>1 DEF Live, ListOK
  <2>3. req.hide \in BOOLEAN /\ (tab.hide => req.hide)
    BY <2>1, <2>2, ReqShapes DEF ListOK, Sent, Answers
  <2>4. QED
    BY <2>2, <2>3
<1>3. edits \in Nat /\ client.began \in Nat /\ client.began <= edits
  BY DEF CatalogueShapes, Clients, ListOK
<1>4. req # NoReq /\ req.state # "sent" => req.at \in Nat /\ req.at <= edits
  BY ReqShapes DEF Answers, ListOK
<1>5. ListOK'
  <2>1. client.began <= edits' /\ (req # NoReq /\ req.state # "sent" => req.at <= edits')
    BY <1>3, <1>4
  <2>2. QED
    BY <1>1, <1>2, <2>1 DEF ListOK
<1>6. client.from # {} \/ Answered => Sees(tab.hide) \subseteq Sees(tab'.hide)
  <2>1. client.from # {} \/ Answered => tab.hide = TRUE
    <3>1. client.from # {} => searches # 0
      BY DEF ListOK
    <3>2. tab.hide \in BOOLEAN
      BY DEF CatalogueShapes
    <3>3. QED
      BY <1>2, <3>1, <3>2 DEF Answered
  <2>2. tab'.hide \in BOOLEAN
    OBVIOUS
  <2>3. Listed(client.search.kw, TRUE) \subseteq Listed(client.search.kw, tab'.hide)
    BY <2>2, HidingLess
  <2>4. QED
    BY <2>1, <2>3 DEF Sees
<1>7. SteadyOK'
  BY <1>1, <1>6, SameTable DEF SteadyOK
<1>8. BrowseOK'
  BY <1>1 DEF BrowseOK
<1>9. UntouchedOK'
  <2>1. CASE active' = active /\ edits' = edits
    <3>1. Now' = Now
      BY <2>1, SameTable DEF Now, Sees
    <3>2. QED
      BY <1>1, <2>1, <3>1, SameTable DEF UntouchedOK
  <2>2. CASE edits' # edits
    <3>1. client.began # edits' /\ (Answered => req.at # edits')
      BY <1>3, <1>4, <2>2 DEF Answered, Live
    <3>2. QED
      BY <1>1, <3>1 DEF UntouchedOK
  <2>3. QED
    BY <2>1, <2>2
<1>10. QED
  BY <1>5, <1>7, <1>8, <1>9

LEMMA FetchStep ==
    ASSUME CatalogueInv, FetchConfig
    PROVE  CatalogueInv'
<1>1. /\ ~tab.known /\ tab' = ConfigIs(active)
      /\ UNCHANGED <<table, pref, active, client, req, side, steady, edits, searches, faults, sides>>
  BY DEF FetchConfig
<1>2. CatalogueShapes /\ ListOK /\ SteadyOK /\ BrowseOK /\ UntouchedOK /\ ViewOK
  BY DEF CatalogueInv
<1>3. /\ tab' \in [known : BOOLEAN, hide : BOOLEAN] /\ (tab'.known \/ tab'.hide)
      /\ tab.hide /\ active' \in BOOLEAN /\ edits' \in Nat /\ edits <= edits'
  BY <1>1, <1>2 DEF CatalogueShapes, ConfigIs
<1>4. ListOK' /\ SteadyOK' /\ BrowseOK' /\ UntouchedOK'
  BY <1>1, <1>2, <1>3, TabLearns
<1>5. CatalogueShapes'
  BY <1>1, <1>2, <1>3 DEF CatalogueShapes
<1>6. ViewOK'
  BY <1>1, <1>2, ViewStays
<1>7. QED
  BY <1>4, <1>5, <1>6 DEF CatalogueInv

LEMMA ExclusionStep ==
    ASSUME CatalogueInv, ToggleExclusion
    PROVE  CatalogueInv'
<1>1. /\ edits < MaxEdits /\ edits' = edits + 1
      /\ active' = ~tab.hide /\ tab' = ConfigIs(~tab.hide)
      /\ IF tab.known /\ searches > 0 THEN Load(client.search, ~tab.hide)
         ELSE UNCHANGED <<client, req, steady>>
      /\ UNCHANGED <<table, pref, side, searches, faults, sides>>
  BY DEF ToggleExclusion
<1>2. CatalogueShapes /\ ListOK /\ SteadyOK /\ BrowseOK /\ UntouchedOK /\ ViewOK
  BY DEF CatalogueInv
<1>3. /\ active' \in BOOLEAN /\ searches \in Nat /\ edits \in Nat /\ edits' \in Nat
      /\ sides \in Nat /\ MaxEdits \in Nat /\ edits < edits' /\ client.search \in Searches
      /\ tab' \in [known : BOOLEAN, hide : BOOLEAN] /\ tab'.known /\ tab'.hide = ~tab.hide
      /\ tab.known \in BOOLEAN /\ (tab.known \/ tab.hide)
  BY <1>1, <1>2, Positive DEF CatalogueShapes, Clients, ConfigIs
<1>4. /\ client' \in Clients /\ req' \in {NoReq} \cup Sent \cup Answers
      /\ steady' \subseteq DOMAIN table
      /\ ListOK' /\ SteadyOK' /\ BrowseOK' /\ UntouchedOK'
  <2>1. CASE tab.known /\ searches > 0
    <3>1. Load(client.search, ~tab.hide) /\ searches' \in Nat /\ searches' > 0
      BY <1>1, <1>3, <2>1
    <3>2. edits <= edits'
      BY <1>3
    <3>3. QED
      BY <1>1, <1>2, <1>3, <3>1, <3>2, LoadResets
  <2>2. CASE ~(tab.known /\ searches > 0)
    <3>1. UNCHANGED <<client, req, steady>>
      BY <1>1, <2>2
    <3>2. tab.hide \/ searches = 0
      BY <1>3, <2>2
    <3>3. edits <= edits' /\ edits' # edits
      BY <1>3
    <3>4. ListOK' /\ SteadyOK' /\ BrowseOK' /\ UntouchedOK'
      BY <1>1, <1>2, <1>3, <3>1, <3>2, <3>3, TabLearns
    <3>5. QED
      BY <1>2, <3>1, <3>4 DEF CatalogueShapes
  <2>3. QED
    BY <2>1, <2>2
<1>5. CatalogueShapes'
  <2>1. IF side.kind = "batch" THEN edits' < MaxEdits + sides ELSE edits' <= MaxEdits + sides
    <3>1. side.kind = "batch" => sides > 0
      BY <1>2 DEF CatalogueShapes, NoSide, None
    <3>2. edits' <= MaxEdits + sides /\ (sides > 0 => edits' < MaxEdits + sides)
      BY <1>1, <1>3
    <3>3. QED
      BY <3>1, <3>2
  <2>2. QED
    BY <1>1, <1>2, <1>3, <1>4, <2>1 DEF CatalogueShapes
<1>6. ViewOK'
  <2>1. side \in Views => side.began \in Nat
    BY DEF Views
  <2>2. side.kind = "view" => side.began # edits' /\ side.began <= edits'
    BY <1>2, <1>3, <2>1, SideShapes DEF ViewOK
  <2>3. QED
    BY <1>1, <1>2, <2>2 DEF ViewOK
<1>7. QED
  BY <1>4, <1>5, <1>6 DEF CatalogueInv

LEMMA BackStep ==
    ASSUME CatalogueInv, NEW s \in Searches, BackWhileHidden(s)
    PROVE  CatalogueInv'
<1>1. /\ searches' = searches + 1 /\ client' = [client EXCEPT !.search = s, !.back = TRUE]
      /\ UNCHANGED <<table, pref, active, tab, req, side, steady, edits, faults, sides>>
  BY DEF BackWhileHidden
<1>2. CatalogueShapes /\ ListOK /\ ViewOK
  BY DEF CatalogueInv
<1>3. client \in Clients /\ searches' \in Nat /\ searches' # 0
  BY <1>1, <1>2 DEF CatalogueShapes
<1>4. client' \in Clients
  BY <1>1, <1>3 DEF Clients
<1>5. /\ client'.back = TRUE /\ client'.items = client.items /\ client'.from = client.from
      /\ client'.cursor = client.cursor /\ client'.noMore = client.noMore
      /\ client'.barred = client.barred /\ client'.began = client.began
  BY <1>1, <1>3 DEF Clients
<1>6. ~Live'
  BY <1>5 DEF Live
<1>7. CatalogueShapes'
  BY <1>1, <1>2, <1>3, <1>4 DEF CatalogueShapes
<1>8. ListOK'
  BY <1>1, <1>2, <1>3, <1>5, <1>6 DEF ListOK
<1>9. SteadyOK' /\ BrowseOK' /\ UntouchedOK'
  BY <1>5 DEF SteadyOK, BrowseOK, UntouchedOK
<1>10. ViewOK'
  BY <1>1, <1>2, ViewStays
<1>11. QED
  BY <1>7, <1>8, <1>9, <1>10 DEF CatalogueInv

\* A request that has not read its page says nothing about the rows: what the
\* invariant says of the list is all there is.
LEMMA RequestGoesOut ==
    ASSUME CatalogueInv, UNCHANGED <<table, pref, active, tab, client, side, steady, edits, searches, sides>>,
           faults' \in Nat, searches > 0,
           \/ req' = NoReq
           \/ /\ req' \in Sent /\ req'.state = "sent" /\ ~req'.superseded
              /\ req'.search = client.search /\ req'.hide = tab.hide
              /\ req'.cursor = client.cursor /\ ~client.noMore
              /\ ~req'.more => client.from = {}
    PROVE  CatalogueInv'
<1>1. CatalogueShapes /\ ListOK /\ SteadyOK /\ BrowseOK /\ UntouchedOK /\ ViewOK
  BY DEF CatalogueInv
<1>2. ~Answered'
  BY DEF Answered, Live
<1>3. CatalogueShapes'
  BY <1>1 DEF CatalogueShapes
<1>4. ListOK'
  <2>1. Live' => /\ req'.search = client'.search /\ (tab'.hide => req'.hide)
                 /\ req'.cursor = client'.cursor /\ ~client'.noMore
                 /\ ~req'.more => client'.from = {}
    BY DEF Live
  <2>2. QED
    BY <1>1, <2>1 DEF ListOK
<1>5. Now' = Now /\ \A h : Sees(h)' = Sees(h)
  BY SameTable DEF Now, Sees
<1>6. SteadyOK' /\ BrowseOK' /\ UntouchedOK'
  <2>1. Live' => req'.hide = tab.hide
    BY DEF Live
  <2>2. SteadyOK'
    BY <1>1, <1>2, <1>5, <2>1, SameTable DEF SteadyOK
  <2>3. QED
    BY <1>1, <1>2, <1>5, <2>2, SameTable DEF BrowseOK, UntouchedOK
<1>7. ViewOK'
  BY <1>1, ViewStays
<1>8. QED
  BY <1>1, <1>3, <1>4, <1>6, <1>7 DEF CatalogueInv

LEMMA MoreStep ==
    ASSUME CatalogueInv, LoadMore
    PROVE  CatalogueInv'
<1>1. /\ ~client.noMore /\ searches > 0 /\ req' = Request(client, tab.hide, TRUE)
      /\ UNCHANGED <<table, pref, active, tab, client, side, steady, edits, searches, faults, sides>>
  BY DEF LoadMore
<1>2. client \in Clients /\ tab.hide \in BOOLEAN /\ faults' \in Nat
  BY <1>1 DEF CatalogueInv, CatalogueShapes
<1>3. /\ req' \in Sent /\ req'.state = "sent" /\ ~req'.superseded
      /\ req'.search = client.search /\ req'.hide = tab.hide
      /\ req'.cursor = client.cursor /\ req'.more = TRUE
  BY <1>1, <1>2, SentRequest
<1>4. QED
  BY <1>1, <1>2, <1>3, RequestGoesOut

\* The request that takes the place of one that settles.
LEMMA SettledRequest ==
    ASSUME CatalogueShapes, ListOK, req # NoReq
    PROVE  /\ searches > 0
           /\ ~req.superseded => Settled(client, req) = NoReq
           /\ req.superseded =>
                LET r == Settled(client, req)
                IN  /\ r \in Sent /\ r.state = "sent" /\ ~r.superseded
                    /\ r.search = client.search /\ r.hide = tab.hide
                    /\ r.cursor = NoCursor /\ client.cursor = NoCursor
                    /\ ~client.noMore /\ ~client.barred
                    /\ client.from = {} /\ client.items = <<>>
<1>1. searches \in Nat /\ client \in Clients /\ tab.hide \in BOOLEAN
  BY DEF CatalogueShapes
<1>2. searches > 0
  BY <1>1 DEF ListOK
<1>3. ~req.superseded => Settled(client, req) = NoReq
  BY DEF Settled
<1>4. ASSUME req.superseded
      PROVE  LET r == Settled(client, req)
             IN  /\ r \in Sent /\ r.state = "sent" /\ ~r.superseded
                 /\ r.search = client.search /\ r.hide = tab.hide
                 /\ r.cursor = NoCursor /\ client.cursor = NoCursor
                 /\ ~client.noMore /\ ~client.barred
                 /\ client.from = {} /\ client.items = <<>>
  <2>1. Settled(client, req) = Request(client, tab.hide, FALSE)
    BY <1>4 DEF Settled
  <2>2. /\ client.from = {} /\ client.cursor = NoCursor /\ ~client.noMore
        /\ ~client.barred /\ client.items = <<>>
    BY <1>4 DEF ListOK
  <2> DEFINE r == Request(client, tab.hide, FALSE)
  <2>3. /\ r \in Sent /\ r.state = "sent" /\ ~r.superseded
        /\ r.search = client.search /\ r.hide = tab.hide /\ r.cursor = NoCursor
    BY <1>1, SentRequest
  <2> HIDE DEF r
  <2>4. QED
    BY <2>1, <2>2, <2>3 DEF r
<1>5. QED
  BY <1>2, <1>3, <1>4

LEMMA FailStep ==
    ASSUME CatalogueInv, RequestFails
    PROVE  CatalogueInv'
<1>1. /\ req # NoReq /\ faults' = faults + 1 /\ req' = Settled(client, req)
      /\ UNCHANGED <<table, pref, active, tab, client, side, steady, edits, searches, sides>>
  BY DEF RequestFails
<1>2. CatalogueShapes /\ ListOK
  BY DEF CatalogueInv
<1>3. faults' \in Nat
  BY <1>1, <1>2 DEF CatalogueShapes
<1>4. CASE req.superseded
  BY <1>1, <1>2, <1>3, <1>4, SettledRequest, RequestGoesOut
<1>5. CASE ~req.superseded
  BY <1>1, <1>2, <1>3, <1>5, SettledRequest, RequestGoesOut
<1>6. QED
  BY <1>4, <1>5

LEMMA SearchRecord ==
    ASSUME CatalogueShapes
    PROVE  /\ client.search \in SearchRecords
           /\ req \in Sent \cup Answers => req.search \in SearchRecords
<1>1. \A r \in Sent \cup Answers : r.search \in Searches
  BY DEF Sent, Answers
<1>2. client.search \in Searches /\ Searches \subseteq SearchRecords
  BY CatalogueAssumption DEF CatalogueShapes, Clients
<1>3. QED
  BY <1>1, <1>2

\* What the server answers, and with it the ghost's new start.
LEMMA PageStep ==
    ASSUME CatalogueInv, ReadPage
    PROVE  CatalogueInv'
<1> DEFINE s == req.search
           first == req.cursor = NoCursor
           listed == Listed(s.kw, req.hide)
<1>1. CatalogueShapes /\ ListOK /\ SteadyOK /\ BrowseOK /\ UntouchedOK /\ ViewOK
  BY DEF CatalogueInv
<1>2. req.state = "sent" /\ req \in Sent /\ req # NoReq
  BY <1>1, ReqShapes DEF ReadPage
<1>3. s \in SearchRecords /\ s \in Searches /\ s.kw \in BOOLEAN
  BY <1>1, <1>2, SearchRecord DEF Sent, SearchRecords
<1>4. /\ req.hide \in BOOLEAN /\ req.more \in BOOLEAN /\ req.superseded \in BOOLEAN
      /\ req.cursor \in Cursors
  BY <1>2 DEF Sent
<1>5. Stored
  BY <1>1 DEF CatalogueShapes, Stored
<1>6. PICK start \in Starts :
        LET page == IF Browse(s) /\ first THEN RandomPage(s, req.hide, start)
                    ELSE Page(s, Fetched(s, req.hide, req.cursor))
        IN  /\ req' = [state |-> IF first /\ s.kw THEN "listed" ELSE "answered",
                       search |-> s, hide |-> req.hide, more |-> req.more,
                       superseded |-> req.superseded, cursor |-> req.cursor,
                       page |-> page, bar |-> FALSE, at |-> edits]
            /\ steady' = IF first THEN listed ELSE steady
  BY DEF ReadPage
<1> DEFINE page == IF Browse(s) /\ first THEN RandomPage(s, req.hide, start)
                   ELSE Page(s, Fetched(s, req.hide, req.cursor))
<1>7. UNCHANGED <<table, pref, active, tab, client, side, edits, searches, faults, sides>>
  BY DEF ReadPage
<1>8. listed \in SUBSET DOMAIN table
  BY DEF Listed, Matches
\* The page, as a search with an order reads it and as a browse does.
<1>9. ~(Browse(s) /\ first) =>
        /\ page = [ids |-> page.ids, cursor |-> page.cursor]
        /\ page.ids \in Seq(listed) /\ page.cursor \in Cursors
        /\ \A i \in listed : Holds(page.ids, i,
              /\ first \/ Beyond(s, req.cursor, i)
              /\ page.cursor = NoCursor \/ ~Beyond(s, page.cursor, i))
        /\ ~first /\ page.cursor # NoCursor =>
              Precedes(s, req.cursor.key, req.cursor.id, page.cursor.key, page.cursor.id)
  <2>1. SUFFICES ASSUME ~(Browse(s) /\ first)
        PROVE  /\ page = [ids |-> page.ids, cursor |-> page.cursor]
               /\ page.ids \in Seq(listed) /\ page.cursor \in Cursors
               /\ \A i \in listed : Holds(page.ids, i,
                     /\ first \/ Beyond(s, req.cursor, i)
                     /\ page.cursor = NoCursor \/ ~Beyond(s, page.cursor, i))
               /\ ~first /\ page.cursor # NoCursor =>
                     Precedes(s, req.cursor.key, req.cursor.id, page.cursor.key, page.cursor.id)
    BY Zenon
  <2>2. page = Page(s, Fetched(s, req.hide, req.cursor))
    BY <2>1
  <2> HIDE DEF page
  <2>3. QED
    BY <1>3, <1>4, <1>5, <2>2, PageFollowsCursor
<1>10. Browse(s) /\ first =>
         /\ page = [ids |-> page.ids, cursor |-> page.cursor]
         /\ page.ids \in Seq(DOMAIN table) /\ page.cursor \in Cursors
         /\ Distinct(page.ids) /\ (page.cursor # NoCursor => Len(page.ids) >= PerPage)
  <2>1. SUFFICES ASSUME Browse(s) /\ first
        PROVE  /\ page = [ids |-> page.ids, cursor |-> page.cursor]
               /\ page.ids \in Seq(DOMAIN table) /\ page.cursor \in Cursors
               /\ Distinct(page.ids) /\ (page.cursor # NoCursor => Len(page.ids) >= PerPage)
    BY Zenon
  <2>2. page = RandomPage(s, req.hide, start)
    BY <2>1
  <2> HIDE DEF page
  <2>3. QED
    BY <1>3, <1>4, <1>5, <2>2, RandomPageIsDistinct
<1>11. /\ req'.state = (IF first /\ s.kw THEN "listed" ELSE "answered")
       /\ req'.search = s /\ req'.hide = req.hide /\ req'.more = req.more
       /\ req'.superseded = req.superseded /\ req'.cursor = req.cursor
       /\ req'.page = page /\ req'.at = edits
       /\ steady' = IF first THEN listed ELSE steady
  BY <1>6
<1>12. page \in [ids : Seq(Ids), cursor : Cursors]
  <2>1. page = [ids |-> page.ids, cursor |-> page.cursor] /\ page.cursor \in Cursors
    BY <1>9, <1>10
  <2>2. page.ids \in Seq(DOMAIN table)
    BY <1>8, <1>9, <1>10, SeqMonotonic
  <2>3. page.ids \in Seq(Ids)
    BY <1>5, <2>2, SeqMonotonic DEF Stored
  <2> HIDE DEF page
  <2>4. QED
    BY <2>1, <2>3
<1>13. req' \in Answers
  <2>1. edits \in Nat
    BY <1>1 DEF CatalogueShapes
  <2> HIDE DEF page, s, first
  <2>2. req' = [state |-> IF first /\ s.kw THEN "listed" ELSE "answered",
                search |-> s, hide |-> req.hide, more |-> req.more,
                superseded |-> req.superseded, cursor |-> req.cursor,
                page |-> page, bar |-> FALSE, at |-> edits]
    BY <1>6 DEF page, s, first
  <2>3. QED
    BY <1>3, <1>4, <1>12, <2>1, <2>2 DEF Answers
<1>14. req'.state # "sent" /\ req' # NoReq
  BY <1>11 DEF NoReq, None
<1> HIDE DEF page
<1>15. CatalogueShapes'
  <2>1. steady' \subseteq DOMAIN table
    BY <1>1, <1>8, <1>11 DEF CatalogueShapes
  <2>2. QED
    BY <1>1, <1>7, <1>13, <2>1 DEF CatalogueShapes
<1>16. /\ Live' <=> Live
       /\ Answered' <=> Live
  BY <1>2, <1>7, <1>11, <1>14 DEF Live, Answered
<1>17. Live => /\ s = client.search /\ (tab.hide => req.hide) /\ listed = Sees(req.hide)
               /\ req.cursor = client.cursor /\ (first => client.from = {})
               /\ (~first => client.from # {})
  <2>1. SUFFICES ASSUME Live
        PROVE  /\ s = client.search /\ (tab.hide => req.hide) /\ listed = Sees(req.hide)
               /\ req.cursor = client.cursor /\ (first => client.from = {})
               /\ (~first => client.from # {})
    BY Zenon
  <2>2. /\ s = client.search /\ (tab.hide => req.hide) /\ req.cursor = client.cursor
        /\ ~client.noMore
    BY <1>1, <2>1 DEF ListOK
  <2>3. client.from # {} => ~first
    BY <1>1, <2>2 DEF ListOK
  <2>4. client.from = {} => first
    BY <1>1, <2>2 DEF ListOK
  <2>5. QED
    BY <2>2, <2>3, <2>4 DEF Sees
<1>18. ~Live /\ ~client.back => client.from = {}
  BY <1>1, <1>2 DEF Live, ListOK
<1>19. ListOK'
  <2>1. edits <= edits
    BY <1>1 DEF CatalogueShapes
  <2>2. QED
    BY <1>1, <1>2, <1>7, <1>11, <1>14, <1>16, <2>1 DEF ListOK
<1>20. ~client.back /\ client.from # {} => steady' = steady /\ Live /\ ~first
  BY <1>11, <1>17, <1>18
<1>21. Now' = Now /\ \A h : Sees(h)' = Sees(h)
  BY <1>7, SameTable DEF Now, Sees
<1>22. SteadyOK'
  <2>1. SUFFICES ASSUME ~client.back, ~Browse(client.search)
        PROVE  /\ client.from # {} =>
                    /\ steady' \subseteq Sees(tab.hide) /\ (Live => steady' \subseteq Sees(req.hide))
                    /\ \A i \in steady' : Holds(client.items, i,
                          client.cursor = NoCursor \/ ~Beyond(client.search, client.cursor, i))
               /\ Live =>
                    /\ steady' \subseteq Sees(tab.hide)
                    /\ \A i \in steady' : Holds(page.ids, i,
                          /\ first \/ Beyond(s, req.cursor, i)
                          /\ page.cursor = NoCursor \/ ~Beyond(s, page.cursor, i))
                    /\ ~first /\ page.cursor # NoCursor =>
                          Precedes(s, req.cursor.key, req.cursor.id, page.cursor.key, page.cursor.id)
    BY <1>7, <1>11, <1>16, <1>17, <1>21, SameTable DEF SteadyOK
  <2>2. client.from # {} =>
          /\ steady' \subseteq Sees(tab.hide) /\ (Live => steady' \subseteq Sees(req.hide))
          /\ \A i \in steady' : Holds(client.items, i,
                client.cursor = NoCursor \/ ~Beyond(client.search, client.cursor, i))
    BY <1>1, <1>20, <2>1 DEF SteadyOK
  <2>3. Live => steady' \subseteq listed /\ ~Browse(s)
    BY <1>11, <1>17, <2>1, <2>2
  <2>4. Live => steady' \subseteq Sees(tab.hide)
    <3>1. tab.hide \in BOOLEAN
      BY <1>1 DEF CatalogueShapes
    <3>2. (tab.hide => req.hide) => Sees(req.hide) \subseteq Sees(tab.hide)
      BY <1>4, <3>1, HidingLess DEF Sees
    <3>3. QED
      BY <1>17, <2>3, <3>2
  <2>5. QED
    BY <1>9, <2>2, <2>3, <2>4
<1>23. BrowseOK'
  <2>1. ~client.back /\ Browse(client.search) /\ Live /\ first =>
          Distinct(page.ids) /\ (page.cursor # NoCursor => Len(page.ids) >= PerPage)
    BY <1>10, <1>17
  <2>2. QED
    BY <1>1, <1>7, <1>11, <1>16, <2>1 DEF BrowseOK
<1>24. UntouchedOK'
  <2>1. ~client.back /\ client.from # {} => steady' = steady
    BY <1>20
  <2>2. Live /\ first /\ req.hide = active => steady' = Now
    BY <1>11, <1>17 DEF Now
  <2>3. Live /\ first /\ client.search.kw => req'.state = "listed"
    BY <1>11, <1>17
  <2>4. Live /\ ~Browse(client.search) /\ req.hide = active =>
          \A k \in 1..Len(page.ids) : page.ids[k] \in Now
    BY <1>9, <1>17, ElementOfSeq DEF Now
  <2>5. QED
    BY <1>1, <1>7, <1>11, <1>16, <1>21, <2>1, <2>2, <2>3, <2>4, SameTable DEF UntouchedOK
<1>25. ViewOK'
  BY <1>1, <1>7, ViewStays
<1>26. QED
  BY <1>15, <1>19, <1>22, <1>23, <1>24, <1>25 DEF CatalogueInv

LEMMA BarStep ==
    ASSUME CatalogueInv, ReadBar
    PROVE  CatalogueInv'
<1> DEFINE yes == HasExcluded(req.search.kw, req.hide)
<1>1. CatalogueShapes /\ ListOK /\ SteadyOK /\ BrowseOK /\ UntouchedOK /\ ViewOK
  BY DEF CatalogueInv
<1>2. /\ req.state = "listed" /\ req' = [req EXCEPT !.state = "answered", !.bar = yes]
      /\ UNCHANGED <<table, pref, active, tab, client, side, steady, edits, searches, faults, sides>>
  BY DEF ReadBar
<1>3. req \in Answers /\ req # NoReq
  BY <1>1, <1>2, ReqShapes
<1>4. yes \in BOOLEAN
  <2>1. req.hide \in BOOLEAN
    BY <1>3 DEF Answers
  <2>2. QED
    BY <2>1 DEF HasExcluded
<1> HIDE DEF yes
<1>5. req' \in Answers
  BY <1>2, <1>3, <1>4 DEF Answers
<1>6. /\ req'.state = "answered" /\ req'.bar = yes /\ req'.search = req.search /\ req'.hide = req.hide
      /\ req'.more = req.more /\ req'.superseded = req.superseded /\ req'.cursor = req.cursor
      /\ req'.page = req.page /\ req'.at = req.at
  BY <1>2, <1>3 DEF Answers
<1>7. req' # NoReq /\ req'.state # "sent" /\ req.state # "sent"
  BY <1>2, <1>6 DEF NoReq, None
<1>8. (Live' <=> Live) /\ (Answered' <=> Answered)
  BY <1>2, <1>3, <1>6, <1>7 DEF Live, Answered
<1>9. CatalogueShapes'
  BY <1>1, <1>2, <1>5 DEF CatalogueShapes
<1>10. ListOK'
  BY <1>1, <1>2, <1>3, <1>6, <1>7, <1>8 DEF ListOK
<1>11. Now' = Now /\ \A h : Sees(h)' = Sees(h)
  BY <1>2, SameTable DEF Now, Sees
<1>12. SteadyOK'
  BY <1>1, <1>2, <1>6, <1>8, <1>11, SameTable DEF SteadyOK
<1>13. BrowseOK'
  BY <1>1, <1>2, <1>6, <1>8 DEF BrowseOK
<1>14. UntouchedOK'
  <2>1. Answered => req.search = client.search
    BY <1>1 DEF Answered, ListOK
  <2>2. Answered /\ req.hide = active => yes = HasExcluded(client.search.kw, active)
    BY <2>1 DEF yes
  <2>3. QED
    BY <1>1, <1>2, <1>6, <1>8, <1>11, <2>2, SameTable DEF UntouchedOK
<1>15. ViewOK'
  BY <1>1, <1>2, ViewStays
<1>16. QED
  BY <1>9, <1>10, <1>12, <1>13, <1>14, <1>15 DEF CatalogueInv

\* The answer that is dropped leaves a list that was reset, and its request
\* in the new search's place.
LEMMA DroppedAnswer ==
    ASSUME CatalogueInv, Answer, req.superseded
    PROVE  CatalogueInv'
<1>1. CatalogueShapes /\ ListOK /\ SteadyOK /\ BrowseOK /\ UntouchedOK /\ ViewOK
  BY DEF CatalogueInv
<1>2. /\ req.state = "answered" /\ client' = Barred(client, req) /\ req' = Settled(client, req)
      /\ UNCHANGED <<table, pref, active, tab, side, steady, edits, searches, faults, sides>>
  BY DEF Answer, Kept
<1>3. req \in Answers /\ req # NoReq /\ client \in Clients
  BY <1>1, <1>2, ReqShapes DEF CatalogueShapes
<1>4. req.bar \in BOOLEAN /\ req.superseded = TRUE
  BY <1>3 DEF Answers
<1>5. /\ client' \in Clients /\ client'.search = client.search /\ client'.items = client.items
      /\ client'.from = client.from /\ client'.cursor = client.cursor
      /\ client'.noMore = client.noMore /\ client'.back = client.back
      /\ client'.began = client.began /\ (client'.barred => client.barred)
      /\ client'.hides = client.hides
  BY <1>2, <1>3, <1>4 DEF Barred, Clients
<1>6. /\ searches > 0
      /\ req' \in Sent /\ req'.state = "sent" /\ ~req'.superseded
      /\ req'.search = client.search /\ req'.hide = tab.hide
      /\ req'.cursor = NoCursor /\ client.cursor = NoCursor
      /\ ~client.noMore /\ ~client.barred
      /\ client.from = {} /\ client.items = <<>>
  BY <1>1, <1>2, <1>3, SettledRequest
<1>7. ~Answered'
  BY <1>6 DEF Answered
<1>8. CatalogueShapes'
  BY <1>1, <1>2, <1>5, <1>6 DEF CatalogueShapes
<1>9. ListOK'
  <2>1. Live' => /\ req'.search = client'.search /\ (tab'.hide => req'.hide)
                 /\ req'.cursor = client'.cursor /\ ~client'.noMore /\ client'.from = {}
    BY <1>2, <1>5, <1>6
  <2>2. searches' # 0
    BY <1>2, <1>6
  <2>3. QED
    BY <1>1, <1>2, <1>5, <1>6, <2>1, <2>2 DEF ListOK
<1>10. SteadyOK' /\ UntouchedOK'
  BY <1>5, <1>6, <1>7 DEF SteadyOK, UntouchedOK
<1>11. BrowseOK'
  BY <1>5, <1>6, <1>7 DEF BrowseOK, Distinct
<1>12. ViewOK'
  BY <1>1, <1>2, ViewStays
<1>13. QED
  BY <1>8, <1>9, <1>10, <1>11, <1>12 DEF CatalogueInv

\* The answer that is shown.
LEMMA ShownAnswer ==
    ASSUME CatalogueInv, Answer, ~req.superseded
    PROVE  CatalogueInv'
<1> DEFINE s == client.search
           page == req.page
           items == client'.items
<1>1. CatalogueShapes /\ ListOK /\ SteadyOK /\ BrowseOK /\ UntouchedOK /\ ViewOK
  BY DEF CatalogueInv
<1>2. /\ req.state = "answered" /\ client' = Shown(Barred(client, req), req) /\ req' = NoReq
      /\ UNCHANGED <<table, pref, active, tab, side, steady, edits, searches, faults, sides>>
  BY DEF Answer, Kept, Settled
<1>3. req \in Answers /\ req # NoReq /\ req.state # "sent" /\ client \in Clients
  BY <1>1, <1>2, ReqShapes DEF CatalogueShapes
<1>4. /\ page.ids \in Seq(Ids) /\ page.cursor \in Cursors /\ req.at \in Nat /\ req.bar \in BOOLEAN
      /\ req.search \in Searches /\ req.more \in BOOLEAN /\ req.hide \in BOOLEAN
  BY <1>3 DEF Answers
<1>5. /\ client.items \in Seq(Ids) /\ client.from \in SUBSET Searches /\ client.began \in Nat
      /\ client.bar \in BOOLEAN /\ client.barred \in BOOLEAN /\ client.hides \in SUBSET BOOLEAN
  BY <1>3 DEF Clients
<1>6. client.items \o page.ids \in Seq(Ids)
  BY <1>4, <1>5, ConcatProperties
<1>7. /\ items = IF req.more THEN client.items \o page.ids ELSE page.ids
      /\ client'.from = IF req.more THEN client.from \cup {req.search} ELSE {req.search}
      /\ client'.cursor = page.cursor
      /\ client'.noMore = (page.cursor = NoCursor)
      /\ client'.began = IF req.cursor = NoCursor THEN req.at ELSE client.began
      /\ client'.hides = IF req.more THEN client.hides \cup {req.hide} ELSE {req.hide}
      /\ client'.bar = IF req.more THEN client.bar ELSE req.bar
      /\ client'.barred = IF req.more THEN client.barred ELSE ~req.superseded
      /\ client'.search = client.search /\ client'.back = client.back
  BY <1>2, <1>3 DEF Shown, Barred, Clients
<1>8. client' \in Clients
  <2> DEFINE c == Barred(client, req)
  <2>1. c \in Clients
    BY <1>3, <1>4 DEF Barred, Clients
  <2>2. /\ c.items = client.items /\ c.from = client.from /\ c.began = client.began
        /\ c.hides = client.hides
    BY <1>3 DEF Barred, Clients
  <2> HIDE DEF c
  <2>3. client' = Shown(c, req)
    BY <1>2 DEF c
  <2>4. QED
    BY <1>4, <1>5, <1>6, <2>1, <2>2, <2>3 DEF Shown, Clients
<1> HIDE DEF page, items
<1>9. ~Live' /\ ~Answered'
  BY <1>2 DEF Live, Answered
<1>10. Live <=> ~client.back
  BY <1>3 DEF Live
<1>11. Answered <=> ~client.back
  BY <1>3, <1>10 DEF Answered
<1>12. ~client.back => /\ req.search = s /\ req.cursor = client.cursor
                       /\ ~client.noMore /\ (~req.more => client.from = {})
  BY <1>1, <1>10 DEF ListOK
<1>13. client'.from # {} /\ client'.hides # {}
  BY <1>7
<1>14. CatalogueShapes'
  BY <1>1, <1>2, <1>8 DEF CatalogueShapes
<1>15. ListOK'
  <2>1. searches # 0 /\ req.at <= edits /\ client.began <= edits
    BY <1>1, <1>3 DEF ListOK
  <2>2. ~client'.back => client'.from \subseteq {client'.search}
    <3>1. ~client.back => client.from \subseteq {s}
      BY <1>1 DEF ListOK
    <3>2. QED
      BY <1>7, <1>12, <3>1
  <2>3. client'.began <= edits
    BY <1>7, <2>1
  <2>4. QED
    BY <1>2, <1>7, <1>9, <1>13, <2>1, <2>2, <2>3 DEF ListOK
<1>16. Now' = Now /\ \A h : Sees(h)' = Sees(h)
  BY <1>2, <1>7, SameTable DEF Now, Sees
\* A first page stands alone; a later one follows what was shown.
<1>17. ~client.back /\ req.cursor = NoCursor => client.from = {} /\ items = page.ids
  <2>1. SUFFICES ASSUME ~client.back, req.cursor = NoCursor
        PROVE  client.from = {} /\ items = page.ids
    BY Zenon
  <2>2. client.from = {}
    BY <1>1, <1>12, <2>1 DEF ListOK
  <2>3. client.items = <<>>
    BY <1>1, <2>2 DEF ListOK
  <2>4. <<>> \o page.ids = page.ids
    BY <1>4, ConcatEmptySeq DEF page
  <2>5. QED
    BY <1>7, <2>2, <2>3, <2>4 DEF items, page
<1>18. ~client.back /\ req.cursor # NoCursor =>
         client.from # {} /\ req.more /\ items = client.items \o page.ids
  <2>1. SUFFICES ASSUME ~client.back, req.cursor # NoCursor
        PROVE  client.from # {} /\ req.more /\ items = client.items \o page.ids
    BY Zenon
  <2>2. client.from # {}
    BY <1>1, <1>12, <2>1 DEF ListOK
  <2>3. QED
    BY <1>7, <1>12, <2>1, <2>2 DEF items, page
<1>19. page.ids \in Seq(Ids) /\ page.cursor \in Cursors
  BY <1>4 DEF page
<1>20. Stored /\ s \in SearchRecords /\ client.cursor \in Cursors
  BY <1>1, <1>3, SearchRecord DEF CatalogueShapes, Stored, Clients
<1>21. SteadyOK'
  <2>1. SUFFICES ASSUME ~client.back, ~Browse(s)
        PROVE  /\ steady \subseteq Sees(tab.hide)
               /\ \A i \in steady : Holds(items, i,
                     page.cursor = NoCursor \/ ~Beyond(s, page.cursor, i))
    BY <1>2, <1>7, <1>9, <1>16, SameTable DEF SteadyOK, page, items
  <2>2. /\ steady \subseteq Sees(tab.hide)
        /\ \A i \in steady : Holds(page.ids, i,
              /\ req.cursor = NoCursor \/ Beyond(s, req.cursor, i)
              /\ page.cursor = NoCursor \/ ~Beyond(s, page.cursor, i))
        /\ req.cursor # NoCursor /\ page.cursor # NoCursor =>
              Precedes(s, req.cursor.key, req.cursor.id, page.cursor.key, page.cursor.id)
    BY <1>1, <1>11, <2>1 DEF SteadyOK, page
  <2>3. CASE req.cursor = NoCursor
    BY <1>17, <2>1, <2>2, <2>3 DEF Holds
  <2>4. CASE req.cursor # NoCursor
    <3>1. items = client.items \o page.ids /\ client.from # {} /\ req.cursor = client.cursor
      BY <1>12, <1>18, <2>1, <2>4
    <3>2. \A i \in steady : Holds(client.items, i, ~Beyond(s, client.cursor, i))
      BY <1>1, <2>1, <2>4, <3>1 DEF SteadyOK, Holds
    <3>3. ASSUME NEW i \in steady
          PROVE  Holds(items, i, page.cursor = NoCursor \/ ~Beyond(s, page.cursor, i))
      <4>1. /\ Never(client.items, i) /\ Never(page.ids, i) => Never(items, i)
            /\ Once(client.items, i) /\ Never(page.ids, i) => Once(items, i)
            /\ Never(client.items, i) /\ Once(page.ids, i) => Once(items, i)
        BY <1>5, <1>19, <3>1, HoldsInConcat
      <4>2. i \in DOMAIN table
        BY <1>1 DEF CatalogueShapes
      <4>3. CASE Beyond(s, client.cursor, i)
        <5>1. Never(client.items, i)
          BY <3>2, <4>3 DEF Holds
        <5>2. Holds(page.ids, i, page.cursor = NoCursor \/ ~Beyond(s, page.cursor, i))
          BY <2>2, <3>1, <4>3 DEF Holds
        <5>3. QED
          BY <4>1, <5>1, <5>2 DEF Holds
      <4>4. CASE ~Beyond(s, client.cursor, i)
        <5>1. Once(client.items, i) /\ Never(page.ids, i)
          BY <2>2, <2>4, <3>1, <3>2, <4>4 DEF Holds
        <5>2. page.cursor # NoCursor => ~Beyond(s, page.cursor, i)
          BY <1>19, <1>20, <2>2, <2>4, <3>1, <4>2, <4>4, BeyondOrders
        <5>3. QED
          BY <4>1, <5>1, <5>2 DEF Holds
      <4>5. QED
        BY <4>3, <4>4
    <3>4. QED
      BY <2>2, <3>3
  <2>5. QED
    BY <2>3, <2>4
<1>22. BrowseOK'
  <2>1. SUFFICES ASSUME ~client.back, Browse(s)
        PROVE  /\ Len(items) <= PerPage => Distinct(items)
               /\ page.cursor # NoCursor => Len(items) >= PerPage
    BY <1>2, <1>7, <1>9 DEF BrowseOK, page, items
  <2>2. CASE req.cursor = NoCursor
    BY <1>1, <1>11, <1>17, <2>1, <2>2 DEF BrowseOK, page
  <2>3. CASE req.cursor # NoCursor
    <3>1. items = client.items \o page.ids /\ client.cursor # NoCursor
      BY <1>12, <1>18, <2>1, <2>3
    <3>2. Len(client.items) >= PerPage
      BY <1>1, <2>1, <3>1 DEF BrowseOK
    <3>3. /\ Len(items) >= PerPage
          /\ Len(items) <= PerPage => items = client.items /\ Len(client.items) <= PerPage
      BY <1>5, <1>19, <3>1, <3>2, GrownList, Positive
    <3>4. QED
      BY <1>1, <2>1, <3>3 DEF BrowseOK
  <2>4. QED
    BY <2>2, <2>3
<1>23. UntouchedOK'
  <2>1. SUFFICES ASSUME ~client.back, ~Browse(s), client'.began = edits, client'.hides = {active}
        PROVE  /\ steady = Now
               /\ \A k \in 1..Len(items) : items[k] \in Now
               /\ client'.barred /\ s.kw => (client'.bar <=> HasExcluded(s.kw, active))
    BY <1>2, <1>7, <1>9, <1>16, SameTable DEF UntouchedOK, items
  <2>5. req.hide = active
    <3>1. req.hide \in client'.hides
      BY <1>7
    <3>2. QED
      BY <2>1, <3>1
  <2>2. CASE req.cursor = NoCursor
    <3>1. req.at = edits
      BY <1>7, <2>1, <2>2
    <3>2. steady = Now /\ (s.kw => (req.bar <=> HasExcluded(s.kw, active)))
      BY <1>1, <1>2, <1>11, <2>1, <2>2, <2>5, <3>1 DEF UntouchedOK
    <3>3. \A k \in 1..Len(page.ids) : page.ids[k] \in Now
      BY <1>1, <1>11, <2>1, <2>2, <2>5, <3>1 DEF UntouchedOK, page
    <3>4. ~client.barred
      BY <1>1, <1>17, <2>1, <2>2 DEF ListOK
    <3>5. QED
      BY <1>7, <1>17, <2>1, <2>2, <3>2, <3>3, <3>4
  <2>3. CASE req.cursor # NoCursor
    <3>1. /\ client.from # {} /\ req.more /\ items = client.items \o page.ids
          /\ client.began = edits /\ client.hides = {active}
      <4>1. /\ client.from # {} /\ req.more /\ items = client.items \o page.ids
            /\ client.began = edits
        BY <1>7, <1>18, <2>1, <2>3
      <4>2. client.hides # {} /\ client.hides \subseteq {active}
        BY <1>1, <1>7, <2>1, <4>1 DEF ListOK
      <4>3. QED
        BY <4>1, <4>2
    <3>2. /\ steady = Now
          /\ \A k \in 1..Len(client.items) : client.items[k] \in Now
          /\ client.barred /\ s.kw => (client.bar <=> HasExcluded(s.kw, active))
      BY <1>1, <2>1, <3>1 DEF UntouchedOK
    <3>3. \A k \in 1..Len(page.ids) : page.ids[k] \in Now
      BY <1>1, <1>11, <2>1, <2>3, <2>5, <3>1 DEF UntouchedOK, page
    <3>4. \A k \in 1..Len(items) : items[k] \in Now
      <4>1. items = client.items \o page.ids /\ client.items \in Seq(Ids) /\ page.ids \in Seq(Ids)
        BY <1>5, <1>19, <3>1
      <4>2. \A k \in 1..Len(client.items) : client.items[k] \in Now
        BY <3>2
      <4>3. QED
        BY <3>3, <4>1, <4>2, GrownList
    <3>5. client'.bar = client.bar /\ client'.barred = client.barred
      BY <1>7, <3>1
    <3>6. QED
      BY <3>2, <3>4, <3>5
  <2>4. QED
    BY <2>2, <2>3
<1>24. ViewOK'
  BY <1>1, <1>2, ViewStays
<1>25. QED
  BY <1>14, <1>15, <1>21, <1>22, <1>23, <1>24 DEF CatalogueInv

----------------------------------------------------------------------------
(* The theorems *)

LEMMA CatalogueStarts ==
    ASSUME CatalogueInit
    PROVE  CatalogueInv
<1>1. /\ table \in Libraries /\ pref = TRUE /\ active \in BOOLEAN
      /\ tab \in {ConfigIs(active), Unfetched}
      /\ client = Empty(CHOOSE s \in Searches : TRUE)
      /\ req = NoReq /\ side = NoSide /\ steady = {}
      /\ edits = 0 /\ searches = 0 /\ faults = 0 /\ sides = 0
  BY DEF CatalogueInit
<1>2. (CHOOSE s \in Searches : TRUE) \in Searches
  BY CatalogueAssumption
<1>3. client \in Clients
  BY <1>1, <1>2, FreshList
<1>4. /\ client.items = <<>> /\ client.from = {} /\ client.cursor = NoCursor
      /\ ~client.noMore /\ ~client.barred /\ ~client.back /\ client.began = 0
  BY <1>1 DEF Empty
<1>5. ~Live /\ ~Answered
  BY <1>1 DEF Live, Answered
<1>6. CatalogueShapes
  <2>1. DOMAIN table \subseteq Ids /\ \A i \in DOMAIN table : table[i] \in Rows
    BY <1>1, CatalogueAssumption
  <2>2. side.kind # "batch"
    BY <1>1 DEF NoSide, None
  <2>3. edits <= MaxEdits + sides /\ sides <= MaxSides
    BY <1>1, Positive
  <2>4. tab \in [known : BOOLEAN, hide : BOOLEAN] /\ (tab.known \/ tab.hide)
    <3>1. CASE tab = ConfigIs(active)
      BY <1>1, <3>1 DEF ConfigIs
    <3>2. CASE tab = Unfetched
      BY <3>2 DEF Unfetched
    <3>3. QED
      BY <1>1, <3>1, <3>2
  <2>5. QED
    BY <1>1, <1>3, <2>1, <2>2, <2>3, <2>4 DEF CatalogueShapes
<1>7. ListOK
  BY <1>1, <1>4, <1>5 DEF ListOK
<1>8. SteadyOK /\ UntouchedOK
  BY <1>4, <1>5 DEF SteadyOK, UntouchedOK
<1>9. BrowseOK
  BY <1>4, <1>5 DEF BrowseOK, Distinct
<1>10. ViewOK
  BY <1>1 DEF ViewOK, NoSide, None
<1>11. QED
  BY <1>6, <1>7, <1>8, <1>9, <1>10 DEF CatalogueInv

LEMMA CatalogueSteps ==
    ASSUME CatalogueInv, [CatalogueNext]_catalogueVars
    PROVE  CatalogueInv'
<1>1. CASE UNCHANGED catalogueVars
  <2>1. UNCHANGED <<table, pref, active, tab, client, req, side, steady, edits, searches, faults, sides>>
    BY <1>1 DEF catalogueVars
  <2>2. CatalogueShapes'
    BY <2>1 DEF CatalogueInv, CatalogueShapes
  <2>3. ListOK' /\ SteadyOK' /\ BrowseOK' /\ UntouchedOK' /\ ViewOK'
    BY <2>1, BrowserStays, ViewStays DEF CatalogueInv
  <2>4. QED
    BY <2>2, <2>3 DEF CatalogueInv
<1>2. CASE Browser
  <2>1. CASE \E s \in Searches : Search(s) \/ BackWhileHidden(s)
    BY <2>1, SearchStep, BackStep
  <2>2. CASE LoadMore
    BY <2>2, MoreStep
  <2>3. CASE ReadPage
    BY <2>3, PageStep
  <2>4. CASE ReadBar
    BY <2>4, BarStep
  <2>5. CASE Answer
    BY <2>5, DroppedAnswer, ShownAnswer
  <2>6. CASE RequestFails
    BY <2>6, FailStep
  <2>7. CASE FetchConfig
    BY <2>7, FetchStep
  <2>8. CASE ToggleExclusion
    BY <2>8, ExclusionStep
  <2>9. QED
    BY <1>2, <2>1, <2>2, <2>3, <2>4, <2>5, <2>6, <2>7, <2>8 DEF Browser
<1>3. CASE Side
  <2>1. CASE \E S \in Selections, capped \in BOOLEAN : BatchSelected(S, capped)
    BY <2>1, SelectedStep
  <2>2. CASE \E kw, capped \in BOOLEAN, excluded \in Selections \cup {{}} :
               BatchMatched(kw, excluded, capped)
    BY <2>2, MatchedStep
  <2>3. CASE BatchCount
    BY <2>3, CountStep
  <2>4. CASE BatchList
    BY <2>4, ListStep
  <2>5. CASE BatchAct
    BY <2>5, ActStep
  <2>6. CASE BlockedView(client.search)
    BY <2>6, ViewStep
  <2>7. CASE ReadBlockedIds
    BY <2>7, BlockedIdsStep
  <2>8. CASE FilterChunk
    BY <2>8, FilterStep
  <2>9. CASE SortView
    BY <2>9, SortStep
  <2>10. CASE LeaveView
    BY <2>10, LeaveStep
  <2>11. QED
    BY <1>3, <2>1, <2>2, <2>3, <2>4, <2>5, <2>6, <2>7, <2>8, <2>9, <2>10 DEF Side
<1>4. CASE Others
  <2>1. CASE \E i \in Ids : WriteRow(i) \/ RemoveRow(i)
    BY <2>1, WriteStep, RemoveStep
  <2>2. CASE TogglePreference
    BY <2>2, PreferenceStep
  <2>3. CASE OtherTabToggles
    BY <2>3, OtherTabStep
  <2>4. QED
    BY <1>4, <2>1, <2>2, <2>3 DEF Others
<1>5. QED
  BY <1>1, <1>2, <1>3, <1>4 DEF CatalogueNext

\* What is known of the list, its request and the visit to the excluded
\* novels survives every step of the browser, the server and other requests.
THEOREM CatalogueInvariance == CatalogueSpec => []CatalogueInv
<1>1. CatalogueInit => CatalogueInv
  BY CatalogueStarts
<1>2. CatalogueInv /\ [CatalogueNext]_catalogueVars => CatalogueInv'
  BY CatalogueSteps
<1>3. QED
  BY <1>1, <1>2, PTL DEF CatalogueSpec

\* The table, the list, the requests and the counters keep their shape.
THEOREM CatalogueTypes == CatalogueSpec => []CatalogueTypeOK
<1>1. ASSUME CatalogueInv PROVE CatalogueTypeOK
  <2>1. CatalogueShapes
    BY <1>1 DEF CatalogueInv
  <2>2. client.search \in Searches /\ client.from \subseteq Searches /\ client.items \in Seq(Ids)
    BY <2>1 DEF CatalogueShapes, Clients
  <2>3. req.state \in {None, "sent", "listed", "answered"}
    BY <2>1, ReqShapes DEF NoReq
  <2>4. side.kind \in {None, "batch", "view"}
    BY <2>1, SideShapes DEF NoSide
  <2>5. edits \in 0..MaxEdits + MaxSides
    <3>1. /\ edits \in Nat /\ sides \in Nat /\ sides <= MaxSides
          /\ MaxEdits \in Nat /\ MaxSides \in Nat
      BY <2>1, Positive DEF CatalogueShapes
    <3>2. edits < MaxEdits + sides \/ edits <= MaxEdits + sides
      BY <2>1 DEF CatalogueShapes
    <3>3. QED
      BY <3>1, <3>2
  <2>6. QED
    BY <2>1, <2>2, <2>3, <2>4, <2>5 DEF CatalogueTypeOK, CatalogueShapes
<1>2. QED
  BY <1>1, CatalogueInvariance, PTL

\* The list in the browser never mixes the rows of two searches, in whatever
\* order answers, failures and new searches follow each other.
THEOREM SearchesStayApart == CatalogueSpec => []ListIsOneSearch
<1>1. CatalogueInv => ListIsOneSearch
  BY DEF CatalogueInv, ListOK, ListIsOneSearch
<1>2. QED
  BY <1>1, CatalogueInvariance, PTL

LEMMA TimesShown ==
    ASSUME CatalogueShapes, NEW i
    PROVE  /\ Once(client.items, i) => Times(i) = 1
           /\ Never(client.items, i) => Times(i) = 0
<1> DEFINE places == {k \in 1..Len(client.items) : client.items[k] = i}
<1>1. Once(client.items, i) => \E k : places = {k}
  BY DEF Once
<1>2. Never(client.items, i) => places = {}
  BY DEF Never
<1>3. \A k : Cardinality({k}) = 1
  BY FS_Singleton
<1>4. Cardinality({}) = 0
  BY FS_EmptySet
<1>5. Times(i) = Cardinality(places)
  BY DEF Times
<1> HIDE DEF places
<1>6. QED
  BY <1>1, <1>2, <1>3, <1>4, <1>5

\* Paging by cursor shows a row that stays as it is at most once, and a list
\* that ended has shown it, for any table, any page size and any writes to
\* other rows between the pages; the first page of a browse repeats none.
THEOREM PagingIsExact == CatalogueSpec => []EachRowOnce
<1>1. ASSUME CatalogueInv PROVE EachRowOnce
  <2>1. SUFFICES ASSUME ~client.back, Cardinality(client.from) = 1
        PROVE  /\ ~Browse(client.search) => \A i \in steady : Times(i) <= 1
               /\ (client.noMore /\ ~Browse(client.search) /\ req = NoReq) =>
                     \A i \in steady : Times(i) = 1
               /\ (Browse(client.search) /\ Len(client.items) <= PerPage) =>
                     IsInjective(client.items)
    BY Zenon DEF EachRowOnce
  <2>2. CatalogueShapes /\ ListOK /\ SteadyOK /\ BrowseOK
    BY <1>1 DEF CatalogueInv
  <2>3. client.from # {}
    BY <2>1, FS_EmptySet
  <2>4. ~Browse(client.search) =>
          \A i \in steady : Holds(client.items, i,
             client.cursor = NoCursor \/ ~Beyond(client.search, client.cursor, i))
    BY <2>1, <2>2, <2>3 DEF SteadyOK
  <2>5. client.noMore => client.cursor = NoCursor
    BY <2>2, <2>3 DEF ListOK
  <2>6. ~Browse(client.search) => \A i \in steady : Times(i) \in {0, 1}
    BY <2>2, <2>4, TimesShown DEF Holds
  <2>7. ~Browse(client.search) /\ client.noMore => \A i \in steady : Times(i) = 1
    BY <2>2, <2>4, <2>5, TimesShown DEF Holds
  <2>8. Browse(client.search) /\ Len(client.items) <= PerPage => IsInjective(client.items)
    <3>1. DOMAIN client.items = 1..Len(client.items)
      BY <2>2, LenProperties DEF CatalogueShapes, Clients
    <3>2. QED
      BY <2>1, <2>2, <3>1 DEF BrowseOK, Distinct, IsInjective
  <2>9. QED
    BY <2>6, <2>7, <2>8
<1>2. QED
  BY <1>1, CatalogueInvariance, PTL

\* With no write since either began, a list asked for with the setting in
\* force and the view of the excluded novels split the search's rows between
\* them, and the bar tells whether the view has any.
THEOREM ViewsPartitionTheSearch == CatalogueSpec => []ListAndViewPartition
<1>1. ASSUME CatalogueInv PROVE ListAndViewPartition
  <2> DEFINE kw == client.search.kw
             left == Excluded \cap Matches(kw)
  <2>1. SUFFICES ASSUME side.kind = "view", side.state = "done", side.began = edits,
                        side.search = client.search, ~client.back, ~Browse(client.search),
                        req = NoReq, client.noMore, client.began = edits, client.hides = {active}
        PROVE  /\ Range(client.items) \cap Range(side.ids) = {}
               /\ Range(client.items) \cup Range(side.ids) = Matches(kw)
               /\ kw /\ client.barred => (client.bar <=> side.ids # <<>>)
    BY Zenon DEF ListAndViewPartition, ViewBesideList, Partition
  <2>2. CatalogueShapes /\ ListOK /\ SteadyOK /\ UntouchedOK /\ ViewOK
    BY <1>1 DEF CatalogueInv
  <2>3. client.from # {} /\ client.cursor = NoCursor
    BY <2>1, <2>2 DEF ListOK
  <2>4. Range(side.ids) = left
    BY <2>1, <2>2 DEF ViewOK
  <2>5. client.items \in Seq(Ids) /\ side.ids \in Seq(Ids) /\ active \in BOOLEAN
    BY <2>1, <2>2, SideShapes DEF CatalogueShapes, Clients, Views
  <2>6. /\ steady = Now
        /\ \A k \in 1..Len(client.items) : client.items[k] \in Now
        /\ client.barred /\ kw => (client.bar <=> HasExcluded(kw, active))
    BY <2>1, <2>2, <2>3 DEF UntouchedOK
  <2>7. \A i \in Now : \E k \in 1..Len(client.items) : client.items[k] = i
    BY <2>1, <2>2, <2>3, <2>6 DEF SteadyOK, Holds, Once
  <2>8. Range(client.items) = Now
    <3>1. DOMAIN client.items = 1..Len(client.items)
      BY <2>5, LenProperties
    <3>2. QED
      BY <2>6, <2>7, <3>1 DEF Range
  <2>9. Now = {i \in Matches(kw) : ~(active /\ Blocked(i))}
    BY DEF Now, Sees, Listed
  <2>10. left = {i \in Matches(kw) : active /\ Blocked(i)}
    BY DEF Excluded, Matches
  <2>11. HasExcluded(kw, active) <=> left # {}
    BY <2>10 DEF HasExcluded
  <2>12. left = {} <=> side.ids = <<>>
    <3>1. DOMAIN side.ids = 1..Len(side.ids) /\ Len(side.ids) \in Nat
      BY <2>5, LenProperties
    <3>2. side.ids = <<>> => Range(side.ids) = {}
      BY DEF Range
    <3>3. side.ids # <<>> => Len(side.ids) \in Nat \ {0}
      BY <2>5, EmptySeq
    <3>4. side.ids # <<>> => side.ids[1] \in Range(side.ids)
      BY <3>1, <3>3 DEF Range
    <3>5. QED
      BY <2>4, <3>2, <3>4
  <2> HIDE DEF left, kw
  <2>13. QED
    BY <2>4, <2>6, <2>8, <2>9, <2>10, <2>11, <2>12
<1>2. QED
  BY <1>1, CatalogueInvariance, PTL
=============================================================================
