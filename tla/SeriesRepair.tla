---------------------------- MODULE SeriesRepair ----------------------------
(***************************************************************************)
(* The task fix_series_index (tasks/maintenance/series.py): chapter        *)
(* numbers and lost series ids, repaired in bounded pages, each branch     *)
(* with a resume cursor of its own in the setting table.                   *)
(*                                                                         *)
(* Branch "series" asks the roster of every series that has a novel        *)
(* without a number, "orphan" looks up every novel that has a number and   *)
(* no series, and "sweep" (optional) the series that have some number.     *)
(* Requests may fail, the task may be killed by its timeout at any step,   *)
(* and fetch rounds and users write the same rows between its steps.       *)
(*                                                                         *)
(* A roster is the order of a series' novels at Pixiv; the authority for a *)
(* number is the position in it.  A row may lack its author, and no write  *)
(* can be made of a row that has none.  Columns other than the link to the *)
(* series, the number and whether there is an author are left out.         *)
(***************************************************************************)
EXTENDS Integers, Sequences, FiniteSets

CONSTANTS
    Novels,      \* ids of novels, positive integers
    Series,      \* ids of series, positive integers
    None,        \* NULL
    Home(_),     \* novel -> its series at Pixiv, or None
    Roster(_),   \* series -> the sequence of its novels at Pixiv
    Unsigned,    \* novels whose rows have no author_id at first
    Dead,        \* novels and series, as <<branch, id>>, that never answer
    Caps,        \* values of max_series, max_orphans, max_sweep (one for all)
    MaxEdits,    \* bound on the writes of others
    MaxKills     \* bound on the timeouts and crashes

\* Ids are positive, a novel is of one series or of none; a roster may name
\* novels that the library does not have.
LibraryOK ==
    /\ Novels \subseteq Nat \ {0} /\ IsFiniteSet(Novels)
    /\ Series \subseteq Nat \ {0} /\ IsFiniteSet(Series)
    /\ \A n \in Novels : Home(n) \in Series \cup {None}
    /\ \A s \in Series : Roster(s) \in Seq(Nat) /\ Len(Roster(s)) <= Cardinality(Novels)
    /\ Unsigned \subseteq Novels
    /\ Caps \subseteq Nat \ {0} /\ MaxEdits \in Nat /\ MaxKills \in Nat

ASSUME RepairAssumption == LibraryOK

BranchOrder == <<"series", "orphan", "sweep">>
BranchNames == {"series", "orphan", "sweep"}

VARIABLES
    rows,     \* novels in the library
    link,     \* series_id of each row
    index,    \* series_index of each row
    authored, \* rows with an author_id
    cursor,   \* branch -> setting row, 0 when there is none
    task,     \* the running task
    edits,    \* writes of others so far
    kills     \* kills so far

repairVars == <<rows, link, index, authored, cursor, task, edits, kills>>

Chapters == 1..(Cardinality(Novels) + 1)

\* pc of a round: which branch, what is left of each page, whether a page was
\* cut off, and what the current item has read.  due and looked are history:
\* the candidates of the plan, and those whose turn has come.  Of an orphan it
\* has read whether there is an author for it and a place in the navigation.
Task == [pc : {"off", "item", "stored", "write", "columns", "webview", "clear",
               "single", "advance", "wrap"},
         branch : 1..3, sweepAll : BOOLEAN,
         page : [BranchNames -> Seq(Novels \cup Series)],
         cut : [BranchNames -> BOOLEAN],
         roster : [Series -> {"unasked", "none", "known"}],
         old : [Novels -> Chapters \cup {None}], stored : SUBSET Novels,
         item : Nat, signed : BOOLEAN, nav : BOOLEAN,
         due : [BranchNames -> SUBSET (Novels \cup Series)],
         looked : [BranchNames -> SUBSET (Novels \cup Series)]]

Off == [pc |-> "off", branch |-> 1, sweepAll |-> FALSE,
        page |-> [b \in BranchNames |-> <<>>],
        cut |-> [b \in BranchNames |-> FALSE],
        roster |-> [s \in Series |-> "unasked"],
        old |-> [n \in Novels |-> None], stored |-> {}, item |-> 0,
        signed |-> FALSE, nav |-> FALSE,
        due |-> [b \in BranchNames |-> {}],
        looked |-> [b \in BranchNames |-> {}]]

Branch == BranchOrder[task.branch]

-----------------------------------------------------------------------------
(* Candidates and pages.                                                   *)

InSeries(s) == {n \in rows : link[n] = s}

\* series_with_empty_index, novels_with_orphan_index, series_with_stored_index
Candidates(b) ==
    CASE b = "series" -> {s \in Series : \E n \in InSeries(s) : index[n] = None}
      [] b = "orphan" -> {n \in rows : link[n] = None /\ index[n] # None}
      [] b = "sweep"  -> {s \in Series : \E n \in InSeries(s) : index[n] # None}

\* Slip: the page is fetched without the one row that tells it is cut off.
PageOfExact(ids, cap) ==
    [page |-> SubSeq(ids, 1, IF Len(ids) < cap THEN Len(ids) ELSE cap), cut |-> FALSE]

\* _page: the first cap ids, and whether there were more.
PageOf(ids, cap) ==
    [page |-> SubSeq(ids, 1, IF Len(ids) < cap THEN Len(ids) ELSE cap),
     cut |-> Len(ids) > cap]

\* The k-th is the one with k members up to it.
Ascending(S) ==
    [k \in 1..Cardinality(S) |-> CHOOSE x \in S : Cardinality({y \in S : y <= x}) = k]

\* The cursors are read, then the candidates past them, in one transaction.
Start(cap, sweepAll) ==
    LET wanted(b) == b # "sweep" \/ sweepAll
        due(b) == IF wanted(b) THEN {c \in Candidates(b) : c > cursor[b]} ELSE {}
        plan == [b \in BranchNames |-> PageOf(Ascending(due(b)), cap)]
        \* Nothing at all to do: every cursor goes back to 0.
        idle == \A b \in BranchNames : plan[b].page = <<>>
    IN
    /\ task.pc = "off"
    /\ task' = [Off EXCEPT !.pc = "item",
                           !.sweepAll = sweepAll \/ idle,
                           !.page = [b \in BranchNames |-> plan[b].page],
                           !.cut = [b \in BranchNames |-> plan[b].cut],
                           !.due = [b \in BranchNames |-> due(b)]]
    /\ UNCHANGED <<rows, link, index, authored, cursor, edits, kills>>

\* The branch's next item; at the end of the page the cursor is wrapped, and
\* after the last branch the task is over.
NextItem ==
    /\ task.pc = "item"
    /\ task' =
         IF task.page[Branch] # <<>>
           THEN [task EXCEPT !.item = Head(task.page[Branch]),
                             !.page[Branch] = Tail(@),
                             !.looked[Branch] = @ \cup {Head(task.page[Branch])},
                             !.pc = IF Branch = "orphan" THEN "columns" ELSE "stored"]
           ELSE [task EXCEPT !.pc = "wrap"]
    /\ UNCHANGED <<rows, link, index, authored, cursor, edits, kills>>

\* Slip: an item that could not be looked up holds the cursor back.
CursorAfterHeld(b) == IF <<b, task.item>> \in Dead THEN cursor[b] ELSE task.item

\* An item that could not be looked up is passed as well.
CursorAfter(b) == task.item

\* After the rows are committed, in a transaction of its own.
Advance ==
    /\ task.pc = "advance"
    /\ cursor' = [cursor EXCEPT ![Branch] = CursorAfter(Branch)]
    /\ task' = [task EXCEPT !.pc = "item", !.item = 0, !.stored = {},
                            !.old = Off.old, !.signed = FALSE, !.nav = FALSE]
    /\ UNCHANGED <<rows, link, index, authored, edits, kills>>

\* The candidates are all through: back to 0, for the next round to start over.
Wrap ==
    /\ task.pc = "wrap"
    /\ cursor' = IF task.cut[Branch] \/ (Branch = "sweep" /\ ~task.sweepAll)
                   THEN cursor ELSE [cursor EXCEPT ![Branch] = 0]
    /\ task' = IF task.branch = 3 THEN Off
               ELSE [task EXCEPT !.pc = "item", !.branch = @ + 1]
    /\ UNCHANGED <<rows, link, index, authored, edits, kills>>

-----------------------------------------------------------------------------
(* The roster of a series, cached for the round, and what it corrects.     *)

\* The series whose roster the current item needs.
Wanted == IF Branch = "orphan" THEN Home(task.item) ELSE task.item

\* novel_series: cached with its failure; a roster without novels is none.
Rosters(s, ok) ==
    [task.roster EXCEPT ![s] =
        IF @ # "unasked" THEN @
        ELSE IF ok /\ <<"series", s>> \notin Dead /\ Roster(s) # <<>> THEN "known"
        ELSE "none"]

Position(s, n) == CHOOSE i \in 1..Len(Roster(s)) : Roster(s)[i] = n
Listed(s) == {Roster(s)[i] : i \in 1..Len(Roster(s))}

\* The request, then the read of the rows stored under the series: those on
\* the roster that have an author.
ReadStored(ok) ==
    LET known == Rosters(Wanted, ok) IN
    /\ task.pc = "stored"
    /\ task' = IF known[Wanted] = "none"
                 THEN [task EXCEPT !.roster = known, !.pc = "advance"]
               ELSE IF Branch = "orphan" /\ task.item \notin Listed(Wanted)
                 THEN [task EXCEPT !.roster = known, !.pc = "single"]
               ELSE [task EXCEPT !.roster = known, !.pc = "write",
                                 !.stored = InSeries(Wanted) \cap Listed(Wanted) \cap authored,
                                 !.old = index]
    /\ UNCHANGED <<rows, link, index, authored, cursor, edits, kills>>

\* Slip: wrong numbers go the way of missing ones, which only fills NULLs.
WrittenUnforced(s, n) == IF index[n] = None THEN Position(s, n) ELSE index[n]

\* A missing number is filled where it is still missing, a wrong one is forced.
Written(s, n) ==
    IF index[n] = None \/ task.old[n] \notin {None, Position(s, n)}
      THEN Position(s, n)
    ELSE index[n]

\* The orphan goes in with an author, its row's or its page's.
Glue == IF Branch = "orphan" /\ task.signed THEN {task.item} ELSE {}

\* _apply_roster's write: the stored rows, and the orphan hung back with its
\* link and number forced.  A row deleted meanwhile is inserted again.
WriteRoster ==
    LET s == Wanted
        due == {n \in task.stored : task.old[n] # Position(s, n)}
    IN
    /\ task.pc = "write"
    /\ rows' = rows \cup due \cup Glue
    /\ authored' = authored \cup due \cup Glue
    /\ link' = [n \in Novels |-> IF n \in Glue \/ (n \in due /\ (n \notin rows
                                                       \/ link[n] = None))
                                   THEN s ELSE link[n]]
    /\ index' = [n \in Novels |->
                   IF n \in Glue \/ n \in due \ rows THEN Position(s, n)
                   ELSE IF n \in due THEN Written(s, n)
                   ELSE index[n]]
    /\ task' = [task EXCEPT !.pc = "advance"]
    /\ UNCHANGED <<cursor, edits, kills>>

-----------------------------------------------------------------------------
(* An orphan: its columns, its page at Pixiv, and what follows from it.    *)

\* _stored_columns; a row that has gone is passed.
ReadColumns ==
    /\ task.pc = "columns"
    /\ task' = [task EXCEPT !.pc = IF task.item \in rows THEN "webview" ELSE "advance",
                            !.old = index,
                            !.signed = task.item \in authored]
    /\ UNCHANGED <<rows, link, index, authored, cursor, edits, kills>>

\* webview_novel, and the choice of _glue_orphan: alone in its series with a
\* position from the navigation, the roster is not asked.  The page names the
\* author the row may lack.
Webview(ok, nav, named) ==
    LET s == Home(task.item) IN
    /\ task.pc = "webview"
    /\ task' = [task EXCEPT !.nav = nav, !.signed = @ \/ named, !.pc =
                  IF ~ok \/ <<"orphan", task.item>> \in Dead THEN "advance"
                  ELSE IF s = None THEN "clear"
                  ELSE IF nav /\ InSeries(s) = {} THEN "single"
                  ELSE "stored"]
    /\ UNCHANGED <<rows, link, index, authored, cursor, edits, kills>>

\* Without an author nothing is written, and the orphan stays a candidate.
PassUnsigned ==
    /\ task.pc \in {"clear", "single"}
    /\ ~task.signed
    /\ task' = [task EXCEPT !.pc = "advance"]
    /\ UNCHANGED <<rows, link, index, authored, cursor, edits, kills>>

\* _clear_orphan_index: the work is in no series any more.
ClearOrphan ==
    /\ task.pc = "clear"
    /\ task.signed
    /\ rows' = rows \cup {task.item}
    /\ authored' = authored \cup {task.item}
    /\ index' = [index EXCEPT ![task.item] = None]
    /\ link' = [link EXCEPT ![task.item] = IF task.item \in rows THEN @ ELSE None]
    /\ task' = [task EXCEPT !.pc = "advance"]
    /\ UNCHANGED <<cursor, edits, kills>>

\* _write_glue_single: link forced, the number only when the navigation gives
\* one.
GlueSingle ==
    LET n == task.item
        s == Home(n)
        i == IF n \in Listed(s) THEN Position(s, n) ELSE Len(Roster(s)) + 1
    IN
    /\ task.pc = "single"
    /\ task.signed
    /\ rows' = rows \cup {n}
    /\ authored' = authored \cup {n}
    /\ link' = [link EXCEPT ![n] = s]
    /\ index' = [index EXCEPT ![n] = IF task.nav THEN i
                                     ELSE IF @ = None THEN task.old[n] ELSE @]
    /\ task' = [task EXCEPT !.pc = "advance"]
    /\ UNCHANGED <<cursor, edits, kills>>

-----------------------------------------------------------------------------
(* Kills, and the others who write the rows.                               *)

\* The task's timeout, a stop, or the end of the process.
Kill ==
    /\ kills < MaxKills
    /\ task.pc # "off"
    /\ kills' = kills + 1
    /\ task' = Off
    /\ UNCHANGED <<rows, link, index, authored, cursor, edits>>

Edit == edits < MaxEdits /\ edits' = edits + 1

\* A fetch round inserts the novel, or fills what is NULL.
FetchFills(n, i) ==
    /\ Edit
    /\ rows' = rows \cup {n}
    /\ authored' = authored \cup {n}
    /\ link' = [link EXCEPT ![n] = IF n \notin rows \/ @ = None THEN Home(n) ELSE @]
    /\ index' = [index EXCEPT ![n] = IF Home(n) = None THEN @
                                     ELSE IF n \notin rows \/ @ = None THEN i ELSE @]
    /\ UNCHANGED <<cursor, task, kills>>

\* PATCH of series_index.
SetIndex(n, i) ==
    /\ Edit
    /\ n \in rows
    /\ index' = [index EXCEPT ![n] = i]
    /\ UNCHANGED <<rows, link, authored, cursor, task, kills>>

DeleteNovel(n) ==
    /\ Edit
    /\ n \in rows
    /\ rows' = rows \ {n}
    /\ authored' = authored \ {n}
    /\ link' = [link EXCEPT ![n] = None]
    /\ index' = [index EXCEPT ![n] = None]
    /\ UNCHANGED <<cursor, task, kills>>

-----------------------------------------------------------------------------
\* Each novel is linked to its series or to none; 2 is a right number for the
\* second novel of a roster and a wrong one for the others.
RepairInit ==
    /\ rows = Novels
    /\ link \in {f \in [Novels -> Series \cup {None}] :
                   \A n \in Novels : f[n] \in {Home(n), None}}
    /\ index \in [Novels -> {None, 2}]
    /\ authored = Novels \ Unsigned
    /\ cursor = [b \in BranchNames |-> 0]
    /\ task = Off
    /\ edits = 0
    /\ kills = 0

\* What the task does by itself.
Proceed ==
    \/ NextItem \/ Advance \/ Wrap \/ WriteRoster \/ ReadColumns
    \/ PassUnsigned \/ ClearOrphan \/ GlueSingle
    \/ \E ok \in BOOLEAN : ReadStored(ok)
    \/ \E ok, nav, named \in BOOLEAN : Webview(ok, nav, named)

Run == \E cap \in Caps, all \in BOOLEAN : Start(cap, all)

RepairNext ==
    \/ Run
    \/ Proceed
    \/ Kill
    \/ \E n \in Novels : \/ DeleteNovel(n)
                         \/ \E i \in {None, 1} : FetchFills(n, i) \/ SetIndex(n, i)

RepairSpec == RepairInit /\ [][RepairNext]_repairVars

\* The schedule starts the task again and again, and a started task goes on.
RepairFairSpec == RepairSpec /\ WF_repairVars(Run) /\ WF_repairVars(Proceed)

-----------------------------------------------------------------------------
RepairTypeOK ==
    /\ rows \subseteq Novels
    /\ link \in [Novels -> Series \cup {None}]
    /\ index \in [Novels -> Chapters \cup {None}]
    /\ authored \subseteq rows
    /\ cursor \in [BranchNames -> Nat]
    /\ task \in Task
    /\ edits \in 0..MaxEdits /\ kills \in 0..MaxKills

\* _write_cursor: "a crash must only re-run a batch, never skip one" -- a
\* cursor passes no candidate whose turn has not come, and goes back to 0 only
\* when no candidate past it is left out.
NothingSkipped ==
    [][\A b \in BranchNames : \A c \in task.due[b] :
         /\ cursor[b] < c /\ c <= cursor'[b] => c \in task.looked[b]
         /\ cursor[b] # 0 /\ cursor'[b] = 0 => c \in task.looked[b]]_repairVars

\* _apply_roster, whatever others wrote since the rows were read: each row it
\* stands for leaves with the author's number, filled or corrected, unless
\* somebody has numbered the row meanwhile; the orphan with its link and
\* number.  Other rows are left alone, and so are rows without an author.
RosterIsAuthority ==
    [][WriteRoster =>
         /\ \A n \in task.stored : \/ index'[n] = Position(Wanted, n)
                                   \/ index[n] # task.old[n] /\ index'[n] = index[n]
         /\ \A n \in Glue : index'[n] = Position(Wanted, n) /\ link'[n] = Wanted
         /\ \A n \in Novels \ Glue :
              n \notin task.stored \/ n \in rows \ authored =>
                 index'[n] = index[n] /\ link'[n] = link[n]]_repairVars

\* No candidate is starved: each orphan number's turn comes again and again,
\* or it is repaired, however many before it never answer and although the
\* task is killed now and then.
NoOrphanStarves ==
    \A n \in Novels :
        []<>(n \notin Candidates("orphan") \/ (task.pc = "columns" /\ task.item = n))
=============================================================================
