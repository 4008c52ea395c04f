---------------------------- MODULE AuthorFetch ----------------------------
(***************************************************************************)
(* The fetch tasks that name authors (tasks/novels.py): a ranking or a     *)
(* search walks a list of Pixiv page by page (client.py, _paginate), day   *)
(* after day or month after month, and for each list fans out one branch   *)
(* of author_fetch per author under a gate; the follow feed and the        *)
(* special follow ingest what they list themselves.  A branch plans,       *)
(* follows an unknown author, walks his catalogue, ingests it, marks him   *)
(* as updated and resolves his name.                                       *)
(*                                                                         *)
(* The kernel runs one such task at a time and cancels it after 30         *)
(* minutes.  gather raises the first exception of a branch and leaves the  *)
(* other branches running.  A step is the code between two awaits, except  *)
(* that ingest, which NovelStore takes apart, is one.                      *)
(***************************************************************************)
EXTENDS Integers, Sequences, FiniteSets, SequencesExt

CONSTANTS Authors, Works,
          AuthorOf,   \* the author of a work
          Score,      \* what a threshold is asked of: bookmarks, or the date
          Chinese,    \* the works _filter_chinese_novels keeps
          Fragile,    \* the works whose download may fail
          Special,    \* the specially followed authors
          Catalogue0, \* Pixiv's lists of the authors' works, newest first
          Lists,      \* the ranking of each day, the search result of each month
          Limit,      \* _FAN_OUT_LIMIT
          PageSize,   \* works on one page of Pixiv's answers
          MaxPages,   \* PixivClient._MAX_PAGES
          Thresholds, \* the values of minlike, or of fetch_til
          MaxTasks, MaxFaults, MaxChanges \* bounds of the model

ASSUME FetchAssumption ==
    /\ AuthorOf \in [Works -> Authors] /\ Score \in [Works -> Nat]
    /\ Chinese \subseteq Works /\ Fragile \subseteq Works /\ Special \subseteq Authors
    /\ Limit \in Nat \ {0} /\ PageSize \in Nat \ {0} /\ MaxPages \in Nat \ {0}
    /\ Thresholds \subseteq Nat /\ MaxTasks \in Nat /\ MaxFaults \in Nat /\ MaxChanges \in Nat
    /\ Catalogue0 \in [Authors -> Seq(Works)] /\ Lists \in Seq(Seq(Works)) /\ Lists # <<>>
    /\ \A a \in Authors : \A w \in Range(Catalogue0[a]) : AuthorOf[w] = a

\* A fan-out is a slot: the task's own, or one that still has branches.
Fans     == 1..(MaxFaults + 1)
Branches == Fans \X Authors
Kinds    == {"ranking", "search", "follow", "special"}

\* Where a branch of author_fetch is.
Stages == {"none", "gate", "follow", "collect", "ingest", "mark", "names",
           "done", "failed"}
Running == {"follow", "collect", "ingest", "mark", "names"}

VARIABLES
    catalogue, \* Pixiv: the works of an author
    stored,    \* the works with a novel row
    ledger,    \* the works with a failed_novel row
    known,     \* the authors with a row
    marked,    \* the authors whose last_update is less than a day old
    tpc,       \* the task: "idle", "list", "fan" or "save"
    job,       \* its kind and arguments
    day,       \* the list it is at
    walk,      \* its walk over that list
    report,    \* titles and failed_ids of its result so far
    fan,       \* the slot of its latest fan-out
    forced,    \* the fan-outs whose task forces the fetch
    stage, path, got, \* of a branch: stage, walk over the catalogue, what
                      \* its ingest has stored and failed
    base,      \* history: the works listed when the walk of a branch began
    shaken,    \* history: the branches from whose list a work was withdrawn
               \* while they walked it
    made,      \* history: what the branches of the task have stored and failed
    orphaned,  \* history: the fan-outs whose gather ended with a failure
    tasks, faults, changes

pixivVars   == <<catalogue, changes>>
storeVars   == <<stored, ledger, known, marked>>
taskVars    == <<tpc, job, day, walk, report, tasks>>
branchVars  == <<fan, forced, stage, path, got>>
historyVars == <<base, shaken, made, orphaned>>
vars == <<pixivVars, storeVars, taskVars, branchVars, historyVars, faults>>

Nothing == [new |-> {}, lost |-> {}]
Results == [new : SUBSET Works, lost : SUBSET Works]

----------------------------------------------------------------------------
(* PixivClient._paginate *)

\* A walk before its first page.
NewWalk == [seen |-> {}, at |-> 0, page |-> 0, open |-> TRUE, cut |-> FALSE]
Walks   == [seen : SUBSET Works, at : Nat, page : Nat, open : BOOLEAN, cut : BOOLEAN]

\* next_url: an offset into whatever the list is when it is followed.
Slice(list, at) ==
    SubSeq(list, at + 1, IF at + PageSize < Len(list) THEN at + PageSize ELSE Len(list))

\* _should_stop, asked of the last work of every page but the first.
Reached(w, slice, min) ==
    w.page > 0 /\ slice # <<>> /\ Score[Last(slice)] < min

\* Slip: a page without anything new ends the walk.
PageUntilKnown(w, list, paged, min) ==
    LET slice == Slice(list, w.at)
        more  == paged /\ Len(list) > w.at + PageSize /\ ~(Range(slice) \subseteq stored)
    IN [seen |-> w.seen \cup Range(slice), at |-> w.at + PageSize,
        page |-> w.page + 1,
        open |-> more /\ w.page + 1 < MaxPages,
        cut  |-> more /\ w.page + 1 = MaxPages]
\* One page is fetched and kept; the walk goes on as long as there is a
\* next_url, no threshold is reached and the page guard allows it.  Without
\* fetch_all or a threshold there is no second page.
Page(w, list, paged, min) ==
    LET slice == Slice(list, w.at)
        more  == paged /\ Len(list) > w.at + PageSize /\ ~Reached(w, slice, min)
    IN [seen |-> w.seen \cup Range(slice), at |-> w.at + PageSize,
        page |-> w.page + 1,
        open |-> more /\ w.page + 1 < MaxPages,
        cut  |-> more /\ w.page + 1 = MaxPages]

----------------------------------------------------------------------------
(* The task *)

NoJob == [kind |-> "ranking", force |-> FALSE, min |-> 0]

Init ==
    /\ catalogue = Catalogue0
    /\ stored = {} /\ ledger = {} /\ known = {} /\ marked = {}
    /\ tpc = "idle" /\ day = 1 /\ walk = NewWalk /\ report = Nothing
    /\ job = NoJob
    /\ fan = 1 /\ forced = {}
    /\ stage = [b \in Branches |-> "none"]
    /\ path = [b \in Branches |-> NewWalk]
    /\ got = [b \in Branches |-> Nothing]
    /\ base = [b \in Branches |-> {}]
    /\ shaken = {} /\ made = Nothing /\ orphaned = {}
    /\ tasks = 0 /\ faults = 0 /\ changes = 0

StartTask(kind, force, min) ==
    /\ tpc = "idle" /\ tasks < MaxTasks
    /\ job' = [kind |-> kind, force |-> force, min |-> min]
    /\ tpc' = "list" /\ day' = 1 /\ walk' = NewWalk /\ report' = Nothing
    /\ made' = Nothing
    /\ tasks' = tasks + 1
    /\ UNCHANGED <<pixivVars, storeVars, branchVars, base, shaken, orphaned, faults>>

StartRanking == \E force \in BOOLEAN : StartTask("ranking", force, 0)
StartSearch  == \E force \in BOOLEAN, min \in Thresholds : StartTask("search", force, min)
StartFollow  == \E force \in BOOLEAN, min \in Thresholds \ {0} :
                    StartTask("follow", force, min)
StartSpecial == StartTask("special", FALSE, 0)

\* _call follows next_url only with fetch_all or a threshold that is not 0.
Paged == job.kind = "ranking" \/ job.min > 0

FetchListPage ==
    /\ tpc = "list" /\ job.kind # "special" /\ walk.open
    /\ walk' = Page(walk, Lists[day], Paged, job.min)
    /\ UNCHANGED <<pixivVars, storeVars, tpc, job, day, report, tasks,
                   branchVars, historyVars, faults>>

\* author_special_follow: the first pages of all special authors at once; an
\* author whose request fails is left out.
FetchSpecial(S) ==
    /\ tpc = "list" /\ job.kind = "special"
    /\ S \subseteq Special
    /\ walk' = [NewWalk EXCEPT !.seen = UNION {Range(Slice(catalogue[a], 0)) : a \in S}]
    /\ tpc' = "save"
    /\ UNCHANGED <<pixivVars, storeVars, job, day, report, tasks,
                   branchVars, historyVars, faults>>

Named == {AuthorOf[w] : w \in walk.seen \cap Chinese}

\* The task is over, with result r.
TaskEnds(r) ==
    /\ tpc' = "idle" /\ job' = NoJob /\ day' = 1 /\ walk' = NewWalk
    /\ report' = r /\ made' = Nothing
    /\ UNCHANGED tasks

\* The next list, or the end.
NextList(r) ==
    IF day < Len(Lists)
    THEN /\ tpc' = "list" /\ day' = day + 1 /\ walk' = NewWalk
         /\ report' = r
         /\ UNCHANGED <<job, tasks, made>>
    ELSE TaskEnds(r)

ListNamesNobody ==
    /\ tpc = "list" /\ ~walk.open /\ job.kind # "follow" /\ Named = {}
    /\ NextList(report)
    /\ UNCHANGED <<pixivVars, storeVars, branchVars, base, shaken, orphaned, faults>>

\* _fan_out_author_fetch: one branch per author, all of them at the gate.
FanOut ==
    /\ tpc = "list" /\ ~walk.open /\ job.kind # "follow" /\ Named # {}
    /\ tpc' = "fan"
    /\ fan' = CHOOSE f \in Fans : \A a \in Authors : stage[<<f, a>>] = "none"
    /\ forced' = IF job.force THEN forced \cup {fan'} ELSE forced
    /\ stage' = [b \in Branches |-> IF b[1] = fan' /\ b[2] \in Named
                                    THEN "gate" ELSE stage[b]]
    /\ UNCHANGED <<pixivVars, storeVars, job, day, walk, report, tasks, path,
                   got, historyVars, faults>>

FollowListed ==
    /\ tpc = "list" /\ ~walk.open /\ job.kind = "follow"
    /\ tpc' = "save"
    /\ UNCHANGED <<pixivVars, storeVars, job, day, walk, report, tasks,
                   branchVars, historyVars, faults>>

\* _plan_batch: what has no row is downloaded; with force everything is.
Fresh(W) == (W \cap Chinese) \ stored
Due      == IF job.force THEN walk.seen \cap Chinese ELSE Fresh(walk.seen)

\* ingest downloads the works D; those in F cannot be fetched and are recorded
\* as failed.
Ingest(D, F) ==
    /\ F \subseteq D
    /\ stored' = stored \cup (D \ F)
    /\ ledger' = (ledger \ (D \ F)) \cup F

\* The follow feed and the special follow end with their own ingest, which
\* novel_follow may force.
Save(F) ==
    /\ tpc = "save"
    /\ Ingest(Due, F)
    /\ known' = known \cup {AuthorOf[w] : w \in Due \ F}
    /\ TaskEnds([new |-> Due \ F, lost |-> F])
    /\ UNCHANGED <<pixivVars, marked, branchVars, base, shaken, orphaned, faults>>

\* A request of the task itself, or its ingest, raises.
TaskFails ==
    /\ tpc = "save" \/ (tpc = "list" /\ job.kind # "special" /\ walk.open)
    /\ faults < MaxFaults
    /\ faults' = faults + 1
    /\ TaskEnds(Nothing)
    /\ UNCHANGED <<pixivVars, storeVars, branchVars, base, shaken, orphaned>>

Mine == {b \in Branches : b[1] = fan /\ stage[b] # "none"}
Live(b) == stage[b] \in Running \cup {"gate"}

\* Slip: the failures of the branches stay behind.
FlattenTitles ==
    [new |-> report.new \cup UNION {got[b].new : b \in Mine}, lost |-> report.lost]
Flatten ==
    [new  |-> report.new \cup UNION {got[b].new : b \in Mine},
     lost |-> report.lost \cup UNION {got[b].lost : b \in Mine}]

AllBack == \A b \in Mine : stage[b] = "done"

\* Nothing is left of the branches B of a fan-out that is over.
Dissolve(B) ==
    /\ stage' = [b \in Branches |-> IF b \in B THEN "none" ELSE stage[b]]
    /\ path'  = [b \in Branches |-> IF b \in B THEN NewWalk ELSE path[b]]
    /\ got'   = [b \in Branches |-> IF b \in B THEN Nothing ELSE got[b]]
    /\ base'  = [b \in Branches |-> IF b \in B THEN {} ELSE base[b]]
    /\ shaken' = shaken \ B
    /\ forced' = forced \ {b[1] : b \in B}

\* gather returns when every branch has.
Gathered ==
    /\ tpc = "fan" /\ AllBack
    /\ NextList(Flatten)
    /\ Dissolve(Mine)
    /\ UNCHANGED <<pixivVars, storeVars, fan, orphaned, faults>>

\* Slip: the gather is abandoned, its branches are not cancelled.
AbandonBranches == UNCHANGED <<forced, stage, path, got, base, shaken>>
CancelBranches  == Dissolve(IF tpc = "fan" THEN Mine ELSE {})

\* The kernel's 30 minutes are over, or the manager stops: the cancellation
\* reaches every branch of the gather under way, at the gate or beyond.
Timeout ==
    /\ tpc # "idle" /\ faults < MaxFaults
    /\ faults' = faults + 1
    /\ TaskEnds(Nothing)
    /\ CancelBranches
    /\ UNCHANGED <<pixivVars, storeVars, fan, orphaned>>

----------------------------------------------------------------------------
(* A branch of author_fetch *)

\* Slip: a branch that fails keeps its place.
InsideHeld(f)  == {b \in Branches : b[1] = f /\ stage[b] \in Running \cup {"failed"}}
Inside(f)      == {b \in Branches : b[1] = f /\ stage[b] \in Running}
GateOpen(f)    == Cardinality(Inside(f)) < Limit

Goes(b, to) == stage' = [stage EXCEPT ![b] = to]

\* The branch is over.  A gather that is still awaited keeps it for its
\* result; of an orphaned fan-out nothing is kept.
Orphan(f)   == tpc # "fan" \/ f # fan
LastLive(b) == \A a \in Authors : ~Live(<<b[1], a>>) \/ a = b[2]
Ends(b, to) ==
    IF Orphan(b[1]) /\ LastLive(b)
    THEN /\ Dissolve({c \in Branches : c[1] = b[1]})
         /\ orphaned' = orphaned \ {b[1]}
    ELSE /\ Goes(b, to)
         /\ UNCHANGED <<forced, path, got, base, shaken, orphaned>>

\* author_fetch up to its first request: an author updated within a day is
\* skipped unless the task forces it, an unknown one is followed first.
Plan(b) ==
    /\ stage[b] = "gate" /\ GateOpen(b[1])
    /\ IF b[2] \in marked /\ b[1] \notin forced THEN Ends(b, "done")
       ELSE /\ Goes(b, IF b[2] \in known THEN "collect" ELSE "follow")
            /\ UNCHANGED <<forced, path, got, base, shaken, orphaned>>
    /\ UNCHANGED <<pixivVars, storeVars, taskVars, fan, made, faults>>

FollowAdd(b) ==
    /\ stage[b] = "follow"
    /\ Goes(b, "collect")
    /\ UNCHANGED <<pixivVars, storeVars, taskVars, fan, forced, path, got, historyVars,
                   faults>>

\* user_novels(fetch_all=True), a page at a time.
FetchPage(b) ==
    /\ stage[b] = "collect"
    /\ path' = [path EXCEPT ![b] = Page(@, catalogue[b[2]], TRUE, 0)]
    /\ Goes(b, IF path'[b].open THEN "collect" ELSE "ingest")
    /\ base' = [base EXCEPT ![b] = IF path[b].page = 0 THEN Range(catalogue[b[2]]) ELSE @]
    /\ UNCHANGED <<pixivVars, storeVars, taskVars, fan, forced, got, shaken, made,
                   orphaned, faults>>

IngestBranch(b, F) ==
    /\ stage[b] = "ingest"
    /\ Ingest(Fresh(path[b].seen), F)
    /\ got' = [got EXCEPT ![b] = [new |-> Fresh(path[b].seen) \ F, lost |-> F]]
    /\ made' = IF b \in Mine /\ tpc = "fan"
               THEN [new |-> made.new \cup got'[b].new, lost |-> made.lost \cup F] ELSE made
    /\ known' = IF got'[b].new = {} THEN known ELSE known \cup {b[2]}
    /\ Goes(b, "mark")
    /\ UNCHANGED <<pixivVars, marked, taskVars, fan, forced, path, base, shaken,
                   orphaned, faults>>

\* update_last_update is an UPDATE: it marks an author who has a row.
Mark(b) ==
    /\ stage[b] = "mark"
    /\ marked' = IF b[2] \in known THEN marked \cup {b[2]} ELSE marked
    /\ path' = [path EXCEPT ![b] = NewWalk]
    /\ base' = [base EXCEPT ![b] = {}]
    /\ shaken' = shaken \ {b}
    /\ Goes(b, "names")
    /\ UNCHANGED <<pixivVars, stored, ledger, known, taskVars, fan, forced, got, made,
                   orphaned, faults>>

\* collect_author_names swallows what its requests raise.
ResolveName(b) ==
    /\ stage[b] = "names"
    /\ Ends(b, "done")
    /\ UNCHANGED <<pixivVars, storeVars, taskVars, fan, made, faults>>

\* A request or a transaction of the branch raises.  If its gather is still
\* awaited the task fails with it; the other branches run on.
BranchFails(b) ==
    /\ stage[b] \in Running /\ faults < MaxFaults
    /\ faults' = faults + 1
    /\ IF Orphan(b[1]) THEN UNCHANGED <<taskVars, made>> ELSE TaskEnds(Nothing)
    /\ IF LastLive(b)
       THEN /\ Dissolve({c \in Branches : c[1] = b[1]})
            /\ orphaned' = orphaned \ {b[1]}
       ELSE /\ Goes(b, "failed")
            /\ orphaned' = orphaned \cup {b[1]}
            /\ UNCHANGED <<forced, path, got, base, shaken>>
    /\ UNCHANGED <<pixivVars, storeVars, fan>>

----------------------------------------------------------------------------
(* Pixiv and time *)

\* Changes between two walks amount to another Catalogue0.
Walked(a) == \E b \in Branches : b[2] = a /\ stage[b] = "collect"

\* A work appears at the head of its author's list ...
Publish(w) ==
    /\ changes < MaxChanges /\ Walked(AuthorOf[w])
    /\ w \notin Range(catalogue[AuthorOf[w]]) /\ w \notin stored
    /\ catalogue' = [catalogue EXCEPT ![AuthorOf[w]] = <<w>> \o @]
    /\ changes' = changes + 1
    /\ UNCHANGED <<storeVars, taskVars, branchVars, historyVars, faults>>

\* ... or leaves it, and what follows it moves up under the walks' offsets.
Withdraw(w) ==
    /\ changes < MaxChanges /\ Walked(AuthorOf[w])
    /\ \E k \in DOMAIN catalogue[AuthorOf[w]] :
         /\ catalogue[AuthorOf[w]][k] = w
         /\ catalogue' = [catalogue EXCEPT ![AuthorOf[w]] = RemoveAt(@, k)]
    /\ shaken' = shaken \cup {b \in Branches : b[2] = AuthorOf[w] /\ stage[b] = "collect"}
    /\ changes' = changes + 1
    /\ UNCHANGED <<storeVars, taskVars, branchVars, base, made, orphaned, faults>>

\* A day has passed since the author's last_update.
NewDay(a) ==
    /\ a \in marked /\ changes < MaxChanges
    /\ marked' = marked \ {a}
    /\ changes' = changes + 1
    /\ UNCHANGED <<catalogue, stored, ledger, known, taskVars, branchVars, historyVars,
                   faults>>

TaskStep ==
    \/ FetchListPage \/ ListNamesNobody \/ FanOut \/ FollowListed \/ Gathered
    \/ \E S \in SUBSET Special : FetchSpecial(S)
    \/ \E F \in SUBSET Fragile : Save(F)
    \/ TaskFails \/ Timeout

BranchStep(b) ==
    \/ Plan(b) \/ FollowAdd(b) \/ FetchPage(b) \/ Mark(b) \/ ResolveName(b)
    \/ \E F \in SUBSET Fragile : IngestBranch(b, F)
    \/ BranchFails(b)

Next ==
    \/ StartRanking \/ StartSearch \/ StartFollow \/ StartSpecial
    \/ TaskStep
    \/ \E b \in Branches : BranchStep(b)
    \/ \E w \in Works : Publish(w) \/ Withdraw(w)
    \/ \E a \in Authors : NewDay(a)

Spec == Init /\ [][Next]_vars

\* The loop runs every branch that can go on, and every request ends.
FairSpec == Spec /\ \A b \in Branches : WF_vars(BranchStep(b))

----------------------------------------------------------------------------
(* Properties *)

TypeOK ==
    /\ catalogue \in [Authors -> Seq(Works)]
    /\ stored \subseteq Works /\ ledger \subseteq Works
    /\ known \subseteq Authors /\ marked \subseteq Authors
    /\ tpc \in {"idle", "list", "fan", "save"}
    /\ job \in [kind : Kinds, force : BOOLEAN, min : Nat]
    /\ day \in DOMAIN Lists /\ fan \in Fans /\ forced \subseteq Fans
    /\ stage \in [Branches -> Stages]
    /\ walk \in Walks /\ path \in [Branches -> Walks]
    /\ report \in Results /\ made \in Results /\ got \in [Branches -> Results]
    /\ base \in [Branches -> SUBSET Works]
    /\ shaken \subseteq Branches /\ orphaned \subseteq Fans
    /\ tasks \in Nat /\ faults \in 0..MaxFaults /\ changes \in Nat

\* author_fetch's last_update, which hides the author from every fan-out for a
\* day: when it is written, every Chinese work his catalogue listed when the
\* walk began has a row or a failure record, whatever was published, failed or
\* fetched beside it.  (A work withdrawn under the walk lets the offsets slip,
\* and the page guard hides what lies behind it: both void it.)  A work that
\* could not be fetched has its failure record although it has no row: record
\* needs none (failures/repo.py), whatever the comment in _persist_batch says.
MarkedIsHandled ==
    [][\A b \in Branches : Mark(b) /\ b \notin shaken /\ ~path[b].cut =>
           base[b] \cap Chinese \subseteq stored \cup ledger]_vars

\* _fan_out_author_fetch and its callers: "the failures of each child must
\* travel up".  A ranking or a search that ends well reports everything its
\* branches have stored and everything they could not fetch, of every list.
ResultIsWhole ==
    [][(Gathered \/ ListNamesNobody) /\ tpc' = "idle" =>
           made.new \subseteq report'.new /\ made.lost \subseteq report'.lost]_vars

\* gather and the kernel's cancellation: no branch outlives the fan-out that
\* started it, unless a sibling failed (gather has no return_exceptions, the
\* others run on without their task).
NoStrayBranch == \A b \in Branches : Live(b) => ~Orphan(b[1]) \/ b[1] \in orphaned

\* The gate: every branch gets its turn and comes back, those behind a failed
\* or an orphaned one included; no walk goes on for ever.
BranchesEnd == \A b \in Branches : Live(b) ~> ~Live(b)
=============================================================================
