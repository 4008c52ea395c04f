---------------------------- MODULE FetchProofs ----------------------------
(***************************************************************************)
(* The two tasks that walk a remote list page by page while others write:  *)
(* what a fetch task and its branches promise (AuthorFetch), for any       *)
(* authors, works, lists, gate, page size and number of tasks, failures    *)
(* and changes, and what the series repair does (SeriesRepair), for any    *)
(* rosters, page sizes and number of runs.                                 *)
(***************************************************************************)
EXTENDS AuthorFetch, SeriesRepair, FiniteSetTheorems, FunctionTheorems,
        SequenceTheorems, TLAPS

----------------------------------------------------------------------------
(* AuthorFetch *)

\* The works at and after an offset of a list.
Rest(list, at) == {list[i] : i \in (at + 1)..Len(list)}

\* A walk over an undisturbed list has seen, or still has before it, all that
\* was listed when it began; when it is over without the page guard it has
\* seen it, and when the author is marked it is handled.
WalkOK(b) ==
    /\ stage[b] \in {"none", "gate", "follow"} => path[b] = NewWalk
    /\ stage[b] = "collect" /\ path[b].page = 0 => path[b] = NewWalk
    /\ stage[b] = "collect" => path[b].page < MaxPages
    /\ stage[b] = "collect" /\ path[b].page # 0 /\ b \notin shaken =>
         base[b] \subseteq path[b].seen \cup Rest(catalogue[b[2]], path[b].at)
    /\ stage[b] = "ingest" /\ b \notin shaken /\ ~path[b].cut =>
         base[b] \subseteq path[b].seen
    /\ stage[b] = "mark" /\ b \notin shaken /\ ~path[b].cut =>
         base[b] \cap Chinese \subseteq stored \cup ledger

\* A branch has a result once it has ingested, and belongs to a gather that is
\* awaited or that has failed.
BranchOK(b) ==
    /\ stage[b] \in {"none", "gate", "follow", "collect", "ingest"} => got[b] = Nothing
    /\ stage[b] # "none" => ~Orphan(b[1]) \/ b[1] \in orphaned

\* Nothing the branches have made is missing from the report and their results.
ReportOK ==
    LET S == IF tpc = "fan" THEN Mine ELSE {} IN
    /\ made.new \subseteq report.new \cup UNION {got[b].new : b \in S}
    /\ made.lost \subseteq report.lost \cup UNION {got[b].lost : b \in S}

\* Every orphaned gather has cost a failure, so there is a slot for the next.
SlotsOK == Cardinality(orphaned) <= faults

IndInv ==
    /\ TypeOK /\ ReportOK /\ SlotsOK
    /\ \A b \in Branches : WalkOK(b) /\ BranchOK(b)
----------------------------------------------------------------------------
(* Pages and lists *)

\* What a page shows.
LEMMA SliceOK ==
    ASSUME NEW list \in Seq(Works), NEW at \in Nat
    PROVE  LET n == IF at + PageSize < Len(list) THEN at + PageSize ELSE Len(list)
           IN  /\ Range(Slice(list, at)) = {list[i] : i \in (at + 1)..n}
               /\ Range(Slice(list, at)) \subseteq Works
               /\ Slice(list, at) # <<>> => Last(Slice(list, at)) \in Works
<1> DEFINE n == IF at + PageSize < Len(list) THEN at + PageSize ELSE Len(list)
           slice == Slice(list, at)
<1>1. PageSize \in Nat /\ Len(list) \in Nat /\ DOMAIN list = 1..Len(list)
  BY FetchAssumption
<1>2. n \in Nat /\ n <= Len(list) /\ slice = SubSeq(list, at + 1, n)
  BY <1>1 DEF Slice
<1> HIDE DEF n, slice
<1>3. \A i \in (at + 1)..n : i \in 1..Len(list) /\ list[i] \in Works
  BY <1>1, <1>2
<1>4. /\ slice \in Seq(Works)
      /\ Len(slice) = IF at + 1 <= n THEN n - at ELSE 0
      /\ \A i \in 1..Len(slice) : slice[i] = list[at + i]
  <2>1. at + 1 \in Int /\ n \in Int
    BY <1>2
  <2>2. /\ slice \in Seq(Works)
        /\ Len(slice) = IF at + 1 <= n THEN n - (at + 1) + 1 ELSE 0
        /\ \A i \in 1..(n - (at + 1) + 1) : slice[i] = list[at + 1 + i - 1]
    BY <1>2, <1>3, <2>1, SubSeqProperties
  <2>3. QED
    BY <1>2, <2>2
<1>5. DOMAIN slice = 1..Len(slice) /\ Len(slice) \in Nat
  BY <1>4
<1>6. ASSUME NEW x PROVE x \in Range(slice) <=> x \in {list[i] : i \in (at + 1)..n}
  <2>1. ASSUME NEW j \in 1..Len(slice) PROVE at + j \in (at + 1)..n /\ slice[j] = list[at + j]
    BY <1>2, <1>4
  <2>2. ASSUME NEW i \in (at + 1)..n PROVE i - at \in 1..Len(slice) /\ slice[i - at] = list[i]
    BY <1>2, <1>4
  <2>3. QED
    BY <1>5, <2>1, <2>2 DEF Range
<1>7. Range(slice) \subseteq Works
  BY <1>4, <1>5 DEF Range
<1>8. slice # <<>> => Last(slice) \in Works
  BY <1>4, <1>5 DEF Last
<1>9. QED
  BY <1>6, <1>7, <1>8 DEF n, slice

\* A page keeps a walk in its type.
LEMMA PageType ==
    ASSUME NEW w \in Walks, NEW list \in Seq(Works), NEW paged \in BOOLEAN, NEW min
    PROVE  Page(w, list, paged, min) \in Walks
<1>1. Range(Slice(list, w.at)) \subseteq Works
  BY SliceOK DEF Walks
<1>2. w.seen \cup Range(Slice(list, w.at)) \subseteq Works
  BY <1>1 DEF Walks
<1>3. w.at + PageSize \in Nat /\ w.page + 1 \in Nat
  BY FetchAssumption DEF Walks
<1>4. QED
  BY <1>2, <1>3 DEF Page, Walks

\* user_novels(fetch_all=True): what was seen or still ahead stays so, and a
\* walk that ends before the page guard has seen the rest.
LEMMA FullPage ==
    ASSUME NEW w \in Walks, NEW list \in Seq(Works), w.page < MaxPages
    PROVE  LET p == Page(w, list, TRUE, 0) IN
           /\ p.page # 0
           /\ w.seen \cup Rest(list, w.at) \subseteq p.seen \cup Rest(list, p.at)
           /\ p.open => p.page < MaxPages
           /\ ~p.open /\ ~p.cut => w.seen \cup Rest(list, w.at) \subseteq p.seen
<1> DEFINE slice == Slice(list, w.at)
           more == Len(list) > w.at + PageSize
           n == IF w.at + PageSize < Len(list) THEN w.at + PageSize ELSE Len(list)
           p == Page(w, list, TRUE, 0)
<1>1. w.at \in Nat /\ w.page \in Nat /\ Len(list) \in Nat /\ PageSize \in Nat /\ MaxPages \in Nat
  BY FetchAssumption DEF Walks
<1>2. /\ Range(slice) = {list[i] : i \in (w.at + 1)..n}
      /\ slice # <<>> => Last(slice) \in Works
  BY <1>1, SliceOK
<1>3. ~Reached(w, slice, 0)
  <2>1. slice # <<>> => Score[Last(slice)] \in Nat
    BY <1>2, FetchAssumption
  <2>2. QED
    BY <2>1 DEF Reached
<1>4. /\ p.seen = w.seen \cup Range(slice) /\ p.at = w.at + PageSize /\ p.page = w.page + 1
      /\ p.open <=> (more /\ w.page + 1 < MaxPages)
      /\ p.cut <=> (more /\ w.page + 1 = MaxPages)
  BY <1>3 DEF Page
<1> HIDE DEF slice, p
<1>5. ASSUME NEW x \in Rest(list, w.at)
      PROVE  /\ x \in p.seen \cup Rest(list, p.at)
             /\ ~more => x \in p.seen
  <2>1. PICK i \in (w.at + 1)..Len(list) : x = list[i]
    BY DEF Rest
  <2>2. CASE i <= n
    <3>1. i \in (w.at + 1)..n
      BY <1>1, <2>1, <2>2
    <3>2. x \in Range(slice)
      BY <1>2, <2>1, <3>1
    <3>3. QED
      BY <1>4, <3>2
  <2>3. CASE ~(i <= n)
    <3>1. more /\ i \in (p.at + 1)..Len(list)
      BY <1>1, <1>4, <2>1, <2>3
    <3>2. QED
      BY <2>1, <3>1 DEF Rest
  <2>4. QED
    BY <2>2, <2>3
<1>6. p.page # 0 /\ (p.open => p.page < MaxPages)
  BY <1>1, <1>4
<1>7. ~p.open /\ ~p.cut => ~more
  BY <1>1, <1>4
<1>8. QED
  BY <1>4, <1>5, <1>6, <1>7 DEF p

\* A work published at the head shifts the rest, and loses nothing of it.
LEMMA PublishedRest ==
    ASSUME NEW list \in Seq(Works), NEW w \in Works, NEW at \in Nat
    PROVE  <<w>> \o list \in Seq(Works) /\ Rest(list, at) \subseteq Rest(<<w>> \o list, at)
<1> DEFINE new == <<w>> \o list
<1>1. /\ new \in Seq(Works) /\ Len(new) = Len(list) + 1 /\ Len(list) \in Nat
      /\ \A i \in 1..Len(list) : new[i + 1] = list[i]
  OBVIOUS
<1> HIDE DEF new
<1>2. ASSUME NEW i \in (at + 1)..Len(list) PROVE list[i] \in Rest(new, at)
  <2>1. i + 1 \in (at + 1)..Len(new) /\ new[i + 1] = list[i]
    BY <1>1
  <2>2. QED
    BY <2>1 DEF Rest
<1>3. QED
  BY <1>1, <1>2 DEF Rest, new

LEMMA RemoveAtType ==
    ASSUME NEW list \in Seq(Works), NEW k \in DOMAIN list
    PROVE  RemoveAt(list, k) \in Seq(Works)
<1>1. k \in 1..Len(list) /\ Len(list) \in Nat
  OBVIOUS
<1>2. SubSeq(list, 1, k - 1) \in Seq(Works)
  <2>1. \A i \in 1..(k - 1) : list[i] \in Works
    BY <1>1
  <2>2. QED
    BY <1>1, <2>1, SubSeqProperties
<1>3. SubSeq(list, k + 1, Len(list)) \in Seq(Works)
  <2>1. \A i \in (k + 1)..Len(list) : list[i] \in Works
    BY <1>1
  <2>2. k + 1 \in Int /\ Len(list) \in Int
    BY <1>1
  <2>3. QED
    BY <2>1, <2>2, SubSeqProperties
<1>4. QED
  BY <1>2, <1>3, ConcatProperties DEF RemoveAt

----------------------------------------------------------------------------
(* What a step leaves alone *)

LEMMA StartTypes == NewWalk \in Walks /\ Nothing \in Results /\ 1 \in DOMAIN Lists /\ 1 \in Fans
BY FetchAssumption DEF NewWalk, Walks, Nothing, Results, Fans

LEMMA WalkStays ==
    ASSUME NEW b \in Branches, WalkOK(b), UNCHANGED catalogue,
           stage'[b] = stage[b], path'[b] = path[b], base'[b] = base[b],
           b \notin shaken' => b \notin shaken,
           stored \cup ledger \subseteq stored' \cup ledger'
    PROVE  WalkOK(b)'
BY DEF WalkOK

LEMMA BranchStays ==
    ASSUME NEW b \in Branches, BranchOK(b), stage'[b] = stage[b], got'[b] = got[b],
           /\ stage[b] # "none"
           /\ Orphan(b[1]) => b[1] \in orphaned
           => (Orphan(b[1])' => b[1] \in orphaned')
    PROVE  BranchOK(b)'
BY DEF BranchOK

\* A branch that is gone is as it was before it began.
LEMMA GoneIsOK ==
    ASSUME NEW b \in Branches, stage'[b] = "none", path'[b] = NewWalk, got'[b] = Nothing
    PROVE  WalkOK(b)' /\ BranchOK(b)'
BY DEF WalkOK, BranchOK

LEMMA DissolveOK ==
    ASSUME TypeOK, NEW B \in SUBSET Branches, Dissolve(B)
    PROVE  /\ stage' \in [Branches -> Stages] /\ path' \in [Branches -> Walks]
           /\ got' \in [Branches -> Results] /\ base' \in [Branches -> SUBSET Works]
           /\ shaken' \subseteq Branches /\ forced' \subseteq Fans
           /\ \A b \in B : stage'[b] = "none" /\ path'[b] = NewWalk /\ got'[b] = Nothing
           /\ \A b \in Branches \ B :
                /\ stage'[b] = stage[b] /\ path'[b] = path[b] /\ got'[b] = got[b]
                /\ base'[b] = base[b] /\ (b \in shaken' <=> b \in shaken)
BY StartTypes DEF Dissolve, TypeOK, Stages

LEMMA TaskEndsTypes ==
    ASSUME TypeOK, NEW r \in Results, TaskEnds(r)
    PROVE  /\ tpc' = "idle" /\ job' \in [kind : Kinds, force : BOOLEAN, min : Nat]
           /\ day' \in DOMAIN Lists /\ walk' \in Walks /\ report' = r /\ made' = Nothing
           /\ tasks' = tasks
BY StartTypes DEF TaskEnds, NoJob, Kinds

LEMMA NextListTypes ==
    ASSUME TypeOK, NEW r \in Results, NextList(r)
    PROVE  /\ tpc' \in {"idle", "list"} /\ job' \in [kind : Kinds, force : BOOLEAN, min : Nat]
           /\ day' \in DOMAIN Lists /\ walk' \in Walks /\ report' = r
           /\ made' \in {made, Nothing} /\ tasks' = tasks
<1>1. CASE day < Len(Lists)
  <2>1. /\ tpc' = "list" /\ day' = day + 1 /\ walk' = NewWalk /\ report' = r
        /\ UNCHANGED <<job, tasks, made>>
    BY <1>1 DEF NextList
  <2>2. day + 1 \in DOMAIN Lists
    BY <1>1, FetchAssumption DEF TypeOK
  <2>3. QED
    BY <2>1, <2>2, StartTypes DEF TypeOK
<1>2. CASE ~(day < Len(Lists))
  BY <1>2, TaskEndsTypes DEF NextList
<1>3. QED
  BY <1>1, <1>2

LEMMA SlotsCount ==
    ASSUME NEW S, S \subseteq Fans
    PROVE  /\ IsFiniteSet(S) /\ Cardinality(S) \in Nat
           /\ Cardinality(S) <= MaxFaults => \E f \in Fans : f \notin S
<1>1. MaxFaults + 1 \in Nat /\ 1 \in Int /\ MaxFaults + 1 \in Int
  BY FetchAssumption
<1>2. IsFiniteSet(Fans) /\ Cardinality(Fans) = MaxFaults + 1
  BY <1>1, FS_Interval DEF Fans
<1>3. IsFiniteSet(S) /\ Cardinality(S) \in Nat
  BY <1>2, FS_Subset, FS_CardinalityType
<1>4. S = Fans => ~(Cardinality(S) <= MaxFaults)
  BY <1>1, <1>2, FetchAssumption
<1>5. QED
  BY <1>3, <1>4

\* Steps of the task before its fan-out or without one.
LEMMA TaskOnlyKeeps ==
    ASSUME IndInv, TypeOK', tpc # "fan", tpc' # "fan",
           UNCHANGED <<catalogue, fan, stage, path, got, base, shaken, orphaned>>,
           stored \cup ledger \subseteq stored' \cup ledger', faults <= faults',
           made'.new \subseteq report'.new /\ made'.lost \subseteq report'.lost
    PROVE  IndInv'
<1>1. ASSUME NEW b \in Branches PROVE WalkOK(b)' /\ BranchOK(b)'
  BY WalkStays, BranchStays DEF IndInv, Orphan
<1>2. ReportOK'
  BY DEF ReportOK
<1>3. SlotsOK'
  <2>1. orphaned \subseteq Fans /\ faults \in Nat /\ faults' \in Nat
    BY FetchAssumption DEF IndInv, TypeOK
  <2>2. Cardinality(orphaned) \in Nat
    BY <2>1, SlotsCount
  <2>3. QED
    BY <2>1, <2>2 DEF IndInv, SlotsOK
<1>4. QED
  BY <1>1, <1>2, <1>3 DEF IndInv

\* What the report holds when no fan-out is under way.
LEMMA IdleReport ==
    ASSUME ReportOK, tpc # "fan"
    PROVE  made.new \subseteq report.new /\ made.lost \subseteq report.lost
BY DEF ReportOK

----------------------------------------------------------------------------
(* Each step keeps the invariant: the task *)

LEMMA InitEstablishes == Init => IndInv
<1> SUFFICES ASSUME Init PROVE IndInv
  OBVIOUS
<1>1. TypeOK
  BY StartTypes, FetchAssumption DEF Init, TypeOK, NoJob, Kinds, Stages
<1>2. \A b \in Branches : WalkOK(b) /\ BranchOK(b)
  BY DEF Init, WalkOK, BranchOK
<1>3. ReportOK
  BY DEF Init, ReportOK, Nothing
<1>4. SlotsOK
  BY FS_EmptySet DEF Init, SlotsOK
<1>5. QED
  BY <1>1, <1>2, <1>3, <1>4 DEF IndInv

LEMMA StartTaskKeeps ==
    ASSUME IndInv, NEW kind \in Kinds, NEW force \in BOOLEAN, NEW min \in Nat,
           StartTask(kind, force, min)
    PROVE  IndInv'
<1>1. /\ tpc = "idle" /\ tpc' = "list" /\ day' = 1 /\ walk' = NewWalk /\ report' = Nothing
      /\ made' = Nothing /\ tasks' = tasks + 1
      /\ job' = [kind |-> kind, force |-> force, min |-> min]
      /\ UNCHANGED <<catalogue, changes, stored, ledger, known, marked, fan, forced, stage,
                     path, got, base, shaken, orphaned, faults>>
  BY DEF StartTask, pixivVars, storeVars, branchVars
<1>2. TypeOK'
  BY <1>1, StartTypes, FetchAssumption DEF IndInv, TypeOK
<1>3. faults <= faults'
  BY <1>1, FetchAssumption DEF IndInv, TypeOK
<1>4. QED
  BY <1>1, <1>2, <1>3, TaskOnlyKeeps DEF Nothing

LEMMA StartKeeps ==
    ASSUME IndInv, StartRanking \/ StartSearch \/ StartFollow \/ StartSpecial
    PROVE  IndInv'
<1>1. Thresholds \subseteq Nat /\ {"ranking", "search", "follow", "special"} = Kinds
  BY FetchAssumption DEF Kinds
<1>2. CASE StartRanking
  BY <1>1, <1>2, StartTaskKeeps DEF StartRanking
<1>3. CASE StartSearch
  BY <1>1, <1>3, StartTaskKeeps DEF StartSearch
<1>4. CASE StartFollow
  BY <1>1, <1>4, StartTaskKeeps DEF StartFollow
<1>5. CASE StartSpecial
  BY <1>1, <1>5, StartTaskKeeps DEF StartSpecial
<1>6. QED
  BY <1>2, <1>3, <1>4, <1>5

LEMMA ListingKeeps ==
    ASSUME IndInv, \/ FetchListPage \/ ListNamesNobody \/ FollowListed
                   \/ \E S \in SUBSET Special : FetchSpecial(S)
    PROVE  IndInv'
<1>1. TypeOK /\ faults <= faults /\ tpc = "list" /\ made.new \subseteq report.new
      /\ made.lost \subseteq report.lost
  BY IdleReport, FetchAssumption
     DEF IndInv, TypeOK, FetchListPage, ListNamesNobody, FollowListed, FetchSpecial
<1>2. CASE FetchListPage
  <2>1. /\ walk' = Page(walk, Lists[day], Paged, job.min)
        /\ UNCHANGED <<catalogue, changes, stored, ledger, known, marked, tpc, job, day, report,
                       tasks, fan, forced, stage, path, got, base, shaken, made, orphaned, faults>>
    BY <1>2 DEF FetchListPage, pixivVars, storeVars, branchVars, historyVars
  <2>2. Lists[day] \in Seq(Works) /\ Paged \in BOOLEAN
    BY <1>1, FetchAssumption DEF TypeOK, Paged
  <2>3. walk' \in Walks
    BY <1>1, <2>1, <2>2, PageType DEF TypeOK
  <2>4. TypeOK'
    BY <1>1, <2>1, <2>3 DEF TypeOK
  <2>5. QED
    BY <1>1, <2>1, <2>4, TaskOnlyKeeps
<1>3. CASE ListNamesNobody
  <2>1. /\ NextList(report)
        /\ UNCHANGED <<catalogue, changes, stored, ledger, known, marked, fan, forced, stage,
                       path, got, base, shaken, orphaned, faults>>
    BY <1>3 DEF ListNamesNobody, pixivVars, storeVars, branchVars
  <2>2. /\ tpc' \in {"idle", "list"} /\ job' \in [kind : Kinds, force : BOOLEAN, min : Nat]
        /\ day' \in DOMAIN Lists /\ walk' \in Walks /\ report' = report
        /\ made' \in {made, Nothing} /\ tasks' = tasks
    BY <1>1, <2>1, NextListTypes DEF TypeOK
  <2>3. TypeOK'
    BY <1>1, <2>1, <2>2, StartTypes DEF TypeOK
  <2>4. made'.new \subseteq report'.new /\ made'.lost \subseteq report'.lost
    BY <1>1, <2>2 DEF Nothing
  <2>5. QED
    BY <1>1, <2>1, <2>2, <2>3, <2>4, TaskOnlyKeeps
<1>4. CASE FollowListed
  <2>1. /\ tpc' = "save"
        /\ UNCHANGED <<catalogue, changes, stored, ledger, known, marked, job, day, walk, report,
                       tasks, fan, forced, stage, path, got, base, shaken, made, orphaned, faults>>
    BY <1>4 DEF FollowListed, pixivVars, storeVars, branchVars, historyVars
  <2>2. TypeOK'
    BY <1>1, <2>1 DEF TypeOK
  <2>3. QED
    BY <1>1, <2>1, <2>2, TaskOnlyKeeps
<1>5. ASSUME NEW S \in SUBSET Special, FetchSpecial(S) PROVE IndInv'
  <2> DEFINE seen == UNION {Range(Slice(catalogue[a], 0)) : a \in S}
  <2>1. /\ tpc' = "save" /\ walk' = [NewWalk EXCEPT !.seen = seen]
        /\ UNCHANGED <<catalogue, changes, stored, ledger, known, marked, job, day, report,
                       tasks, fan, forced, stage, path, got, base, shaken, made, orphaned, faults>>
    BY <1>5 DEF FetchSpecial, pixivVars, storeVars, branchVars, historyVars
  <2>2. seen \subseteq Works
    <3>1. \A a \in S : catalogue[a] \in Seq(Works)
      BY <1>1, FetchAssumption DEF TypeOK
    <3>2. \A a \in S : Range(Slice(catalogue[a], 0)) \subseteq Works
      BY <3>1, SliceOK
    <3>3. QED
      BY <3>2
  <2> HIDE DEF seen
  <2>3. walk' \in Walks
    BY <2>1, <2>2, StartTypes DEF NewWalk, Walks
  <2>4. TypeOK'
    BY <1>1, <2>1, <2>3 DEF TypeOK
  <2>5. QED
    BY <1>1, <2>1, <2>4, TaskOnlyKeeps
<1>6. QED
  BY <1>2, <1>3, <1>4, <1>5

\* ingest: nothing that was handled is lost, and what it is given is handled.
LEMMA IngestOK ==
    ASSUME TypeOK, NEW D \in SUBSET Works, NEW F, Ingest(D, F)
    PROVE  /\ stored' \subseteq Works /\ ledger' \subseteq Works
           /\ F \in SUBSET Works /\ D \ F \in SUBSET Works
           /\ stored \cup ledger \subseteq stored' \cup ledger'
           /\ D \cup stored \subseteq stored' \cup ledger'
<1>1. /\ F \subseteq D /\ stored' = stored \cup (D \ F)
      /\ ledger' = (ledger \ (D \ F)) \cup F
  BY DEF Ingest
<1>2. QED
  BY <1>1 DEF TypeOK

LEMMA SaveKeeps ==
    ASSUME IndInv, NEW F, Save(F)
    PROVE  IndInv'
<1> DEFINE r == [new |-> Due \ F, lost |-> F]
<1>1. TypeOK /\ Due \in SUBSET Works /\ faults \in Nat
  BY FetchAssumption DEF IndInv, TypeOK, Walks, Due, Fresh
<1>2. /\ tpc = "save" /\ Ingest(Due, F) /\ TaskEnds(r)
      /\ known' = known \cup {AuthorOf[w] : w \in Due \ F}
      /\ UNCHANGED <<catalogue, changes, marked, fan, forced, stage, path, got, base, shaken,
                     orphaned, faults>>
  BY DEF Save, pixivVars, branchVars
<1> HIDE DEF r
<1>3. /\ stored' \subseteq Works /\ ledger' \subseteq Works
      /\ F \in SUBSET Works /\ Due \ F \in SUBSET Works
      /\ stored \cup ledger \subseteq stored' \cup ledger'
  BY <1>1, <1>2, IngestOK
<1>4. r \in Results
  BY <1>3 DEF r, Results
<1>5. /\ tpc' = "idle" /\ job' \in [kind : Kinds, force : BOOLEAN, min : Nat]
      /\ day' \in DOMAIN Lists /\ walk' \in Walks /\ report' = r /\ made' = Nothing
      /\ tasks' = tasks
  BY <1>1, <1>2, <1>4, TaskEndsTypes
<1>6. known' \subseteq Authors
  BY <1>1, <1>2, <1>3, FetchAssumption DEF TypeOK
<1>7. TypeOK'
  BY <1>1, <1>2, <1>3, <1>4, <1>5, <1>6, StartTypes DEF TypeOK
<1>8. QED
  BY <1>1, <1>2, <1>3, <1>5, <1>7, TaskOnlyKeeps DEF Nothing

LEMMA TaskFailsKeeps ==
    ASSUME IndInv, TaskFails
    PROVE  IndInv'
<1>1. TypeOK /\ faults \in Nat /\ MaxFaults \in Nat
  BY FetchAssumption DEF IndInv, TypeOK
<1>2. /\ tpc # "fan" /\ faults < MaxFaults /\ faults' = faults + 1 /\ TaskEnds(Nothing)
      /\ UNCHANGED <<catalogue, changes, stored, ledger, known, marked, fan, forced, stage, path,
                     got, base, shaken, orphaned>>
  BY DEF TaskFails, pixivVars, storeVars, branchVars
<1>3. /\ tpc' = "idle" /\ job' \in [kind : Kinds, force : BOOLEAN, min : Nat]
      /\ day' \in DOMAIN Lists /\ walk' \in Walks /\ report' = Nothing /\ made' = Nothing
      /\ tasks' = tasks
  BY <1>1, <1>2, TaskEndsTypes, StartTypes
<1>4. faults' \in 0..MaxFaults
  BY <1>1, <1>2
<1>5. TypeOK'
  BY <1>1, <1>2, <1>3, <1>4, StartTypes DEF TypeOK
<1>6. QED
  BY <1>1, <1>2, <1>3, <1>5, TaskOnlyKeeps

\* A fan-out finds a slot that no branch is left in: every other slot in use
\* has cost a failure.
LEMMA FanOutKeeps ==
    ASSUME IndInv, FanOut
    PROVE  IndInv'
<1> DEFINE new == CHOOSE f \in Fans : \A a \in Authors : stage[<<f, a>>] = "none"
<1>1. /\ tpc = "list" /\ tpc' = "fan" /\ fan' = new
      /\ forced' = IF job.force THEN forced \cup {new} ELSE forced
      /\ stage' = [b \in Branches |-> IF b[1] = new /\ b[2] \in Named THEN "gate" ELSE stage[b]]
      /\ UNCHANGED <<catalogue, changes, stored, ledger, known, marked, job, day, walk, report,
                     tasks, path, got, base, shaken, made, orphaned, faults>>
  BY DEF FanOut, pixivVars, storeVars, historyVars
<1>2. TypeOK /\ faults \in Nat /\ faults <= MaxFaults /\ MaxFaults \in Nat
  BY FetchAssumption DEF IndInv, TypeOK
<1>3. new \in Fans /\ \A a \in Authors : stage[<<new, a>>] = "none"
  <2>1. Cardinality(orphaned) \in Nat /\ Cardinality(orphaned) <= MaxFaults
    <3>1. Cardinality(orphaned) \in Nat /\ Cardinality(orphaned) <= faults
      BY <1>2, SlotsCount DEF IndInv, TypeOK, SlotsOK
    <3>2. QED
      BY <1>2, <3>1
  <2>2. PICK f \in Fans : f \notin orphaned
    BY <1>2, <2>1, SlotsCount DEF TypeOK
  <2>3. ASSUME NEW a \in Authors PROVE stage[<<f, a>>] = "none"
    <3>1. <<f, a>> \in Branches /\ Orphan(f)
      BY <1>1 DEF Branches, Orphan
    <3>2. QED
      BY <2>2, <3>1 DEF IndInv, BranchOK
  <2>4. QED
    BY <2>3
<1> HIDE DEF new
<1>4. ASSUME NEW b \in Branches, b[1] = new
      PROVE  stage[b] = "none" /\ path[b] = NewWalk /\ got[b] = Nothing
  <2>1. b = <<new, b[2]>> /\ b[2] \in Authors
    BY <1>4 DEF Branches
  <2>2. stage[b] = "none"
    BY <1>3, <2>1
  <2>3. QED
    BY <2>2 DEF IndInv, WalkOK, BranchOK
<1>5. ASSUME NEW b \in Branches PROVE WalkOK(b)' /\ BranchOK(b)'
  <2>1. CASE b[1] = new
    <3>1. stage'[b] \in {"none", "gate"} /\ path'[b] = NewWalk /\ got'[b] = Nothing
      BY <1>1, <1>4, <2>1
    <3>2. ~Orphan(b[1])'
      BY <1>1, <2>1 DEF Orphan
    <3>3. QED
      BY <3>1, <3>2 DEF WalkOK, BranchOK
  <2>2. CASE b[1] # new
    <3>1. stage'[b] = stage[b] /\ Orphan(b[1])
      BY <1>1, <2>2 DEF Orphan
    <3>2. QED
      BY <1>1, <3>1, WalkStays, BranchStays DEF IndInv
  <2>3. QED
    BY <2>1, <2>2
<1>6. TypeOK'
  <2>1. stage' \in [Branches -> Stages]
    BY <1>1, <1>2 DEF TypeOK, Stages
  <2>2. QED
    BY <1>1, <1>2, <1>3, <2>1 DEF TypeOK
<1>7. ReportOK'
  BY <1>1, IdleReport DEF IndInv, ReportOK
<1>8. QED
  BY <1>1, <1>5, <1>6, <1>7 DEF IndInv, SlotsOK

LEMMA FlattenOK ==
    ASSUME TypeOK
    PROVE  Flatten \in Results
<1>1. \A b \in Mine : got[b] \in Results
  BY DEF TypeOK, Mine
<1>2. /\ UNION {got[b].new : b \in Mine} \subseteq Works
      /\ UNION {got[b].lost : b \in Mine} \subseteq Works
  BY <1>1 DEF Results
<1>3. report.new \subseteq Works /\ report.lost \subseteq Works
  BY DEF TypeOK, Results
<1>4. QED
  BY <1>2, <1>3 DEF Flatten, Results

\* The task leaves its fan-out, and the branches of it are gone.
LEMMA LeaveKeeps ==
    ASSUME IndInv, TypeOK', NEW B \in SUBSET Branches, Dissolve(B),
           tpc' # "fan", tpc = "fan" => B = Mine,
           UNCHANGED <<catalogue, stored, ledger, fan, orphaned>>, faults <= faults',
           made'.new \subseteq report'.new /\ made'.lost \subseteq report'.lost
    PROVE  IndInv'
<1>1. TypeOK
  BY DEF IndInv
<1>2. /\ \A b \in B : stage'[b] = "none" /\ path'[b] = NewWalk /\ got'[b] = Nothing
      /\ \A b \in Branches \ B :
           /\ stage'[b] = stage[b] /\ path'[b] = path[b] /\ got'[b] = got[b]
           /\ base'[b] = base[b] /\ (b \in shaken' <=> b \in shaken)
  BY <1>1, DissolveOK
<1>3. ASSUME NEW b \in Branches PROVE WalkOK(b)' /\ BranchOK(b)'
  <2>1. CASE b \in B
    BY <1>2, <2>1, GoneIsOK
  <2>2. CASE b \notin B
    <3>1. WalkOK(b)'
      BY <1>2, <2>2, WalkStays DEF IndInv
    <3>2. stage[b] # "none" => Orphan(b[1])
      BY <2>2 DEF Mine, Orphan
    <3>3. BranchOK(b)'
      BY <1>2, <2>2, <3>2, BranchStays DEF IndInv
    <3>4. QED
      BY <3>1, <3>3
  <2>3. QED
    BY <2>1, <2>2
<1>4. ReportOK'
  BY DEF ReportOK
<1>5. SlotsOK'
  <2>1. Cardinality(orphaned) \in Nat
    BY <1>1, SlotsCount DEF TypeOK
  <2>2. faults \in Nat /\ faults' \in Nat
    BY <1>1, FetchAssumption DEF TypeOK
  <2>3. QED
    BY <2>1, <2>2 DEF IndInv, SlotsOK
<1>6. QED
  BY <1>3, <1>4, <1>5 DEF IndInv

LEMMA GatheredKeeps ==
    ASSUME IndInv, Gathered
    PROVE  IndInv'
<1>1. TypeOK /\ Mine \in SUBSET Branches /\ faults <= faults
  BY FetchAssumption DEF IndInv, TypeOK, Mine
<1>2. /\ tpc = "fan" /\ NextList(Flatten) /\ Dissolve(Mine)
      /\ UNCHANGED <<catalogue, changes, stored, ledger, known, marked, fan, orphaned, faults>>
  BY DEF Gathered, pixivVars, storeVars
<1>3. /\ tpc' \in {"idle", "list"} /\ job' \in [kind : Kinds, force : BOOLEAN, min : Nat]
      /\ day' \in DOMAIN Lists /\ walk' \in Walks /\ report' = Flatten
      /\ made' \in {made, Nothing} /\ tasks' = tasks
  BY <1>1, <1>2, FlattenOK, NextListTypes
<1>4. TypeOK'
  BY <1>1, <1>2, <1>3, FlattenOK, DissolveOK, StartTypes DEF TypeOK
<1>5. made.new \subseteq Flatten.new /\ made.lost \subseteq Flatten.lost
  BY <1>2 DEF IndInv, ReportOK, Flatten
<1>6. made'.new \subseteq report'.new /\ made'.lost \subseteq report'.lost
  BY <1>3, <1>5 DEF Nothing
<1>7. QED
  BY <1>1, <1>2, <1>3, <1>4, <1>6, LeaveKeeps

LEMMA TimeoutKeeps ==
    ASSUME IndInv, Timeout
    PROVE  IndInv'
<1> DEFINE B == IF tpc = "fan" THEN Mine ELSE {}
<1>1. /\ TypeOK /\ B \in SUBSET Branches /\ (tpc = "fan" => B = Mine)
      /\ faults \in Nat /\ MaxFaults \in Nat
  BY FetchAssumption DEF IndInv, TypeOK, Mine
<1>2. /\ faults < MaxFaults /\ faults' = faults + 1 /\ TaskEnds(Nothing) /\ Dissolve(B)
      /\ UNCHANGED <<catalogue, changes, stored, ledger, known, marked, fan, orphaned>>
  BY DEF Timeout, CancelBranches, pixivVars, storeVars
<1> HIDE DEF B
<1>3. /\ tpc' = "idle" /\ job' \in [kind : Kinds, force : BOOLEAN, min : Nat]
      /\ day' \in DOMAIN Lists /\ walk' \in Walks /\ report' = Nothing /\ made' = Nothing
      /\ tasks' = tasks
  BY <1>1, <1>2, TaskEndsTypes, StartTypes
<1>4. faults' \in 0..MaxFaults /\ faults <= faults'
  BY <1>1, <1>2
<1>5. TypeOK'
  BY <1>1, <1>2, <1>3, <1>4, DissolveOK, StartTypes DEF TypeOK
<1>6. QED
  BY <1>1, <1>2, <1>3, <1>4, <1>5, LeaveKeeps

----------------------------------------------------------------------------
(* Each step keeps the invariant: a branch *)

\* A step that one branch takes by itself.
LEMMA OneMoves ==
    ASSUME IndInv, TypeOK', NEW b \in Branches, stage[b] # "none", UNCHANGED <<catalogue, fan>>,
           \A c \in Branches \ {b} :
             /\ stage'[c] = stage[c] /\ path'[c] = path[c] /\ got'[c] = got[c]
             /\ base'[c] = base[c] /\ (c \notin shaken' => c \notin shaken),
           stored \cup ledger \subseteq stored' \cup ledger',
           WalkOK(b)',
           stage'[b] \in {"none", "gate", "follow", "collect", "ingest"} => got'[b] = Nothing,
           orphaned \subseteq orphaned',
           \A f \in Fans : Orphan(f)' => Orphan(f) \/ f \in orphaned',
           ReportOK', SlotsOK'
    PROVE  IndInv'
<1>1. ASSUME NEW c \in Branches PROVE WalkOK(c)' /\ BranchOK(c)'
  <2>1. c[1] \in Fans /\ (stage[c] # "none" => ~Orphan(c[1]) \/ c[1] \in orphaned)
    BY DEF Branches, IndInv, BranchOK
  <2>2. stage[c] # "none" => ~Orphan(c[1])' \/ c[1] \in orphaned'
    BY <2>1
  <2>3. CASE c = b
    BY <2>2, <2>3 DEF BranchOK
  <2>4. CASE c # b
    <3>1. WalkOK(c)'
      BY <2>4, WalkStays DEF IndInv
    <3>2. BranchOK(c)'
      BY <2>2, <2>4 DEF IndInv, BranchOK
    <3>3. QED
      BY <3>1, <3>2
  <2>5. QED
    BY <2>3, <2>4
<1>2. QED
  BY <1>1 DEF IndInv

\* ... which leaves the task, its report and every result as they are.
LEMMA StageMoves ==
    ASSUME IndInv, TypeOK', NEW b \in Branches, stage[b] # "none",
           UNCHANGED <<catalogue, stored, ledger, tpc, report, fan, got, made, orphaned, faults>>,
           NEW to, to # "none", Goes(b, to),
           \A c \in Branches \ {b} :
             path'[c] = path[c] /\ base'[c] = base[c] /\ (c \notin shaken' => c \notin shaken),
           WalkOK(b)',
           to \in {"gate", "follow", "collect", "ingest"} => got[b] = Nothing
    PROVE  IndInv'
<1>1. stage \in [Branches -> Stages]
  BY DEF IndInv, TypeOK
<1>2. /\ stage'[b] = to
      /\ \A c \in Branches \ {b} : stage'[c] = stage[c]
  BY <1>1 DEF Goes
<1>3. Mine' = Mine
  BY <1>2 DEF Mine
<1>4. ReportOK'
  BY <1>3 DEF IndInv, ReportOK
<1>5. SlotsOK'
  BY DEF IndInv, SlotsOK
<1>6. \A f \in Fans : Orphan(f)' => Orphan(f)
  BY DEF Orphan
<1>7. QED
  BY <1>2, <1>4, <1>5, <1>6, OneMoves

\* A slot given back, and one taken.
LEMMA SlotBack ==
    ASSUME IndInv, NEW f, orphaned' = orphaned \ {f}, faults <= faults', faults' \in Nat
    PROVE  SlotsOK'
<1>1. /\ orphaned \subseteq Fans /\ orphaned' \subseteq Fans /\ orphaned' \subseteq orphaned
      /\ faults \in Nat /\ Cardinality(orphaned) <= faults
  BY FetchAssumption DEF IndInv, TypeOK, SlotsOK
<1>2. IsFiniteSet(orphaned) /\ Cardinality(orphaned) \in Nat /\ Cardinality(orphaned') \in Nat
  BY <1>1, SlotsCount
<1>3. Cardinality(orphaned') <= Cardinality(orphaned)
  BY <1>1, <1>2, FS_Subset
<1>4. QED
  BY <1>1, <1>2, <1>3 DEF SlotsOK

LEMMA SlotTaken ==
    ASSUME IndInv, NEW f, orphaned' = orphaned \cup {f}, faults' = faults + 1
    PROVE  SlotsOK'
<1>1. orphaned \subseteq Fans /\ faults \in Nat /\ Cardinality(orphaned) <= faults
  BY FetchAssumption DEF IndInv, TypeOK, SlotsOK
<1>2. IsFiniteSet(orphaned) /\ Cardinality(orphaned) \in Nat
  BY <1>1, SlotsCount
<1>3. Cardinality(orphaned') = IF f \in orphaned THEN Cardinality(orphaned)
                               ELSE Cardinality(orphaned) + 1
  BY <1>2, FS_AddElement
<1>4. QED
  BY <1>1, <1>2, <1>3 DEF SlotsOK

\* The last branch of a fan-out that nobody awaits takes it with it.
LEMMA FanGone ==
    ASSUME IndInv, TypeOK', NEW b \in Branches,
           Dissolve({c \in Branches : c[1] = b[1]}), orphaned' = orphaned \ {b[1]},
           UNCHANGED <<catalogue, stored, ledger, fan>>, faults <= faults',
           \/ Orphan(b[1]) /\ UNCHANGED <<tpc, report, made>>
           \/ /\ ~Orphan(b[1]) /\ tpc' = "idle"
              /\ made'.new \subseteq report'.new /\ made'.lost \subseteq report'.lost
    PROVE  IndInv'
<1> DEFINE B == {c \in Branches : c[1] = b[1]}
<1>1. TypeOK /\ B \in SUBSET Branches
  BY DEF IndInv
<1>2. /\ \A c \in B : stage'[c] = "none" /\ path'[c] = NewWalk /\ got'[c] = Nothing
      /\ \A c \in Branches \ B :
           /\ stage'[c] = stage[c] /\ path'[c] = path[c] /\ got'[c] = got[c]
           /\ base'[c] = base[c] /\ (c \in shaken' <=> c \in shaken)
  BY <1>1, DissolveOK
<1>3. ASSUME NEW c \in Branches PROVE WalkOK(c)' /\ BranchOK(c)'
  <2>1. CASE c \in B
    BY <1>2, <2>1, GoneIsOK
  <2>2. CASE c \notin B
    <3>1. WalkOK(c)'
      BY <1>2, <2>2, WalkStays DEF IndInv
    <3>2. c[1] # b[1] /\ (c[1] \in orphaned' <=> c[1] \in orphaned)
      BY <2>2
    <3>3. Orphan(c[1])' /\ stage[c] # "none" => c[1] \in orphaned
      BY <3>2 DEF IndInv, BranchOK, Orphan
    <3>4. BranchOK(c)'
      BY <1>2, <2>2, <3>2, <3>3 DEF IndInv, BranchOK
    <3>5. QED
      BY <3>1, <3>4
  <2>3. QED
    BY <2>1, <2>2
<1>4. ReportOK'
  <2>1. CASE tpc' # "fan"
    <3>1. made'.new \subseteq report'.new /\ made'.lost \subseteq report'.lost
      BY <2>1, IdleReport DEF IndInv
    <3>2. QED
      BY <2>1, <3>1 DEF ReportOK
  <2>2. CASE tpc' = "fan"
    <3>1. Orphan(b[1]) /\ UNCHANGED <<tpc, report, made>>
      BY <2>2
    <3>2. fan # b[1]
      BY <2>2, <3>1 DEF Orphan
    <3>3. \A c \in Branches : c[1] = fan => c \in Branches \ B
      BY <3>2
    <3>4. Mine' = Mine
      BY <1>2, <3>3 DEF Mine
    <3>5. \A c \in Mine : got'[c] = got[c]
      BY <1>2, <3>3 DEF Mine
    <3>6. QED
      BY <2>2, <3>1, <3>4, <3>5 DEF IndInv, ReportOK
  <2>3. QED
    BY <2>1, <2>2
<1>5. SlotsOK'
  <2>1. faults' \in Nat
    BY FetchAssumption DEF TypeOK
  <2>2. QED
    BY <2>1, SlotBack
<1>6. QED
  BY <1>3, <1>4, <1>5 DEF IndInv

\* A branch that comes back, done.
LEMMA EndsKeeps ==
    ASSUME IndInv, NEW b \in Branches, stage[b] # "none", Ends(b, "done"),
           UNCHANGED <<pixivVars, storeVars, taskVars, fan, made, faults>>
    PROVE  IndInv'
<1>1. /\ TypeOK /\ {c \in Branches : c[1] = b[1]} \in SUBSET Branches /\ faults <= faults
      /\ UNCHANGED <<catalogue, changes, stored, ledger, known, marked, tpc, job, day, walk,
                     report, tasks, fan, made, faults>>
  BY FetchAssumption DEF IndInv, TypeOK, pixivVars, storeVars, taskVars
<1>2. CASE Orphan(b[1]) /\ LastLive(b)
  <2>1. Dissolve({c \in Branches : c[1] = b[1]}) /\ orphaned' = orphaned \ {b[1]}
    BY <1>2 DEF Ends
  <2>2. TypeOK'
    BY <1>1, <2>1, DissolveOK DEF TypeOK
  <2>3. QED
    BY <1>1, <1>2, <2>1, <2>2, FanGone
<1>3. CASE ~(Orphan(b[1]) /\ LastLive(b))
  <2>1. Goes(b, "done") /\ UNCHANGED <<forced, path, got, base, shaken, orphaned>>
    BY <1>3 DEF Ends
  <2>2. stage' \in [Branches -> Stages] /\ stage'[b] = "done"
    BY <1>1, <2>1 DEF TypeOK, Stages, Goes
  <2>3. TypeOK'
    BY <1>1, <2>1, <2>2 DEF TypeOK
  <2>4. WalkOK(b)'
    BY <2>2 DEF WalkOK
  <2>5. QED
    BY <1>1, <2>1, <2>3, <2>4, StageMoves
<1>4. QED
  BY <1>2, <1>3

LEMMA PlanKeeps ==
    ASSUME IndInv, NEW b \in Branches, Plan(b)
    PROVE  IndInv'
<1>1. /\ TypeOK /\ stage[b] = "gate" /\ path[b] = NewWalk /\ got[b] = Nothing
      /\ UNCHANGED <<pixivVars, storeVars, taskVars, fan, made, faults>>
  BY DEF IndInv, WalkOK, BranchOK, Plan
<1>2. CASE b[2] \in marked /\ b[1] \notin forced
  BY <1>1, <1>2, EndsKeeps DEF Plan
<1>3. CASE ~(b[2] \in marked /\ b[1] \notin forced)
  <2> DEFINE to == IF b[2] \in known THEN "collect" ELSE "follow"
  <2>1. Goes(b, to) /\ UNCHANGED <<forced, path, got, base, shaken, orphaned>>
    BY <1>3 DEF Plan
  <2>2. UNCHANGED <<catalogue, changes, stored, ledger, known, marked, tpc, job, day, walk,
                    report, tasks, fan, made, faults>>
    BY <1>1 DEF pixivVars, storeVars, taskVars
  <2>3. to \in {"collect", "follow"}
    OBVIOUS
  <2> HIDE DEF to
  <2>4. stage' \in [Branches -> Stages] /\ stage'[b] = to
    BY <1>1, <2>1, <2>3 DEF TypeOK, Stages, Goes
  <2>5. TypeOK'
    BY <1>1, <2>1, <2>2, <2>4 DEF TypeOK
  <2>6. WalkOK(b)'
    BY <1>1, <2>1, <2>3, <2>4, FetchAssumption DEF WalkOK, NewWalk
  <2>7. QED
    BY <1>1, <2>1, <2>2, <2>3, <2>5, <2>6, StageMoves
<1>4. QED
  BY <1>2, <1>3

LEMMA FollowAddKeeps ==
    ASSUME IndInv, NEW b \in Branches, FollowAdd(b)
    PROVE  IndInv'
<1>1. /\ TypeOK /\ stage[b] = "follow" /\ path[b] = NewWalk /\ got[b] = Nothing
      /\ Goes(b, "collect")
      /\ UNCHANGED <<catalogue, changes, stored, ledger, known, marked, tpc, job, day, walk,
                     report, tasks, fan, forced, path, got, base, shaken, made, orphaned, faults>>
  BY DEF IndInv, WalkOK, BranchOK, FollowAdd, pixivVars, storeVars, taskVars, historyVars
<1>2. stage' \in [Branches -> Stages] /\ stage'[b] = "collect"
  BY <1>1 DEF TypeOK, Stages, Goes
<1>3. TypeOK'
  BY <1>1, <1>2 DEF TypeOK
<1>4. WalkOK(b)'
  BY <1>1, <1>2, FetchAssumption DEF WalkOK, NewWalk
<1>5. QED
  BY <1>1, <1>3, <1>4, StageMoves

\* The walk of a branch: what it began with is behind it or before it.
LEMMA FetchPageKeeps ==
    ASSUME IndInv, NEW b \in Branches, FetchPage(b)
    PROVE  IndInv'
<1> DEFINE list == catalogue[b[2]]
           p == Page(path[b], list, TRUE, 0)
           to == IF p.open THEN "collect" ELSE "ingest"
           start == IF path[b].page = 0 THEN Range(list) ELSE base[b]
<1>1. /\ TypeOK /\ stage[b] = "collect" /\ got[b] = Nothing /\ WalkOK(b)
      /\ path[b] \in Walks /\ list \in Seq(Works) /\ path[b].page < MaxPages
  <2>1. b[2] \in Authors
    BY DEF Branches
  <2>2. QED
    BY <2>1 DEF IndInv, TypeOK, WalkOK, BranchOK, FetchPage
<1>2. p \in Walks
  BY <1>1, PageType
<1>3. /\ p.page # 0
      /\ path[b].seen \cup Rest(list, path[b].at) \subseteq p.seen \cup Rest(list, p.at)
      /\ p.open => p.page < MaxPages
      /\ ~p.open /\ ~p.cut => path[b].seen \cup Rest(list, path[b].at) \subseteq p.seen
  BY <1>1, FullPage
<1>4. Range(list) \subseteq Works /\ Range(list) = Rest(list, 0)
  BY <1>1 DEF Range, Rest
<1>5. /\ path' = [path EXCEPT ![b] = p]
      /\ Goes(b, to)
      /\ base' = [base EXCEPT ![b] = start]
      /\ UNCHANGED <<catalogue, changes, stored, ledger, known, marked, tpc, job, day, walk,
                     report, tasks, fan, forced, got, shaken, made, orphaned, faults>>
  <2>1. path' = [path EXCEPT ![b] = p]
    BY DEF FetchPage
  <2>2. path'[b] = p
    BY <1>1, <2>1 DEF TypeOK
  <2>3. QED
    BY <2>1, <2>2 DEF FetchPage, pixivVars, storeVars, taskVars
<1>6. b \notin shaken => start \subseteq path[b].seen \cup Rest(list, path[b].at)
  <2>1. CASE path[b].page = 0
    <3>1. path[b].at = 0
      BY <1>1, <2>1 DEF WalkOK, NewWalk
    <3>2. QED
      BY <1>4, <2>1, <3>1
  <2>2. CASE path[b].page # 0
    BY <1>1, <2>2 DEF WalkOK
  <2>3. QED
    BY <2>1, <2>2
<1>7. start \in SUBSET Works
  BY <1>1, <1>4 DEF TypeOK
<1>8. to \in {"collect", "ingest"} /\ (to = "collect" <=> p.open)
  OBVIOUS
<1> HIDE DEF p, to, start
<1>9. /\ stage' \in [Branches -> Stages] /\ stage'[b] = to
      /\ path' \in [Branches -> Walks] /\ path'[b] = p
      /\ base' \in [Branches -> SUBSET Works] /\ base'[b] = start
      /\ \A c \in Branches \ {b} : path'[c] = path[c] /\ base'[c] = base[c]
  BY <1>1, <1>2, <1>5, <1>7, <1>8 DEF TypeOK, Stages, Goes
<1>10. TypeOK'
  BY <1>1, <1>5, <1>9 DEF TypeOK
<1>11. WalkOK(b)'
  BY <1>3, <1>5, <1>6, <1>8, <1>9 DEF WalkOK
<1>12. QED
  BY <1>1, <1>5, <1>8, <1>9, <1>10, <1>11, StageMoves

LEMMA MarkKeeps ==
    ASSUME IndInv, NEW b \in Branches, Mark(b)
    PROVE  IndInv'
<1>1. /\ TypeOK /\ stage[b] = "mark" /\ b[2] \in Authors
      /\ marked' = IF b[2] \in known THEN marked \cup {b[2]} ELSE marked
      /\ path' = [path EXCEPT ![b] = NewWalk] /\ base' = [base EXCEPT ![b] = {}]
      /\ shaken' = shaken \ {b} /\ Goes(b, "names")
      /\ UNCHANGED <<catalogue, changes, stored, ledger, known, tpc, job, day, walk,
                     report, tasks, fan, forced, got, made, orphaned, faults>>
  BY DEF IndInv, Branches, Mark, pixivVars, taskVars
<1>2. /\ stage' \in [Branches -> Stages] /\ stage'[b] = "names"
      /\ path' \in [Branches -> Walks] /\ base' \in [Branches -> SUBSET Works]
      /\ \A c \in Branches \ {b} : path'[c] = path[c] /\ base'[c] = base[c]
  BY <1>1, StartTypes DEF TypeOK, Stages, Goes
<1>3. marked' \subseteq Authors /\ shaken' \subseteq Branches
  BY <1>1 DEF TypeOK
<1>4. TypeOK'
  BY <1>1, <1>2, <1>3 DEF TypeOK
<1>5. WalkOK(b)'
  BY <1>2 DEF WalkOK
<1>6. QED
  BY <1>1, <1>2, <1>4, <1>5, StageMoves

LEMMA ResolveNameKeeps ==
    ASSUME IndInv, NEW b \in Branches, ResolveName(b)
    PROVE  IndInv'
BY EndsKeeps DEF ResolveName

\* What a branch ingests is handled before it is marked, and is in its result
\* when it is in what the task has made.
LEMMA IngestBranchKeeps ==
    ASSUME IndInv, NEW b \in Branches, NEW F, IngestBranch(b, F)
    PROVE  IndInv'
<1> DEFINE W == path[b].seen
           r == [new |-> Fresh(W) \ F, lost |-> F]
           counts == b \in Mine /\ tpc = "fan"
<1>1. /\ TypeOK /\ stage[b] = "ingest" /\ got[b] = Nothing /\ WalkOK(b) /\ ReportOK
      /\ W \in SUBSET Works /\ b[2] \in Authors
  BY DEF IndInv, TypeOK, Walks, Branches, BranchOK, IngestBranch
<1>2. /\ Ingest(Fresh(W), F) /\ got' = [got EXCEPT ![b] = r]
      /\ Goes(b, "mark")
      /\ UNCHANGED <<catalogue, changes, marked, tpc, job, day, walk, report, tasks, fan, forced,
                     path, base, shaken, orphaned, faults>>
  BY DEF IngestBranch, pixivVars, taskVars
<1>3. got'[b] = r /\ \A c \in Branches \ {b} : got'[c] = got[c]
  BY <1>1, <1>2 DEF TypeOK
<1>4. /\ made' = IF counts THEN [new |-> made.new \cup r.new, lost |-> made.lost \cup r.lost]
                  ELSE made
      /\ known' \in {known, known \cup {b[2]}}
  BY <1>3 DEF IngestBranch
<1>5. /\ stored' \subseteq Works /\ ledger' \subseteq Works
      /\ F \in SUBSET Works /\ Fresh(W) \ F \in SUBSET Works
      /\ stored \cup ledger \subseteq stored' \cup ledger'
      /\ W \cap Chinese \subseteq stored' \cup ledger'
  <2>1. Fresh(W) \in SUBSET Works /\ W \cap Chinese \subseteq Fresh(W) \cup stored
    BY <1>1 DEF Fresh
  <2>2. QED
    BY <1>1, <1>2, <2>1, IngestOK
<1>6. r \in Results
  BY <1>5 DEF Results
<1> HIDE DEF W, r, counts
<1>7. /\ stage' \in [Branches -> Stages] /\ stage'[b] = "mark"
      /\ \A c \in Branches \ {b} : stage'[c] = stage[c]
      /\ got' \in [Branches -> Results]
  BY <1>1, <1>2, <1>6 DEF TypeOK, Stages, Goes
<1>8. made' \in Results
  <2>1. made \in Results /\ made.new \cup r.new \subseteq Works
        /\ made.lost \cup r.lost \subseteq Works
    BY <1>1, <1>6 DEF TypeOK, Results
  <2>2. QED
    BY <1>4, <2>1 DEF Results
<1>9. TypeOK'
  BY <1>1, <1>2, <1>4, <1>5, <1>7, <1>8 DEF TypeOK
<1>10. WalkOK(b)'
  <2>1. b \notin shaken /\ ~path[b].cut => base[b] \subseteq W
    BY <1>1 DEF WalkOK, W
  <2>2. QED
    BY <1>2, <1>5, <1>7, <2>1 DEF WalkOK
<1>11. ReportOK'
  <2> DEFINE S == IF tpc = "fan" THEN Mine ELSE {}
  <2>1. Mine' = Mine
    BY <1>1, <1>2, <1>7 DEF Mine
  <2>2. counts <=> b \in S
    BY DEF counts
  <2>3. S \subseteq Branches
    BY DEF Mine
  <2>4. /\ made.new \subseteq report.new \cup UNION {got[c].new : c \in S}
        /\ made.lost \subseteq report.lost \cup UNION {got[c].lost : c \in S}
    BY <1>1 DEF ReportOK
  <2>5. ReportOK' <=>
        /\ made'.new \subseteq report.new \cup UNION {got'[c].new : c \in S}
        /\ made'.lost \subseteq report.lost \cup UNION {got'[c].lost : c \in S}
    BY <1>2, <2>1 DEF ReportOK
  <2> HIDE DEF S
  <2>6. \A c \in S : got[c].new \subseteq got'[c].new /\ got[c].lost \subseteq got'[c].lost
    BY <1>1, <1>3, <2>3 DEF Nothing
  <2>7. /\ UNION {got[c].new : c \in S} \subseteq UNION {got'[c].new : c \in S}
        /\ UNION {got[c].lost : c \in S} \subseteq UNION {got'[c].lost : c \in S}
    BY <2>6
  <2>8. b \in S => /\ r.new \subseteq UNION {got'[c].new : c \in S}
                   /\ r.lost \subseteq UNION {got'[c].lost : c \in S}
    BY <1>3
  <2>9. CASE counts
    <3>1. made'.new = made.new \cup r.new /\ made'.lost = made.lost \cup r.lost
      BY <1>4, <2>9
    <3>2. QED
      BY <2>2, <2>4, <2>5, <2>7, <2>8, <2>9, <3>1
  <2>10. CASE ~counts
    BY <1>4, <2>4, <2>5, <2>7, <2>10
  <2>11. QED
    BY <2>9, <2>10
<1>12. SlotsOK' /\ \A f \in Fans : Orphan(f)' => Orphan(f)
  BY <1>2 DEF IndInv, SlotsOK, Orphan
<1>13. QED
  BY <1>1, <1>2, <1>3, <1>5, <1>7, <1>9, <1>10, <1>11, <1>12, OneMoves

\* A branch that raises: the fan-out is over, or runs on without its task.
LEMMA BranchFailsKeeps ==
    ASSUME IndInv, NEW b \in Branches, BranchFails(b)
    PROVE  IndInv'
<1> DEFINE B == {c \in Branches : c[1] = b[1]}
           f == b[1]
<1>1. /\ TypeOK /\ B \in SUBSET Branches /\ f \in Fans /\ stage[b] # "none"
      /\ (Orphan(f) => f \in orphaned)
      /\ faults \in Nat /\ MaxFaults \in Nat /\ faults < MaxFaults /\ faults' = faults + 1
      /\ UNCHANGED <<catalogue, changes, stored, ledger, known, marked, fan>>
  <2>1. TypeOK /\ BranchOK(b) /\ f \in Fans
    BY DEF IndInv, Branches
  <2>2. /\ stage[b] \in Running /\ faults < MaxFaults /\ faults' = faults + 1
        /\ UNCHANGED <<catalogue, changes, stored, ledger, known, marked, fan>>
    BY DEF BranchFails, pixivVars, storeVars
  <2>3. stage[b] # "none"
    BY <2>2 DEF Running
  <2>4. faults \in Nat /\ MaxFaults \in Nat
    BY <2>1, FetchAssumption DEF TypeOK
  <2>5. QED
    BY <2>1, <2>2, <2>3, <2>4 DEF BranchOK
<1>2. faults' \in 0..MaxFaults /\ faults <= faults'
  BY <1>1
<1>3. /\ job' \in [kind : Kinds, force : BOOLEAN, min : Nat] /\ tpc' \in {"idle", tpc}
      /\ day' \in DOMAIN Lists /\ walk' \in Walks /\ report' \in Results
      /\ made' \in Results /\ tasks' = tasks
      /\ Orphan(f) => UNCHANGED <<tpc, report, made>>
      /\ ~Orphan(f) => tpc' = "idle" /\ report' = Nothing /\ made' = Nothing
  <2>1. CASE Orphan(f)
    <3>1. UNCHANGED <<tpc, job, day, walk, report, tasks, made>>
      BY <2>1 DEF BranchFails, taskVars
    <3>2. QED
      BY <1>1, <2>1, <3>1 DEF TypeOK
  <2>2. CASE ~Orphan(f)
    <3>1. TaskEnds(Nothing)
      BY <2>2 DEF BranchFails
    <3>2. QED
      BY <1>1, <2>2, <3>1, TaskEndsTypes, StartTypes
  <2>3. QED
    BY <2>1, <2>2
<1>4. CASE LastLive(b)
  <2>1. Dissolve(B) /\ orphaned' = orphaned \ {f}
    BY <1>4 DEF BranchFails
  <2>2. TypeOK'
    BY <1>1, <1>2, <1>3, <2>1, DissolveOK DEF TypeOK
  <2>3. ~Orphan(f) => made'.new \subseteq report'.new /\ made'.lost \subseteq report'.lost
    BY <1>3
  <2>4. QED
    BY <1>1, <1>2, <1>3, <2>1, <2>2, <2>3, FanGone
<1>5. CASE ~LastLive(b)
  <2>1. /\ Goes(b, "failed") /\ orphaned' = orphaned \cup {f}
        /\ UNCHANGED <<forced, path, got, base, shaken>>
    BY <1>5 DEF BranchFails
  <2>2. /\ stage' \in [Branches -> Stages] /\ stage'[b] = "failed"
        /\ \A c \in Branches \ {b} : stage'[c] = stage[c]
    BY <1>1, <2>1 DEF TypeOK, Stages, Goes
  <2>3. TypeOK'
    BY <1>1, <1>2, <1>3, <2>1, <2>2 DEF TypeOK
  <2>4. WalkOK(b)'
    BY <2>2 DEF WalkOK
  <2>5. \A g \in Fans : Orphan(g)' => Orphan(g) \/ g \in orphaned'
    BY <1>1, <1>3, <2>1 DEF Orphan
  <2>6. SlotsOK'
    BY <1>1, <2>1, SlotTaken
  <2>7. ReportOK'
    <3>1. CASE Orphan(f)
      <4>1. Mine' = Mine
        BY <1>1, <2>2 DEF Mine
      <4>2. QED
        BY <1>3, <2>1, <3>1, <4>1 DEF IndInv, ReportOK
    <3>2. CASE ~Orphan(f)
      BY <1>3, <3>2 DEF ReportOK, Nothing
    <3>3. QED
      BY <3>1, <3>2
  <2>8. QED
    BY <1>1, <2>1, <2>2, <2>3, <2>4, <2>5, <2>6, <2>7, OneMoves
<1>6. QED
  BY <1>4, <1>5

----------------------------------------------------------------------------
(* Each step keeps the invariant: Pixiv and time *)

LEMMA PublishKeeps ==
    ASSUME IndInv, NEW w \in Works, Publish(w)
    PROVE  IndInv'
<1> DEFINE a == AuthorOf[w]
<1>1. /\ TypeOK /\ a \in Authors /\ catalogue[a] \in Seq(Works)
      /\ catalogue' = [catalogue EXCEPT ![a] = <<w>> \o catalogue[a]]
      /\ changes' = changes + 1
      /\ UNCHANGED <<stored, ledger, known, marked, tpc, job, day, walk, report, tasks, fan,
                     forced, stage, path, got, base, shaken, made, orphaned, faults>>
  BY FetchAssumption
     DEF IndInv, TypeOK, Publish, storeVars, taskVars, branchVars, historyVars
<1>2. ASSUME NEW c \in Authors, NEW at \in Nat
      PROVE  catalogue'[c] \in Seq(Works) /\ Rest(catalogue[c], at) \subseteq Rest(catalogue'[c], at)
  <2>1. CASE c = a
    <3>1. catalogue'[c] = <<w>> \o catalogue[c]
      BY <1>1, <2>1 DEF TypeOK
    <3>2. QED
      BY <1>1, <2>1, <3>1, PublishedRest
  <2>2. CASE c # a
    <3>1. catalogue'[c] = catalogue[c]
      BY <1>1, <2>2 DEF TypeOK
    <3>2. QED
      BY <1>1, <3>1 DEF TypeOK
  <2>3. QED
    BY <2>1, <2>2
<1>3. catalogue' \in [Authors -> Seq(Works)]
  <2>1. \A c \in Authors : catalogue'[c] \in Seq(Works)
    BY <1>2
  <2>2. QED
    BY <1>1, <2>1 DEF TypeOK
<1>4. TypeOK'
  BY <1>1, <1>3 DEF TypeOK
<1>5. ASSUME NEW b \in Branches PROVE WalkOK(b)' /\ BranchOK(b)'
  <2>1. b[2] \in Authors /\ path[b].at \in Nat
    BY <1>1 DEF Branches, TypeOK, Walks
  <2>2. Rest(catalogue[b[2]], path[b].at) \subseteq Rest(catalogue'[b[2]], path[b].at)
    BY <1>2, <2>1
  <2>3. WalkOK(b)'
    BY <1>1, <2>2 DEF IndInv, WalkOK
  <2>4. BranchOK(b)'
    BY <1>1, BranchStays DEF IndInv, Orphan
  <2>5. QED
    BY <2>3, <2>4
<1>6. ReportOK' /\ SlotsOK'
  BY <1>1 DEF IndInv, ReportOK, SlotsOK, Mine
<1>7. QED
  BY <1>4, <1>5, <1>6 DEF IndInv

LEMMA WithdrawKeeps ==
    ASSUME IndInv, NEW w \in Works, Withdraw(w)
    PROVE  IndInv'
<1> DEFINE a == AuthorOf[w]
           hit == {b \in Branches : b[2] = a /\ stage[b] = "collect"}
<1>1. PICK k \in DOMAIN catalogue[a] :
        catalogue' = [catalogue EXCEPT ![a] = RemoveAt(catalogue[a], k)]
  BY DEF Withdraw
<1>2. /\ TypeOK /\ a \in Authors /\ catalogue[a] \in Seq(Works)
      /\ shaken' = shaken \cup hit /\ changes' = changes + 1
      /\ UNCHANGED <<stored, ledger, known, marked, tpc, job, day, walk, report, tasks, fan,
                     forced, stage, path, got, base, made, orphaned, faults>>
  BY FetchAssumption DEF IndInv, TypeOK, Withdraw, storeVars, taskVars, branchVars
<1>3. RemoveAt(catalogue[a], k) \in Seq(Works)
  BY <1>2, RemoveAtType
<1>4. /\ catalogue' \in [Authors -> Seq(Works)]
      /\ \A c \in Authors \ {a} : catalogue'[c] = catalogue[c]
  BY <1>1, <1>2, <1>3 DEF TypeOK
<1>5. TypeOK'
  <2>1. shaken' \subseteq Branches
    BY <1>2 DEF TypeOK
  <2>2. QED
    BY <1>2, <1>4, <2>1 DEF TypeOK
<1>6. ASSUME NEW b \in Branches PROVE WalkOK(b)' /\ BranchOK(b)'
  <2>1. BranchOK(b)'
    BY <1>2, BranchStays DEF IndInv, Orphan
  <2>2. WalkOK(b)'
    <3>1. b[2] \in Authors
      BY DEF Branches
    <3>2. stage[b] = "collect" /\ b \notin shaken' => b[2] # a
      BY <1>2
    <3>3. stage[b] = "collect" /\ b \notin shaken' => catalogue'[b[2]] = catalogue[b[2]]
      BY <1>4, <3>1, <3>2
    <3>4. b \notin shaken' => b \notin shaken
      BY <1>2
    <3>5. QED
      BY <1>2, <3>3, <3>4 DEF IndInv, WalkOK
  <2>3. QED
    BY <2>1, <2>2
<1>7. ReportOK' /\ SlotsOK'
  BY <1>2 DEF IndInv, ReportOK, SlotsOK, Mine
<1>8. QED
  BY <1>5, <1>6, <1>7 DEF IndInv

LEMMA NewDayKeeps ==
    ASSUME IndInv, NEW a \in Authors, NewDay(a)
    PROVE  IndInv'
<1>1. /\ TypeOK /\ marked' = marked \ {a} /\ changes' = changes + 1
      /\ UNCHANGED <<catalogue, stored, ledger, known, tpc, job, day, walk, report, tasks, fan,
                     forced, stage, path, got, base, shaken, made, orphaned, faults>>
  BY DEF IndInv, NewDay, taskVars, branchVars, historyVars
<1>2. TypeOK'
  BY <1>1 DEF TypeOK
<1>3. ASSUME NEW b \in Branches PROVE WalkOK(b)' /\ BranchOK(b)'
  BY <1>1, WalkStays, BranchStays DEF IndInv, Orphan
<1>4. ReportOK' /\ SlotsOK'
  BY <1>1 DEF IndInv, ReportOK, SlotsOK, Mine
<1>5. QED
  BY <1>2, <1>3, <1>4 DEF IndInv

LEMMA StutterKeeps ==
    ASSUME IndInv, UNCHANGED vars
    PROVE  IndInv'
<1>1. /\ TypeOK
      /\ UNCHANGED <<catalogue, changes, stored, ledger, known, marked, tpc, job, day, walk,
                     report, tasks, fan, forced, stage, path, got, base, shaken, made, orphaned,
                     faults>>
  BY DEF IndInv, vars, pixivVars, storeVars, taskVars, branchVars, historyVars
<1>2. TypeOK'
  BY <1>1 DEF TypeOK
<1>3. ASSUME NEW b \in Branches PROVE WalkOK(b)' /\ BranchOK(b)'
  BY <1>1, WalkStays, BranchStays DEF IndInv, Orphan
<1>4. ReportOK' /\ SlotsOK'
  BY <1>1 DEF IndInv, ReportOK, SlotsOK, Mine
<1>5. QED
  BY <1>2, <1>3, <1>4 DEF IndInv

LEMMA NextKeeps ==
    ASSUME IndInv, [Next]_vars
    PROVE  IndInv'
<1>1. CASE StartRanking \/ StartSearch \/ StartFollow \/ StartSpecial
  BY <1>1, StartKeeps
<1>2. CASE TaskStep
  <2>1. CASE \/ FetchListPage \/ ListNamesNobody \/ FollowListed
             \/ \E S \in SUBSET Special : FetchSpecial(S)
    BY <2>1, ListingKeeps
  <2>2. CASE FanOut
    BY <2>2, FanOutKeeps
  <2>3. CASE Gathered
    BY <2>3, GatheredKeeps
  <2>4. CASE \E F \in SUBSET Fragile : Save(F)
    BY <2>4, SaveKeeps
  <2>5. CASE TaskFails
    BY <2>5, TaskFailsKeeps
  <2>6. CASE Timeout
    BY <2>6, TimeoutKeeps
  <2>7. QED
    BY <1>2, <2>1, <2>2, <2>3, <2>4, <2>5, <2>6 DEF TaskStep
<1>3. ASSUME NEW b \in Branches, BranchStep(b) PROVE IndInv'
  BY <1>3, PlanKeeps, FollowAddKeeps, FetchPageKeeps, MarkKeeps, ResolveNameKeeps,
     IngestBranchKeeps, BranchFailsKeeps DEF BranchStep
<1>4. CASE \E w \in Works : Publish(w) \/ Withdraw(w)
  BY <1>4, PublishKeeps, WithdrawKeeps
<1>5. CASE \E a \in Authors : NewDay(a)
  BY <1>5, NewDayKeeps
<1>6. CASE UNCHANGED vars
  BY <1>6, StutterKeeps
<1>7. QED
  BY <1>1, <1>2, <1>3, <1>4, <1>5, <1>6 DEF Next

----------------------------------------------------------------------------
(* What every behaviour of the fetch tasks has *)

\* The invariant holds of every reachable state, whatever is published,
\* withdrawn, cancelled or failed between two steps of a branch.
THEOREM FetchInvariance == Spec => []IndInv
BY InitEstablishes, NextKeeps, PTL DEF Spec

\* Every state of the fetch tasks has its type.
THEOREM FetchTypes == Spec => []TypeOK
<1>1. IndInv => TypeOK
  BY DEF IndInv
<1>2. QED
  BY <1>1, FetchInvariance, PTL

\* gather and the kernel's cancellation: a branch that runs or waits at the gate
\* belongs to the fan-out its task awaits, or to one of which a branch failed.
THEOREM BranchesBelong == Spec => []NoStrayBranch
<1>1. IndInv => NoStrayBranch
  BY DEF IndInv, NoStrayBranch, BranchOK, Live, Running
<1>2. QED
  BY <1>1, FetchInvariance, PTL

\* author_fetch writes last_update: every Chinese work that the author listed
\* when the walk began has a row or a failure record by then, unless a work was
\* withdrawn under the walk or the page guard cut it short.
THEOREM MarksAreEarned == Spec => MarkedIsHandled
<1>1. IndInv /\ [Next]_vars =>
        [\A b \in Branches : Mark(b) /\ b \notin shaken /\ ~path[b].cut =>
             base[b] \cap Chinese \subseteq stored \cup ledger]_vars
  BY DEF IndInv, WalkOK, Mark
<1>2. QED
  BY <1>1, FetchInvariance, PTL DEF Spec, MarkedIsHandled

\* _fan_out_author_fetch and its callers: a ranking or a search that ends well
\* reports all that its branches have stored and all they could not fetch.
THEOREM ResultsAreWhole == Spec => ResultIsWhole
<1>1. IndInv /\ [Next]_vars =>
        [(Gathered \/ ListNamesNobody) /\ tpc' = "idle" =>
             made.new \subseteq report'.new /\ made.lost \subseteq report'.lost]_vars
  <2> SUFFICES ASSUME IndInv, Gathered \/ ListNamesNobody
               PROVE  made.new \subseteq report'.new /\ made.lost \subseteq report'.lost
    OBVIOUS
  <2>1. CASE Gathered
    <3>1. report' = Flatten /\ tpc = "fan"
      BY <2>1 DEF Gathered, NextList, TaskEnds
    <3>2. QED
      BY <3>1 DEF IndInv, ReportOK, Flatten
  <2>2. CASE ListNamesNobody
    <3>1. report' = report /\ tpc # "fan"
      BY <2>2 DEF ListNamesNobody, NextList, TaskEnds
    <3>2. QED
      BY <3>1, IdleReport DEF IndInv
  <2>3. QED
    BY <2>1, <2>2
<1>2. QED
  BY <1>1, FetchInvariance, PTL DEF Spec, ResultIsWhole

----------------------------------------------------------------------------
(* SeriesRepair *)

\* The members of a set up to one of them are counted strictly upwards.
LEMMA RankGrows ==
    ASSUME NEW S \in SUBSET Nat, IsFiniteSet(S), NEW x \in S, NEW y \in S, x < y
    PROVE  Cardinality({z \in S : z <= x}) < Cardinality({z \in S : z <= y})
<1> DEFINE A == {z \in S : z <= x}
           B == {z \in S : z <= y}
<1>1. A \in SUBSET B /\ B \in SUBSET S /\ A # B
  <2>1. y \in B /\ y \notin A
    OBVIOUS
  <2>2. \A z \in S : z <= x => z <= y
    OBVIOUS
  <2>3. A \subseteq B /\ B \subseteq S
    BY <2>2
  <2> HIDE DEF A, B
  <2>4. QED
    BY <2>1, <2>3
<1>2. IsFiniteSet(B) /\ IsFiniteSet(A)
  BY <1>1, FS_Subset
<1>3. Cardinality(A) <= Cardinality(B) /\ Cardinality(A) # Cardinality(B)
  BY <1>1, <1>2, FS_Subset
<1>4. Cardinality(A) \in Nat /\ Cardinality(B) \in Nat
  BY <1>2, FS_CardinalityType
<1>5. QED
  BY <1>3, <1>4

\* ORDER BY id: every member once, in ascending order.
LEMMA AscendingSorts ==
    ASSUME NEW S \in SUBSET Nat, IsFiniteSet(S)
    PROVE  LET sorted == Ascending(S)
               n == Cardinality(S)
           IN  /\ n \in Nat /\ sorted \in [1..n -> S]
               /\ \A i, j \in 1..n : i < j => sorted[i] < sorted[j]
               /\ \A x \in S : \E i \in 1..n : sorted[i] = x
<1> DEFINE n == Cardinality(S)
           sorted == Ascending(S)
           Rank(x) == Cardinality({z \in S : z <= x})
           rank == [x \in S |-> Rank(x)]
<1>1. n \in Nat
  BY FS_CardinalityType
<1>2. ASSUME NEW x \in S PROVE Rank(x) \in 1..n
  <2> DEFINE A == {z \in S : z <= x}
  <2>1. A \in SUBSET S /\ x \in A
    OBVIOUS
  <2>2. IsFiniteSet(A) /\ Cardinality(A) <= n
    BY <2>1, FS_Subset
  <2>3. Cardinality(A) \in Nat /\ Cardinality(A) # 0
    BY <2>1, <2>2, FS_CardinalityType, FS_EmptySet
  <2>4. QED
    BY <1>1, <2>2, <2>3
<1>3. ASSUME NEW x \in S, NEW y \in S, x < y PROVE Rank(x) < Rank(y)
  BY <1>3, RankGrows
<1>4. ASSUME NEW x \in S, NEW y \in S, Rank(x) = Rank(y) PROVE x = y
  <2>1. x \in Nat /\ y \in Nat /\ Rank(x) \in Int /\ Rank(y) \in Int
    BY <1>1, <1>2
  <2> HIDE DEF Rank
  <2>2. ~(x < y) /\ ~(y < x)
    BY <1>3, <1>4, <2>1
  <2>3. QED
    BY <2>1, <2>2
<1>5. ASSUME NEW k \in 1..n PROVE \E x \in S : Rank(x) = k
  <2>1. rank \in [S -> 1..n]
    BY <1>2
  <2>2. \A x, y \in S : rank[x] = rank[y] => x = y
    BY <1>4
  <2> HIDE DEF rank
  <2>3. rank \in Injection(S, 1..n)
    BY <2>1, <2>2, Fun_IsInj
  <2>4. IsFiniteSet(1..n) /\ Cardinality(1..n) = n
    BY <1>1, FS_Interval
  <2>5. rank \in Surjection(S, 1..n)
    BY <2>3, <2>4, FS_Injection
  <2>6. \A m \in 1..n : \E x \in S : rank[x] = m
    BY <2>5, Fun_SurjectionProperties
  <2>7. QED
    BY <1>5, <2>6 DEF rank
<1> DEFINE Kth(k) == CHOOSE x \in S : Rank(x) = k
<1>6. sorted = [k \in 1..n |-> Kth(k)]
  BY DEF Ascending, Cardinality, Cardinality
<1> HIDE DEF sorted, Rank
<1>7. ASSUME NEW k \in 1..n PROVE sorted[k] \in S /\ Rank(sorted[k]) = k
  <2>1. sorted[k] = CHOOSE x \in S : Rank(x) = k
    BY <1>6
  <2>2. QED
    BY <1>5, <2>1
<1>8. sorted \in [1..n -> S]
  <2>1. sorted = [k \in 1..n |-> sorted[k]]
    BY <1>6
  <2>2. QED
    BY <1>7, <2>1
<1> HIDE DEF n
<1>9. ASSUME NEW i \in 1..n, NEW j \in 1..n, i < j PROVE sorted[i] < sorted[j]
  <2>1. sorted[i] \in Nat /\ sorted[j] \in Nat
    BY <1>7
  <2>2. sorted[i] # sorted[j]
    BY <1>7, <1>9
  <2>3. ~(sorted[j] < sorted[i])
    <3>1. Rank(sorted[i]) = i /\ Rank(sorted[j]) = j /\ i \in Int /\ j \in Int
      BY <1>1, <1>7
    <3>2. ASSUME sorted[j] < sorted[i] PROVE Rank(sorted[j]) < Rank(sorted[i])
      BY <1>3, <1>7, <3>2
    <3>3. QED
      BY <1>9, <3>1, <3>2
  <2>4. QED
    BY <2>1, <2>2, <2>3
<1>10. ASSUME NEW x \in S PROVE \E i \in 1..n : sorted[i] = x
  BY <1>2, <1>4, <1>7
<1>11. QED
  BY <1>1, <1>8, <1>9, <1>10 DEF n, sorted


\* A page is the front of the list, in ascending order; what it leaves out comes
\* after it, and then it is cut off.
LEMMA PageIsFront ==
    ASSUME NEW S \in SUBSET Nat, IsFiniteSet(S), NEW cap \in Nat \ {0}
    PROVE  LET p == PageOf(Ascending(S), cap)
           IN  /\ p.page \in Seq(S) /\ p.cut \in BOOLEAN
               /\ \A i, j \in 1..Len(p.page) : i < j => p.page[i] < p.page[j]
               /\ \A c \in S : \/ \E i \in 1..Len(p.page) : p.page[i] = c
                               \/ p.cut /\ \A i \in 1..Len(p.page) : p.page[i] < c
<1> DEFINE sorted == Ascending(S)
           n == Cardinality(S)
           p == PageOf(sorted, cap)
           m == IF n < cap THEN n ELSE cap
<1>1. /\ n \in Nat /\ sorted \in [1..n -> S]
      /\ \A i, j \in 1..n : i < j => sorted[i] < sorted[j]
      /\ \A x \in S : \E i \in 1..n : sorted[i] = x
  BY AscendingSorts
<1> HIDE DEF sorted, n
<1>2. sorted \in Seq(S) /\ Len(sorted) = n
  <2>1. \A i \in 1..n : sorted[i] \in S
    BY <1>1
  <2>2. sorted \in Seq(S)
    BY <1>1, <2>1
  <2>3. QED
    BY <1>1, <2>2, LenProperties
<1>3. m \in 0..n
  BY <1>1
<1>4. p.page = SubSeq(sorted, 1, m) /\ p.cut = (n > cap)
  BY <1>2 DEF PageOf
<1> HIDE DEF p
<1>5. p.page \in Seq(S) /\ Len(p.page) = m /\ \A i \in 1..m : p.page[i] = sorted[i]
  BY <1>1, <1>2, <1>3, <1>4
<1>6. ASSUME NEW c \in S
      PROVE  \/ \E i \in 1..m : p.page[i] = c
             \/ p.cut /\ \A i \in 1..m : p.page[i] < c
  <2>1. PICK k \in 1..n : sorted[k] = c
    BY <1>1
  <2>2. CASE k \in 1..m
    BY <1>5, <2>1, <2>2
  <2>3. CASE k \notin 1..m
    <3>1. k > m /\ m = cap /\ n > cap
      BY <1>1, <2>3
    <3>2. \A i \in 1..m : sorted[i] < sorted[k]
      BY <1>1, <3>1
    <3>3. QED
      BY <1>4, <1>5, <2>1, <3>1, <3>2
  <2>4. QED
    BY <2>2, <2>3
<1>7. \A i, j \in 1..m : i < j => p.page[i] < p.page[j]
  BY <1>1, <1>3, <1>5
<1>8. /\ p.page \in Seq(S) /\ p.cut \in BOOLEAN
      /\ \A i, j \in 1..Len(p.page) : i < j => p.page[i] < p.page[j]
      /\ \A c \in S : \/ \E i \in 1..Len(p.page) : p.page[i] = c
                      \/ p.cut /\ \A i \in 1..Len(p.page) : p.page[i] < c
  <2>1. p.cut \in BOOLEAN
    BY <1>4
  <2> HIDE DEF m
  <2>2. QED
    BY <1>5, <1>6, <1>7, <2>1
<1>9. QED
  BY <1>8, Zenon DEF p, sorted

\* A branch works through ids of novels or of series.
IdsOf(b) == IF b = "orphan" THEN Novels ELSE Series

\* A candidate whose turn has not come waits in the page, or comes after it.
ListLeft(b) == task.page[b]
PageOK(b) ==
    /\ ListLeft(b) \in Seq(IdsOf(b))
    /\ \A i, j \in 1..Len(ListLeft(b)) : i < j => ListLeft(b)[i] < ListLeft(b)[j]
    /\ \A c \in task.due[b] \ task.looked[b] :
         \/ \E i \in 1..Len(ListLeft(b)) : ListLeft(b)[i] = c
         \/ task.cut[b] /\ \A i \in 1..Len(ListLeft(b)) : ListLeft(b)[i] < c

\* The item under way comes before them, and what is to be written about it is
\* in the author's list.
ItemOK ==
    LET b == Branch IN
    /\ task.pc \notin {"off", "item", "wrap"} =>
         /\ task.item \in IdsOf(b)
         /\ \A c \in task.due[b] \ task.looked[b] : task.item < c
    /\ task.pc \in {"columns", "webview", "clear", "single"} => b = "orphan"
    /\ task.pc \in {"stored", "write", "single"} => Wanted \in Series
    /\ task.pc = "write" => /\ task.stored \cup Glue \subseteq Listed(Wanted)
                            /\ task.stored \cap rows \subseteq authored
    /\ task.pc = "wrap" => ListLeft(b) = <<>>

RepairInv ==
    /\ LibraryOK /\ RepairTypeOK
    /\ \A b \in BranchNames : PageOK(b)
    /\ ItemOK

LEMMA BranchIsNamed ==
    ASSUME RepairTypeOK
    PROVE  /\ Branch \in BranchNames
           /\ task.branch = 2 <=> Branch = "orphan"
BY DEF RepairTypeOK, Task, Branch, BranchOrder, BranchNames

LEMMA NumbersAreChapters ==
    ASSUME LibraryOK, NEW s \in Series
    PROVE  /\ \A n \in Listed(s) : Position(s, n) \in Chapters
           /\ Len(Roster(s)) + 1 \in Chapters
<1>1. /\ Roster(s) \in Seq(Nat) /\ Len(Roster(s)) \in Nat
      /\ Cardinality(Novels) \in Nat /\ Len(Roster(s)) <= Cardinality(Novels)
  BY FS_CardinalityType, LenProperties DEF LibraryOK
<1>2. Chapters = 1..(Cardinality(Novels) + 1)
  BY DEF Chapters
<1>3. ASSUME NEW n \in Listed(s) PROVE Position(s, n) \in 1..Len(Roster(s))
  <2>1. PICK i \in 1..Len(Roster(s)) : Roster(s)[i] = n
    BY <1>3 DEF Listed
  <2>2. QED
    BY <1>1, <2>1, ElementOfSeq DEF Position
<1>4. QED
  BY <1>1, <1>2, <1>3

\* A step within an item keeps the plan and what is said of the item.
LEMMA ItemStep ==
    ASSUME RepairInv, task' \in Task,
           /\ task'.branch = task.branch /\ task'.item = task.item
           /\ task'.page = task.page /\ task'.cut = task.cut
           /\ task'.due = task.due /\ task'.looked = task.looked
    PROVE  /\ \A b \in BranchNames : PageOK(b)'
           /\ Branch' = Branch /\ Wanted' = Wanted
           /\ task.pc \notin {"off", "item", "wrap"} =>
                /\ task'.item \in IdsOf(Branch)
                /\ \A c \in task'.due[Branch] \ task'.looked[Branch] : task'.item < c
<1>1. Branch' = Branch /\ Wanted' = Wanted
  BY DEF Branch, Wanted
<1>2. ASSUME NEW b \in BranchNames PROVE PageOK(b)'
  <2>1. PageOK(b)
    BY DEF RepairInv
  <2>2. QED
    BY <2>1 DEF PageOK, ListLeft
<1>3. QED
  BY <1>1, <1>2 DEF RepairInv, ItemOK

LEMMA LibraryStays == LibraryOK => LibraryOK'
BY DEF LibraryOK

LEMMA RunStartKeeps ==
    ASSUME RepairInv, NEW cap \in Caps, NEW all \in BOOLEAN, Start(cap, all)
    PROVE  RepairInv'
<1> DEFINE Ahead(b) == IF b # "sweep" \/ all THEN {c \in Candidates(b) : c > cursor[b]} ELSE {}
           Planned(b) == PageOf(Ascending(Ahead(b)), cap)
<1>1. ASSUME NEW b \in BranchNames
      PROVE  Ahead(b) \in SUBSET Nat /\ IsFiniteSet(Ahead(b)) /\ Ahead(b) \in SUBSET IdsOf(b)
  <2>1. Candidates(b) \subseteq IdsOf(b)
    BY DEF RepairInv, RepairTypeOK, Candidates, BranchNames, IdsOf
  <2>2. IdsOf(b) \subseteq Nat /\ IsFiniteSet(IdsOf(b))
    BY DEF RepairInv, LibraryOK, IdsOf
  <2>3. Ahead(b) \in SUBSET IdsOf(b)
    BY <2>1
  <2>4. IsFiniteSet(Ahead(b))
    BY <2>2, <2>3, FS_Subset
  <2>5. QED
    BY <2>2, <2>3, <2>4
<1>2. cap \in Nat \ {0}
  BY DEF RepairInv, LibraryOK
<1>3. ASSUME NEW b \in BranchNames
      PROVE  /\ Planned(b).page \in Seq(Ahead(b)) /\ Planned(b).cut \in BOOLEAN
             /\ \A i, j \in 1..Len(Planned(b).page) : i < j => Planned(b).page[i] < Planned(b).page[j]
             /\ \A c \in Ahead(b) : \/ \E i \in 1..Len(Planned(b).page) : Planned(b).page[i] = c
                                    \/ Planned(b).cut /\ \A i \in 1..Len(Planned(b).page) : Planned(b).page[i] < c
  <2> HIDE DEF Ahead
  <2>1. Ahead(b) \in SUBSET Nat /\ IsFiniteSet(Ahead(b))
    BY <1>1
  <2>2. QED
    BY <1>2, <2>1, PageIsFront, Zenon
<1>4. /\ task'.pc = "item" /\ task'.branch = 1 /\ task'.sweepAll \in BOOLEAN
      /\ task'.page = [b \in BranchNames |-> Planned(b).page]
      /\ task'.cut = [b \in BranchNames |-> Planned(b).cut]
      /\ task'.due = [b \in BranchNames |-> Ahead(b)]
      /\ task'.looked = [b \in BranchNames |-> {}]
      /\ task'.roster = Off.roster /\ task'.old = Off.old
      /\ task'.stored = {} /\ task'.item = 0
      /\ task'.signed = FALSE /\ task'.nav = FALSE
      /\ task' = [pc |-> task'.pc, branch |-> task'.branch, sweepAll |-> task'.sweepAll,
                  page |-> task'.page, cut |-> task'.cut, roster |-> task'.roster,
                  old |-> task'.old, stored |-> task'.stored, item |-> task'.item,
                  signed |-> task'.signed, nav |-> task'.nav,
                  due |-> task'.due, looked |-> task'.looked]
  BY DEF Start, Off
<1>5. UNCHANGED <<rows, link, index, authored, cursor, edits, kills>>
  BY DEF Start
<1> HIDE DEF Ahead, Planned
<1>6. \A b \in BranchNames :
         Planned(b).page \in Seq(IdsOf(b)) /\ Planned(b).page \in Seq(Novels \cup Series)
  <2>1. \A b \in BranchNames : IdsOf(b) \subseteq Novels \cup Series
    BY DEF IdsOf
  <2>2. QED
    BY <1>1, <1>3, <2>1, SeqMonotonic
<1>7. RepairTypeOK'
  <2>1. Off.roster \in [Series -> {"unasked", "none", "known"}]
        /\ Off.old \in [Novels -> Chapters \cup {None}]
    BY DEF Off
  <2>2. \A b \in BranchNames : Ahead(b) \subseteq Novels \cup Series
    BY <1>1 DEF IdsOf
  <2>3. task'.page \in [BranchNames -> Seq(Novels \cup Series)]
    BY <1>4, <1>6
  <2>4. /\ task'.cut \in [BranchNames -> BOOLEAN]
        /\ task'.due \in [BranchNames -> SUBSET (Novels \cup Series)]
        /\ task'.looked \in [BranchNames -> SUBSET (Novels \cup Series)]
    BY <1>3, <1>4, <2>2
  <2>5. task' \in Task
    <3>1. /\ task'.pc = "item" /\ task'.branch \in 1..3 /\ task'.sweepAll \in BOOLEAN
          /\ task'.roster \in [Series -> {"unasked", "none", "known"}]
          /\ task'.old \in [Novels -> Chapters \cup {None}]
          /\ task'.stored \in SUBSET Novels /\ task'.item \in Nat
      BY <1>4, <2>1
    <3>2. task'.signed \in BOOLEAN /\ task'.nav \in BOOLEAN
      BY <1>4
    <3>3. task' = [pc |-> task'.pc, branch |-> task'.branch, sweepAll |-> task'.sweepAll,
                  page |-> task'.page, cut |-> task'.cut, roster |-> task'.roster,
                  old |-> task'.old, stored |-> task'.stored, item |-> task'.item,
                  signed |-> task'.signed, nav |-> task'.nav,
                  due |-> task'.due, looked |-> task'.looked]
      BY <1>4
    <3>4. QED
      BY <2>3, <2>4, <3>1, <3>2, <3>3 DEF Task
  <2>6. QED
    BY <1>5, <2>5 DEF RepairInv, RepairTypeOK, Chapters
<1>8. ASSUME NEW b \in BranchNames PROVE PageOK(b)'
  BY <1>3, <1>4, <1>6 DEF PageOK, ListLeft, IdsOf
<1>9. ItemOK'
  BY <1>4 DEF ItemOK
<1>10. QED
  BY <1>7, <1>8, <1>9, LibraryStays DEF RepairInv

LEMMA NextItemKeeps ==
    ASSUME RepairInv, NextItem
    PROVE  RepairInv'
<1> DEFINE b0 == Branch
<1>1. b0 \in BranchNames /\ Branch' = b0 /\ PageOK(b0) /\ (task.branch = 2 <=> b0 = "orphan")
  <2>1. task'.branch = task.branch
    BY DEF NextItem, RepairInv, RepairTypeOK, Task
  <2>2. QED
    BY <2>1, BranchIsNamed DEF RepairInv, Branch
<1>2. UNCHANGED <<rows, link, index, authored, cursor, edits, kills>>
  BY DEF NextItem
<1>3. CASE ListLeft(b0) = <<>>
  <2>1. task' = [task EXCEPT !.pc = "wrap"]
    BY <1>3 DEF NextItem, ListLeft
  <2>2. task' \in Task /\ task'.pc = "wrap"
    BY <2>1 DEF RepairInv, RepairTypeOK, Task
  <2>3. \A b \in BranchNames : PageOK(b)'
    BY <2>1, <2>2, ItemStep DEF RepairInv, RepairTypeOK, Task
  <2>4. ItemOK'
    BY <1>1, <1>3, <2>1, <2>2 DEF ItemOK, ListLeft, RepairInv, RepairTypeOK, Task
  <2>5. QED
    BY <1>2, <2>2, <2>3, <2>4, LibraryStays DEF RepairInv, RepairTypeOK, Chapters
<1>4. CASE ListLeft(b0) # <<>>
  <2> DEFINE x == Head(ListLeft(b0))
             rest == Tail(ListLeft(b0))
  <2>1. /\ task'.pc = (IF b0 = "orphan" THEN "columns" ELSE "stored")
        /\ task'.branch = task.branch /\ task'.sweepAll = task.sweepAll /\ task'.cut = task.cut
        /\ task'.roster = task.roster /\ task'.old = task.old /\ task'.stored = task.stored
        /\ task'.signed = task.signed /\ task'.nav = task.nav
        /\ task'.due = task.due
        /\ task'.item = x
        /\ task'.page = [task.page EXCEPT ![b0] = rest]
        /\ task'.looked = [task.looked EXCEPT ![b0] = @ \cup {x}]
        /\ task' = [pc |-> task'.pc, branch |-> task'.branch, sweepAll |-> task'.sweepAll,
                    page |-> task'.page, cut |-> task'.cut, roster |-> task'.roster,
                    old |-> task'.old, stored |-> task'.stored, item |-> task'.item,
                    signed |-> task'.signed, nav |-> task'.nav,
                    due |-> task'.due, looked |-> task'.looked]
    BY <1>4 DEF NextItem, ListLeft, RepairInv, RepairTypeOK, Task
  <2>2. /\ ListLeft(b0) \in Seq(IdsOf(b0)) /\ x = ListLeft(b0)[1] /\ x \in IdsOf(b0)
        /\ rest \in Seq(IdsOf(b0)) /\ Len(rest) = Len(ListLeft(b0)) - 1 /\ Len(ListLeft(b0)) \in Nat \ {0}
        /\ \A i \in 1..Len(rest) : rest[i] = ListLeft(b0)[i + 1]
    BY <1>1, <1>4, EmptySeq DEF PageOK
  <2>3. IdsOf(b0) \subseteq Nat \ {0} /\ IdsOf(b0) \subseteq Novels \cup Series
    BY DEF RepairInv, LibraryOK, IdsOf
  <2> HIDE DEF x, rest, b0
  <2>4. \A i \in 1..Len(rest) : x < rest[i]
    BY <1>1, <2>2 DEF PageOK
  <2>5. \A i, j \in 1..Len(rest) : i < j => rest[i] < rest[j]
    BY <1>1, <2>2 DEF PageOK
  <2>6. ASSUME NEW c \in task.due[b0] \ (task.looked[b0] \cup {x})
        PROVE  /\ x < c
               /\ \/ \E i \in 1..Len(rest) : rest[i] = c
                  \/ task.cut[b0] /\ \A i \in 1..Len(rest) : rest[i] < c
    <3>1. CASE \E i \in 1..Len(ListLeft(b0)) : ListLeft(b0)[i] = c
      <4>1. PICK i \in 1..Len(ListLeft(b0)) : ListLeft(b0)[i] = c
        BY <3>1
      <4>2. i # 1 /\ i - 1 \in 1..Len(rest) /\ rest[i - 1] = c
        BY <2>2, <2>6, <4>1
      <4>3. QED
        BY <2>4, <4>2
    <3>2. CASE task.cut[b0] /\ \A i \in 1..Len(ListLeft(b0)) : ListLeft(b0)[i] < c
      BY <2>2, <3>2
    <3>3. QED
      BY <1>1, <2>6, <3>1, <3>2 DEF PageOK
  <2>7. task' \in Task
    <3>1. rest \in Seq(Novels \cup Series)
      BY <2>2, <2>3, SeqMonotonic
    <3>2. task'.page \in [BranchNames -> Seq(Novels \cup Series)]
      BY <2>1, <3>1 DEF RepairInv, RepairTypeOK, Task
    <3>3. task'.looked \in [BranchNames -> SUBSET (Novels \cup Series)]
      <4>1. task.looked \in [BranchNames -> SUBSET (Novels \cup Series)]
        BY DEF RepairInv, RepairTypeOK, Task
      <4>2. task.looked[b0] \cup {x} \in SUBSET (Novels \cup Series)
        BY <1>1, <2>2, <2>3, <4>1
      <4>3. QED
        BY <2>1, <4>1, <4>2
    <3>4. QED
      BY <2>1, <2>2, <2>3, <3>2, <3>3 DEF RepairInv, RepairTypeOK, Task
  <2>8. ASSUME NEW b \in BranchNames PROVE PageOK(b)'
    <3>1. CASE b = b0
      <4>1. task'.page[b] = rest /\ task'.looked[b] = task.looked[b] \cup {x}
        BY <2>1, <3>1 DEF RepairInv, RepairTypeOK, Task
      <4>2. QED
        BY <2>1, <2>2, <2>5, <2>6, <3>1, <4>1 DEF PageOK, ListLeft, IdsOf
    <3>2. CASE b # b0
      <4>1. task'.page[b] = task.page[b] /\ task'.looked[b] = task.looked[b]
        BY <2>1, <3>2 DEF RepairInv, RepairTypeOK, Task
      <4>2. PageOK(b)
        BY DEF RepairInv
      <4>3. QED
        BY <2>1, <4>1, <4>2 DEF PageOK, ListLeft
    <3>3. QED
      BY <3>1, <3>2
  <2>9. ItemOK'
    <3>1. task'.looked[b0] = task.looked[b0] \cup {x}
      BY <1>1, <2>1 DEF RepairInv, RepairTypeOK, Task
    <3>2. Branch' = b0 /\ task'.due[b0] = task.due[b0] /\ task'.item = x
      BY <1>1, <2>1
    <3>3. CASE b0 = "orphan"
      BY <2>1, <2>2, <2>6, <3>1, <3>2, <3>3 DEF ItemOK
    <3>4. CASE b0 # "orphan"
      <4>1. Wanted' \in Series
        BY <2>2, <3>2, <3>4 DEF Wanted, IdsOf
      <4>2. QED
        BY <2>1, <2>2, <2>6, <3>1, <3>2, <3>4, <4>1 DEF ItemOK
    <3>5. QED
      BY <3>3, <3>4
  <2>10. QED
    BY <1>2, <2>7, <2>8, <2>9, LibraryStays DEF RepairInv, RepairTypeOK, Chapters
<1>5. QED
  BY <1>3, <1>4

LEMMA AdvanceKeeps ==
    ASSUME RepairInv, Advance
    PROVE  RepairInv'
<1>1. /\ Branch \in BranchNames /\ task.item \in Nat
      /\ task.pc = "advance"
  BY BranchIsNamed DEF Advance, RepairInv, RepairTypeOK, Task
<1>2. /\ cursor' = [cursor EXCEPT ![Branch] = task.item]
      /\ task' = [task EXCEPT !.pc = "item", !.item = 0, !.stored = {}, !.old = Off.old,
                              !.signed = FALSE, !.nav = FALSE]
      /\ UNCHANGED <<rows, link, index, authored, edits, kills>>
  BY DEF Advance, CursorAfter
<1>3. Off.old \in [Novels -> Chapters \cup {None}]
  BY DEF Off
<1>4. /\ task' \in Task /\ task'.pc = "item"
      /\ task'.page = task.page /\ task'.cut = task.cut
      /\ task'.due = task.due /\ task'.looked = task.looked
  BY <1>2, <1>3 DEF RepairInv, RepairTypeOK, Task
<1>5. ASSUME NEW b \in BranchNames PROVE PageOK(b)'
  <2>1. PageOK(b)
    BY DEF RepairInv
  <2>2. QED
    BY <1>4, <2>1 DEF PageOK, ListLeft
<1>6. ItemOK'
  BY <1>4 DEF ItemOK
<1>7. cursor' \in [BranchNames -> Nat]
  BY <1>1, <1>2 DEF RepairInv, RepairTypeOK
<1>8. QED
  BY <1>2, <1>4, <1>5, <1>6, <1>7, LibraryStays DEF RepairInv, RepairTypeOK, Chapters

\* A task that is off has nothing due.
LEMMA OffKeeps ==
    ASSUME RepairInv, task' = Off, cursor' \in [BranchNames -> Nat],
           UNCHANGED <<rows, link, index, authored, edits>>, kills' \in 0..MaxKills
    PROVE  RepairInv'
<1>1. /\ task'.pc = "off" /\ task' \in Task
      /\ \A b \in BranchNames : task'.page[b] = <<>> /\ task'.due[b] = {}
  BY EmptySeq DEF Off, Task
<1>2. ASSUME NEW b \in BranchNames PROVE PageOK(b)'
  <2>1. <<>> \in Seq(IdsOf(b)) /\ Len(<<>>) = 0
    BY EmptySeq
  <2>2. ListLeft(b)' = <<>> /\ task'.due[b] = {} /\ IdsOf(b)' = IdsOf(b)
    BY <1>1 DEF ListLeft, IdsOf
  <2>3. QED
    BY <2>1, <2>2 DEF PageOK
<1>3. ItemOK'
  BY <1>1 DEF ItemOK
<1>4. QED
  BY <1>1, <1>2, <1>3, LibraryStays DEF RepairInv, RepairTypeOK, Chapters

LEMMA WrapKeeps ==
    ASSUME RepairInv, Wrap
    PROVE  RepairInv'
<1>1. /\ cursor' \in [BranchNames -> Nat]
      /\ UNCHANGED <<rows, link, index, authored, edits, kills>>
  BY DEF Wrap, RepairInv, RepairTypeOK
<1>2. CASE task' = Off
  BY <1>1, <1>2, OffKeeps DEF RepairInv, RepairTypeOK
<1>3. CASE task.branch # 3 /\ task' = [task EXCEPT !.pc = "item", !.branch = @ + 1]
  <2>1. /\ task' \in Task /\ task'.pc = "item"
        /\ task'.page = task.page /\ task'.cut = task.cut
        /\ task'.due = task.due /\ task'.looked = task.looked
    <3>1. task.branch + 1 \in 1..3
      BY <1>3 DEF RepairInv, RepairTypeOK, Task
    <3>2. QED
      BY <1>3, <3>1 DEF RepairInv, RepairTypeOK, Task
  <2>2. ASSUME NEW b \in BranchNames PROVE PageOK(b)'
    <3>1. PageOK(b)
      BY DEF RepairInv
    <3>2. QED
      BY <2>1, <3>1 DEF PageOK, ListLeft
  <2>3. ItemOK'
    BY <2>1 DEF ItemOK
  <2>4. QED
    BY <1>1, <2>1, <2>2, <2>3, LibraryStays DEF RepairInv, RepairTypeOK, Chapters
<1>4. QED
  BY <1>2, <1>3 DEF Wrap

LEMMA ReadStoredKeeps ==
    ASSUME RepairInv, NEW ok \in BOOLEAN, ReadStored(ok)
    PROVE  RepairInv'
<1> DEFINE fetched == Rosters(Wanted, ok)
           s == Wanted
           b == Branch
<1>1. task.pc = "stored" /\ s \in Series /\ UNCHANGED <<rows, link, index, authored, cursor, edits, kills>>
  BY DEF ReadStored, RepairInv, ItemOK
<1>2. fetched \in [Series -> {"unasked", "none", "known"}]
  BY <1>1 DEF RepairInv, RepairTypeOK, Task, Rosters
<1>3. \/ task' = [task EXCEPT !.roster = fetched, !.pc = "advance"]
      \/ b = "orphan" /\ task' = [task EXCEPT !.roster = fetched, !.pc = "single"]
      \/ /\ b = "orphan" => task.item \in Listed(s)
         /\ task' = [task EXCEPT !.roster = fetched, !.pc = "write",
                                 !.stored = InSeries(s) \cap Listed(s) \cap authored,
                                 !.old = index]
  BY DEF ReadStored
<1> HIDE DEF fetched
<1>4. InSeries(s) \subseteq Novels /\ index \in [Novels -> Chapters \cup {None}]
  BY DEF InSeries, RepairInv, RepairTypeOK
<1> HIDE DEF s, b
<1>5. /\ task' \in Task
      /\ task'.branch = task.branch /\ task'.item = task.item
      /\ task'.page = task.page /\ task'.cut = task.cut
      /\ task'.due = task.due /\ task'.looked = task.looked
      /\ \/ task'.pc = "advance"
         \/ b = "orphan" /\ task'.pc = "single"
         \/ /\ b = "orphan" => task'.item \in Listed(s)
            /\ task'.pc = "write"
            /\ task'.stored \subseteq Listed(s) /\ task'.stored \subseteq authored
  <2>1. CASE task' = [task EXCEPT !.roster = fetched, !.pc = "advance"]
    BY <1>2, <2>1 DEF RepairInv, RepairTypeOK, Task
  <2>2. CASE b = "orphan" /\ task' = [task EXCEPT !.roster = fetched, !.pc = "single"]
    BY <1>2, <2>2 DEF RepairInv, RepairTypeOK, Task
  <2>3. CASE /\ b = "orphan" => task.item \in Listed(s)
             /\ task' = [task EXCEPT !.roster = fetched, !.pc = "write",
                                     !.stored = InSeries(s) \cap Listed(s) \cap authored,
                                 !.old = index]
    <3>1. InSeries(s) \cap Listed(s) \cap authored \in SUBSET Novels
      BY <1>4
    <3>2. QED
      BY <1>2, <1>4, <2>3, <3>1 DEF RepairInv, RepairTypeOK, Task
  <2>4. QED
    BY <1>3, <2>1, <2>2, <2>3
<1>6. /\ \A d \in BranchNames : PageOK(d)'
      /\ Branch' = b /\ Wanted' = s
      /\ task'.item \in IdsOf(b)
      /\ \A c \in task'.due[b] \ task'.looked[b] : task'.item < c
  BY <1>1, <1>5, ItemStep DEF b, s
<1>7. ItemOK'
  BY <1>1, <1>5, <1>6 DEF ItemOK, IdsOf, Listed, Glue
<1>8. QED
  BY <1>1, <1>5, <1>6, <1>7, LibraryStays DEF RepairInv, RepairTypeOK, Chapters

\* The steps within an item that read or write its rows and go on.
GoesOn(p) ==
    /\ task' \in Task /\ task'.pc = p
    /\ task'.branch = task.branch /\ task'.item = task.item
    /\ task'.page = task.page /\ task'.cut = task.cut
    /\ task'.due = task.due /\ task'.looked = task.looked

RowsTyped ==
    /\ rows' \in SUBSET Novels /\ link' \in [Novels -> Series \cup {None}]
    /\ index' \in [Novels -> Chapters \cup {None}] /\ authored' \in SUBSET rows'

LEMMA PcStep ==
    ASSUME RepairInv, task.pc \notin {"off", "item", "wrap"}, NEW p,
           \/ p = "advance"
           \/ Branch = "orphan" /\ p \in {"webview", "clear"}
           \/ Branch = "orphan" /\ p \in {"stored", "single"} /\ Wanted \in Series,
           GoesOn(p), RowsTyped, UNCHANGED <<cursor, edits, kills>>
    PROVE  RepairInv'
<1>1. /\ \A b \in BranchNames : PageOK(b)'
      /\ Branch' = Branch /\ Wanted' = Wanted
      /\ task'.item \in IdsOf(Branch)
      /\ \A c \in task'.due[Branch] \ task'.looked[Branch] : task'.item < c
  BY ItemStep DEF GoesOn
<1>2. ItemOK'
  BY <1>1 DEF ItemOK, IdsOf, GoesOn
<1>3. RepairTypeOK'
  BY DEF RepairInv, RepairTypeOK, GoesOn, RowsTyped, Chapters
<1>4. QED
  BY <1>1, <1>2, <1>3, LibraryStays DEF RepairInv

\* A step that sets nothing of the task but where it is.
LEMMA PcOnly ==
    ASSUME RepairTypeOK,
           NEW p \in {"advance", "webview", "clear", "stored", "single"},
           task' = [task EXCEPT !.pc = p]
    PROVE  GoesOn(p)
  BY DEF GoesOn, RepairTypeOK, Task

LEMMA WriteRosterKeeps ==
    ASSUME RepairInv, WriteRoster
    PROVE  RepairInv'
<1> DEFINE s == Wanted
           due == {n \in task.stored : task.old[n] # Position(s, n)}
           glue == Glue
<1>1. /\ rows' = rows \cup due \cup glue /\ authored' = authored \cup due \cup glue
      /\ link' = [n \in Novels |-> IF n \in glue \/ (n \in due /\ (n \notin rows \/ link[n] = None))
                                   THEN s ELSE link[n]]
      /\ index' = [n \in Novels |->
                     IF n \in glue \/ n \in due \ rows THEN Position(s, n)
                     ELSE IF n \in due THEN Written(s, n) ELSE index[n]]
      /\ task' = [task EXCEPT !.pc = "advance"] /\ task.pc = "write"
      /\ UNCHANGED <<cursor, edits, kills>>
  BY DEF WriteRoster
<1>2. s \in Series /\ due \cup glue \subseteq Listed(s)
  BY <1>1 DEF RepairInv, ItemOK
<1>3. \A n \in due \cup glue : n \in Novels /\ Position(s, n) \in Chapters
  <2>1. due \cup glue \subseteq Novels
    BY <1>1 DEF Glue, RepairInv, ItemOK, IdsOf, RepairTypeOK, Task
  <2> HIDE DEF s, due, glue
  <2>2. QED
    BY <1>2, <2>1, NumbersAreChapters DEF RepairInv
<1> HIDE DEF s, due, glue
<1>4. rows' \in SUBSET Novels /\ authored' \in SUBSET rows'
      /\ link' \in [Novels -> Series \cup {None}]
  BY <1>1, <1>2, <1>3 DEF RepairInv, RepairTypeOK
<1>5. index' \in [Novels -> Chapters \cup {None}]
  <2>1. \A n \in due : Written(s, n) \in Chapters \cup {None}
    BY <1>3 DEF Written, RepairInv, RepairTypeOK
  <2>2. QED
    BY <1>1, <1>3, <2>1 DEF RepairInv, RepairTypeOK
<1>6. QED
  BY <1>1, <1>4, <1>5, PcStep, PcOnly DEF RowsTyped, RepairInv

LEMMA ReadColumnsKeeps ==
    ASSUME RepairInv, ReadColumns
    PROVE  RepairInv'
<1> DEFINE sg == task.item \in authored
           p == IF task.item \in rows THEN "webview" ELSE "advance"
<1>1. /\ task.pc = "columns" /\ Branch = "orphan"
      /\ task' = [task EXCEPT !.pc = p, !.old = index, !.signed = sg]
      /\ UNCHANGED <<rows, link, index, authored, cursor, edits, kills>>
  BY DEF ReadColumns, RepairInv, ItemOK
<1>2. RowsTyped /\ index \in [Novels -> Chapters \cup {None}]
  BY <1>1 DEF RowsTyped, RepairInv, RepairTypeOK
<1>3. p \in {"webview", "advance"} /\ sg \in BOOLEAN
  OBVIOUS
<1> HIDE DEF p, sg
<1>4. GoesOn(p)
  BY <1>1, <1>2, <1>3 DEF GoesOn, RepairInv, RepairTypeOK, Task
<1>5. QED
  BY <1>1, <1>2, <1>3, <1>4, PcStep

LEMMA WebviewKeeps ==
    ASSUME RepairInv, NEW ok \in BOOLEAN, NEW nav \in BOOLEAN,
           NEW named \in BOOLEAN, Webview(ok, nav, named)
    PROVE  RepairInv'
<1> DEFINE sg == task.signed \/ named
           s == Home(task.item)
           p == IF ~ok \/ <<"orphan", task.item>> \in Dead THEN "advance"
                ELSE IF s = None THEN "clear"
                ELSE IF nav /\ InSeries(s) = {} THEN "single" ELSE "stored"
<1>1. /\ task.pc = "webview" /\ Branch = "orphan" /\ task.item \in Novels
      /\ task' = [task EXCEPT !.nav = nav, !.signed = sg, !.pc = p]
      /\ UNCHANGED <<rows, link, index, authored, cursor, edits, kills>>
  BY DEF Webview, RepairInv, ItemOK, IdsOf
<1>2. Wanted = s /\ s \in Series \cup {None}
  BY <1>1 DEF Wanted, RepairInv, LibraryOK
<1>3. \/ p \in {"advance", "clear"}
      \/ p \in {"stored", "single"} /\ s # None
  OBVIOUS
<1>4. sg \in BOOLEAN
  OBVIOUS
<1> HIDE DEF sg, p, s
<1>5. RowsTyped
  BY <1>1 DEF RowsTyped, RepairInv, RepairTypeOK
<1>6. GoesOn(p)
  BY <1>1, <1>3, <1>4 DEF GoesOn, RepairInv, RepairTypeOK, Task
<1>7. QED
  BY <1>1, <1>2, <1>3, <1>5, <1>6, PcStep

LEMMA PassUnsignedKeeps ==
    ASSUME RepairInv, PassUnsigned
    PROVE  RepairInv'
<1>1. /\ task.pc \in {"clear", "single"} /\ task' = [task EXCEPT !.pc = "advance"]
      /\ UNCHANGED <<rows, link, index, authored, cursor, edits, kills>>
  BY DEF PassUnsigned
<1>2. RowsTyped
  BY <1>1 DEF RowsTyped, RepairInv, RepairTypeOK
<1>3. QED
  BY <1>1, <1>2, PcStep, PcOnly DEF RepairInv

LEMMA ClearOrphanKeeps ==
    ASSUME RepairInv, ClearOrphan
    PROVE  RepairInv'
<1>1. /\ task.pc = "clear" /\ task.item \in Novels
      /\ task' = [task EXCEPT !.pc = "advance"]
      /\ UNCHANGED <<cursor, edits, kills>>
  BY DEF ClearOrphan, RepairInv, ItemOK, IdsOf
<1>2. RowsTyped
  BY <1>1 DEF ClearOrphan, RowsTyped, RepairInv, RepairTypeOK
<1>3. QED
  BY <1>1, <1>2, PcStep, PcOnly DEF RepairInv

LEMMA GlueSingleKeeps ==
    ASSUME RepairInv, GlueSingle
    PROVE  RepairInv'
<1> DEFINE n == task.item
           s == Home(n)
           i == IF n \in Listed(s) THEN Position(s, n) ELSE Len(Roster(s)) + 1
<1>1. /\ task.pc = "single" /\ n \in Novels /\ s \in Series
      /\ task' = [task EXCEPT !.pc = "advance"]
      /\ UNCHANGED <<cursor, edits, kills>>
      /\ rows' = rows \cup {n} /\ authored' = authored \cup {n}
      /\ link' = [link EXCEPT ![n] = s]
      /\ index' = [index EXCEPT ![n] = IF task.nav THEN i ELSE IF @ = None THEN task.old[n] ELSE @]
  BY DEF GlueSingle, RepairInv, ItemOK, IdsOf, Wanted
<1>2. i \in Chapters
  BY <1>1, NumbersAreChapters DEF RepairInv
<1> HIDE DEF i, s
<1>3. /\ rows' \in SUBSET Novels /\ link' \in [Novels -> Series \cup {None}]
      /\ task.old \in [Novels -> Chapters \cup {None}] /\ authored' \in SUBSET rows'
  BY <1>1 DEF RepairInv, RepairTypeOK, Task
<1>4. index' \in [Novels -> Chapters \cup {None}]
  BY <1>1, <1>2, <1>3 DEF RepairInv, RepairTypeOK
<1>5. Wanted \in Series /\ Branch = "orphan"
  BY <1>1 DEF RepairInv, ItemOK
<1>6. QED
  BY <1>1, <1>3, <1>4, <1>5, PcStep, PcOnly DEF RowsTyped, RepairInv

LEMMA OthersKeep ==
    ASSUME RepairInv, NEW n \in Novels,
           \/ DeleteNovel(n)
           \/ \E i \in {None, 1} : FetchFills(n, i) \/ SetIndex(n, i)
    PROVE  RepairInv'
<1>1. 1 \in Chapters /\ Home(n) \in Series \cup {None}
  BY FS_CardinalityType DEF RepairInv, LibraryOK, Chapters
<1>2. UNCHANGED <<cursor, task, kills>> /\ edits' = edits + 1 /\ edits < MaxEdits
  BY DEF DeleteNovel, FetchFills, SetIndex, Edit
<1>3. edits' \in 0..MaxEdits
  BY <1>2 DEF RepairInv, RepairTypeOK, LibraryOK
<1>4. /\ rows' \in SUBSET Novels /\ link' \in [Novels -> Series \cup {None}]
      /\ index' \in [Novels -> Chapters \cup {None}]
      /\ authored' \in SUBSET rows'
      /\ rows' \ rows \subseteq authored' /\ authored \cap rows' \subseteq authored'
  BY <1>1 DEF RepairInv, RepairTypeOK, DeleteNovel, FetchFills, SetIndex
<1>5. ASSUME NEW b \in BranchNames PROVE PageOK(b)'
  <2>1. PageOK(b)
    BY DEF RepairInv
  <2>2. QED
    BY <1>2, <2>1 DEF PageOK, ListLeft
<1>6. ItemOK'
  BY <1>2, <1>4 DEF RepairInv, ItemOK, ListLeft, Branch, Wanted, Glue
<1>7. QED
  BY <1>2, <1>3, <1>4, <1>5, <1>6, LibraryStays DEF RepairInv, RepairTypeOK, Chapters

LEMMA RepairStarts == RepairInit => RepairInv
<1> SUFFICES ASSUME RepairInit PROVE RepairInv
  OBVIOUS
<1> USE RepairAssumption
<1>1. ASSUME NEW n \in Novels PROVE 2 \in Chapters
  <2>1. IsFiniteSet(Novels) /\ Cardinality(Novels) \in Nat /\ Cardinality(Novels) # 0
    BY FS_CardinalityType, FS_EmptySet DEF LibraryOK
  <2>2. QED
    BY <2>1 DEF Chapters
<1>2. rows \subseteq Novels /\ link \in [Novels -> Series \cup {None}]
  BY DEF RepairInit, LibraryOK
<1>3. index \in [Novels -> Chapters \cup {None}]
  BY <1>1 DEF RepairInit
<1>4. task.pc = "off" /\ task \in Task
      /\ \A b \in BranchNames : task.page[b] = <<>> /\ task.due[b] = {}
  BY EmptySeq DEF RepairInit, Off, Task
<1>5. RepairTypeOK
  BY <1>2, <1>3, <1>4 DEF RepairTypeOK, RepairInit, LibraryOK
<1>6. ASSUME NEW b \in BranchNames PROVE PageOK(b)
  <2>1. <<>> \in Seq(IdsOf(b)) /\ Len(<<>>) = 0
    BY EmptySeq
  <2>2. ListLeft(b) = <<>> /\ task.due[b] = {}
    BY <1>4 DEF ListLeft
  <2>3. QED
    BY <2>1, <2>2 DEF PageOK
<1>7. ItemOK
  BY <1>4 DEF ItemOK
<1>8. QED
  BY <1>5, <1>6, <1>7 DEF RepairInv

LEMMA RepairSteps ==
    RepairInv /\ [RepairNext]_repairVars => RepairInv'
<1> SUFFICES ASSUME RepairInv, [RepairNext]_repairVars PROVE RepairInv'
  OBVIOUS
<1>1. CASE Run
  BY <1>1, RunStartKeeps DEF Run
<1>2. CASE Proceed
  BY <1>2, NextItemKeeps, AdvanceKeeps, WrapKeeps, WriteRosterKeeps, ReadColumnsKeeps,
     PassUnsignedKeeps, ClearOrphanKeeps, ReadStoredKeeps, GlueSingleKeeps, WebviewKeeps DEF Proceed
<1>3. CASE Kill
  <2>1. /\ task' = Off /\ UNCHANGED <<rows, link, index, authored, cursor, edits>>
        /\ kills' \in 0..MaxKills /\ cursor' \in [BranchNames -> Nat]
    BY <1>3 DEF Kill, RepairInv, RepairTypeOK, LibraryOK
  <2>2. QED
    BY <2>1, OffKeeps
<1>4. CASE \E n \in Novels : \/ DeleteNovel(n)
                             \/ \E i \in {None, 1} : FetchFills(n, i) \/ SetIndex(n, i)
  BY <1>4, OthersKeep
<1>5. CASE UNCHANGED repairVars
  <2>1. UNCHANGED <<rows, link, index, authored, cursor, task, edits, kills>>
    BY <1>5 DEF repairVars
  <2>2. ASSUME NEW b \in BranchNames PROVE PageOK(b)'
    <3>1. PageOK(b)
      BY DEF RepairInv
    <3>2. QED
      BY <2>1, <3>1 DEF PageOK, ListLeft
  <2>3. ItemOK'
    BY <2>1 DEF RepairInv, ItemOK, ListLeft, Branch, Wanted, Glue
  <2>4. QED
    BY <2>1, <2>2, <2>3, LibraryStays DEF RepairInv, RepairTypeOK, Chapters
<1>6. QED
  BY <1>1, <1>2, <1>3, <1>4, <1>5 DEF RepairNext

\* fix_series_index and those who write the same rows: the plan of a run stays
\* in order, and what has not been looked at lies ahead of the item under way.
THEOREM RepairInvariance == RepairSpec => []RepairInv
<1>1. RepairInit => RepairInv
  BY RepairStarts
<1>2. QED
  BY <1>1, RepairSteps, PTL DEF RepairSpec

\* The state of the repair task and the rows it works on keep their types.
THEOREM RepairTypes == RepairSpec => []RepairTypeOK
<1>1. RepairInv => RepairTypeOK
  BY DEF RepairInv
<1>2. QED
  BY <1>1, RepairInvariance, PTL

\* _write_cursor: no cursor passes a candidate whose turn has not come, and none
\* goes back to the start over one that was left out, whenever the task is
\* killed and whoever writes the rows meanwhile.
THEOREM CursorSkipsNothing == RepairSpec => NothingSkipped
<1> DEFINE Skips(b, c) ==
             \/ cursor[b] < c /\ c <= cursor'[b] /\ c \notin task.looked[b]
             \/ cursor[b] # 0 /\ cursor'[b] = 0 /\ c \notin task.looked[b]
<1>1. ASSUME RepairInv, [RepairNext]_repairVars,
             NEW b \in BranchNames, NEW c \in task.due[b], Skips(b, c)
      PROVE  FALSE
  <2>1. cursor \in [BranchNames -> Nat] /\ c \in Nat \ {0}
    BY <1>1 DEF RepairInv, RepairTypeOK, Task, LibraryOK
  <2>2. cursor'[b] # cursor[b]
    BY <1>1, <2>1
  <2>3. CASE Advance
    <3>1. cursor' = [cursor EXCEPT ![Branch] = task.item] /\ task.pc = "advance"
      BY <2>3 DEF Advance, CursorAfter
    <3>2. b = Branch /\ cursor'[b] = task.item
      BY <2>1, <2>2, <3>1
    <3>3. task.item \in Nat \ {0}
      BY <1>1, <3>1 DEF RepairInv, ItemOK, IdsOf, LibraryOK
    <3>4. task.item < c
      BY <1>1, <3>1, <3>2 DEF RepairInv, ItemOK
    <3>5. QED
      BY <1>1, <2>1, <3>2, <3>3, <3>4
  <2>4. CASE Wrap
    <3>1. /\ task.pc = "wrap" /\ b = Branch /\ ~task.cut[b] /\ cursor'[b] = 0
      BY <2>1, <2>2, <2>4 DEF Wrap
    <3>2. ListLeft(b) = <<>> /\ PageOK(b)
      BY <1>1, <3>1 DEF RepairInv, ItemOK
    <3>3. c \in task.looked[b]
      BY <1>1, <3>1, <3>2, EmptySeq DEF PageOK
    <3>4. QED
      BY <1>1, <3>3
  <2>5. CASE UNCHANGED cursor
    BY <2>2, <2>5
  <2>6. Advance \/ Wrap \/ UNCHANGED cursor
    BY <1>1 DEF RepairNext, Run, Proceed, Start, NextItem,
       WriteRoster, ReadColumns, PassUnsigned, ClearOrphan, ReadStored,
       GlueSingle, Webview, Kill, DeleteNovel,
       FetchFills, SetIndex, repairVars
  <2>7. QED
    BY <2>3, <2>4, <2>5, <2>6
<1>2. RepairInv /\ [RepairNext]_repairVars =>
        [\A b \in BranchNames : \A c \in task.due[b] :
           /\ cursor[b] < c /\ c <= cursor'[b] => c \in task.looked[b]
           /\ cursor[b] # 0 /\ cursor'[b] = 0 => c \in task.looked[b]]_repairVars
  BY <1>1
<1>3. QED
  BY <1>2, RepairInvariance, PTL DEF RepairSpec, NothingSkipped

\* _apply_roster, whoever writes the rows between its read and its write: each
\* row it stands for has the author's number or one given meanwhile, the orphan
\* its link and number, and no other row is touched, nor one without an author.
THEOREM RosterDecides == RepairSpec => RosterIsAuthority
<1>1. ASSUME RepairInv, WriteRoster
      PROVE  /\ \A n \in task.stored : \/ index'[n] = Position(Wanted, n)
                                       \/ index[n] # task.old[n] /\ index'[n] = index[n]
             /\ \A n \in Glue : index'[n] = Position(Wanted, n) /\ link'[n] = Wanted
             /\ \A n \in Novels \ Glue :
                  n \notin task.stored \/ n \in rows \ authored =>
                     index'[n] = index[n] /\ link'[n] = link[n]
  <2> DEFINE s == Wanted
             due == {n \in task.stored : task.old[n] # Position(s, n)}
  <2>1. /\ link' = [n \in Novels |-> IF n \in Glue \/ (n \in due /\ (n \notin rows \/ link[n] = None))
                                     THEN s ELSE link[n]]
        /\ index' = [n \in Novels |->
                       IF n \in Glue \/ n \in due \ rows THEN Position(s, n)
                       ELSE IF n \in due THEN Written(s, n) ELSE index[n]]
    BY <1>1 DEF WriteRoster
  <2>2. /\ task.stored \subseteq Novels /\ Glue \subseteq Novels
        /\ task.stored \cap rows \subseteq authored
    BY <1>1 DEF WriteRoster, RepairInv, RepairTypeOK, ItemOK, IdsOf, Task, Glue
  <2>3. ASSUME NEW n \in due
        PROVE  \/ Written(s, n) = Position(s, n)
               \/ index[n] # task.old[n] /\ Written(s, n) = index[n]
    BY <2>3 DEF Written
  <2>4. ASSUME NEW n \in task.stored
        PROVE  \/ index'[n] = Position(s, n)
               \/ index[n] # task.old[n] /\ index'[n] = index[n]
    BY <2>1, <2>2, <2>3
  <2>5. ASSUME NEW n \in Glue PROVE index'[n] = Position(s, n) /\ link'[n] = s
    BY <2>1, <2>2
  <2>6. ASSUME NEW n \in Novels \ Glue, n \notin task.stored \/ n \in rows \ authored
        PROVE  index'[n] = index[n] /\ link'[n] = link[n]
    <3>1. n \notin due
      BY <2>2, <2>6
    <3>2. QED
      BY <2>1, <3>1
  <2>7. QED
    BY <2>4, <2>5, <2>6
<1>2. RepairInv /\ [RepairNext]_repairVars =>
        [WriteRoster =>
           /\ \A n \in task.stored : \/ index'[n] = Position(Wanted, n)
                                     \/ index[n] # task.old[n] /\ index'[n] = index[n]
           /\ \A n \in Glue : index'[n] = Position(Wanted, n) /\ link'[n] = Wanted
           /\ \A n \in Novels \ Glue :
                n \notin task.stored \/ n \in rows \ authored =>
                   index'[n] = index[n] /\ link'[n] = link[n]]_repairVars
  BY <1>1
<1>3. QED
  BY <1>2, RepairInvariance, PTL DEF RepairSpec, RosterIsAuthority
============================================================================
