-------------------------- MODULE RowWriterProofs --------------------------
(***************************************************************************)
(* The two column groups of a novel row that have writers of their own in  *)
(* the editing layer: safety of the tag arrays and their counts            *)
(* (TagStore), for any finite library, any tags and any number of writers, *)
(* and of the author and series columns (MetadataEdit), for any books and  *)
(* number of requests.                                                     *)
(***************************************************************************)
EXTENDS TagStore, MetadataEdit, FiniteSetTheorems, TLAPS

----------------------------------------------------------------------------
(* TagStore *)

Arrays == TagArray \cup {Absent}

\* What a statement over the novel table needs to know of it.
TableOK ==
    /\ row \in [Novels -> Arrays]
    /\ refCount \in [Tags -> Int]
    /\ RefCountExact

\* What the transactions remember has its type, and the aliases theirs.
JobsOK ==
    /\ alias \in [Tags -> Tags \cup {NoTag}]
    /\ job \in [Writers -> Jobs \cup {Idle}]

IndInv == TableOK /\ JobsOK
----------------------------------------------------------------------------
(* The operators *)

\* The number of novels that carry a tag is a number.
LEMMA CarriersAreFinite ==
    ASSUME NEW R, NEW t
    PROVE  Cardinality({n \in Novels : t \in TagsOf(R[n])}) \in Nat
<1>1. {n \in Novels : t \in TagsOf(R[n])} \in SUBSET Novels
  OBVIOUS
<1>2. QED
  BY <1>1, TagAssumption, FS_Subset, FS_CardinalityType

\* An array written by the application holds each of its tags once.
LEMMA OnceHolds ==
    ASSUME NEW S
    PROVE  Once(S) \in TagArray /\ (S \in SUBSET Tags => TagsOf(Once(S)) = S)
<1>1. Once(S) \in TagArray
  BY DEF Once, TagArray
<1>2. Once(S) # Absent
  BY <1>1, TagAssumption
<1>3. QED
  BY <1>1, <1>2 DEF Once, TagsOf

\* A tag occurs in what a row holds.
LEMMA TagsOfArray ==
    ASSUME NEW r \in TagArray
    PROVE  TagsOf(r) = {t \in Tags : r[t] > 0}
  BY TagAssumption DEF TagsOf

LEMMA TagsOfType ==
    ASSUME NEW r
    PROVE  TagsOf(r) \in SUBSET Tags
  BY DEF TagsOf

\* The trigger: whatever statement writes the rows, the counts follow.
LEMMA WriteRowsKeeps ==
    ASSUME TableOK, NEW new \in [Novels -> Arrays], WriteRows(new)
    PROVE  TableOK'
<1> DEFINE Carry(R, t) == Cardinality({n \in Novels : t \in TagsOf(R[n])})
<1>1. \A t \in Tags : Carry(row, t) \in Nat /\ Carry(new, t) \in Nat
  BY CarriersAreFinite
<1>2. \A t \in Tags : refCount[t] = Carry(row, t)
  BY DEF TableOK, RefCountExact
<1>3. row' = new
  BY DEF WriteRows
<1>4. refCount' = [t \in Tags |-> refCount[t] + (Carry(new, t) - Carry(row, t))]
  BY DEF WriteRows, SyncTagRefs, TagDelta
<1>5. \A t \in Tags : Carry(row', t) = Carry(new, t)
  BY <1>3
<1> HIDE DEF Carry
<1>6. refCount' \in [Tags -> Int] /\ \A t \in Tags : refCount'[t] = Carry(new, t)
  BY <1>1, <1>2, <1>4
<1>7. RefCountExact'
  BY <1>5, <1>6 DEF RefCountExact, Carry
<1>8. QED
  BY <1>3, <1>6, <1>7 DEF TableOK

\* Resolving names yields names.
LEMMA ResolveType ==
    ASSUME JobsOK, NEW S \in SUBSET Tags
    PROVE  Resolve(S) \in SUBSET Tags
  BY DEF JobsOK, Resolve, AliasMap

\* A transaction that ends leaves the others as they are.
LEMMA JobEnds ==
    ASSUME JobsOK, NEW w, job' = [job EXCEPT ![w] = Idle], UNCHANGED alias
    PROVE  JobsOK'
  BY DEF JobsOK

----------------------------------------------------------------------------
(* Each action *)

LEMMA CreateAliasKeeps ==
    ASSUME IndInv, NEW s \in Tags, NEW t \in Tags, CreateAlias(s, t)
    PROVE  IndInv'
<1>1. ApplyAlias(s, t) \in [Novels -> Arrays]
  <2>1. ASSUME NEW n \in Novels, s \in TagsOf(row[n])
        PROVE  ReplaceTag(row[n], s, t) \in TagArray
    <3>1. row[n] \in TagArray
      BY <2>1 DEF IndInv, TableOK, Arrays, TagsOf
    <3>2. QED
      BY <3>1 DEF ReplaceTag, TagArray
  <2>2. QED
    BY <2>1 DEF ApplyAlias, IndInv, TableOK, Arrays
<1>2. TableOK'
  BY <1>1, WriteRowsKeeps DEF CreateAlias, IndInv
<1>3. JobsOK'
  BY DEF CreateAlias, IndInv, JobsOK
<1>4. QED
  BY <1>2, <1>3 DEF IndInv

LEMMA DeleteAliasKeeps ==
    ASSUME IndInv, NEW s \in Tags, DeleteAlias(s)
    PROVE  IndInv'
  BY DEF DeleteAlias, IndInv, TableOK, JobsOK, RefCountExact

LEMMA BeginRefreshKeeps ==
    ASSUME IndInv, NEW w \in Writers, NEW n \in Novels, NEW S \in SourceTags,
           BeginRefresh(w, n, S)
    PROVE  IndInv'
<1>1. S \in SUBSET Tags /\ Resolve(S) \in SUBSET Tags
  BY TagAssumption, ResolveType DEF IndInv
<1>2. [kind |-> "refresh", novel |-> n, raw |-> S, resolved |-> Resolve(S),
       seen |-> Absent, read |-> FALSE] \in Jobs
  BY <1>1 DEF Jobs
<1>3. QED
  BY <1>2 DEF BeginRefresh, IndInv, TableOK, JobsOK, RefCountExact

LEMMA BeginPatchKeeps ==
    ASSUME IndInv, NEW w \in Writers, NEW n \in Novels, NEW S \in SourceTags,
           BeginPatch(w, n, S)
    PROVE  IndInv'
<1>1. S \in SUBSET Tags /\ Resolve(S) \in SUBSET Tags
  BY TagAssumption, ResolveType DEF IndInv
<1>2. [kind |-> "patch", novel |-> n, raw |-> S, resolved |-> Resolve(S),
       seen |-> Absent, read |-> TRUE] \in Jobs
  BY <1>1 DEF Jobs
<1>3. QED
  BY <1>2 DEF BeginPatch, IndInv, TableOK, JobsOK, RefCountExact

LEMMA BeginBatchKeeps ==
    ASSUME IndInv, NEW w \in Writers, NEW op \in {"add_tags", "remove_tags"},
           NEW ids \in SUBSET Novels, NEW S \in SourceTags,
           BeginBatch(w, op, ids, S)
    PROVE  IndInv'
<1>1. S \in SUBSET Tags /\ Resolve(S) \in SUBSET Tags
  BY TagAssumption, ResolveType DEF IndInv
<1>2. [kind |-> op, ids |-> ids, raw |-> S, resolved |-> Resolve(S)] \in Jobs
  BY <1>1 DEF Jobs
<1>3. QED
  BY <1>2 DEF BeginBatch, IndInv, TableOK, JobsOK, RefCountExact

LEMMA ReadRowKeeps ==
    ASSUME IndInv, NEW w \in Writers, ReadRow(w)
    PROVE  IndInv'
<1> DEFINE seen == IF row[job[w].novel] = Absent THEN Absent
                   ELSE TagsOf(row[job[w].novel])
           j == [job[w] EXCEPT !.read = TRUE, !.seen = seen]
<1>1. job' = [job EXCEPT ![w] = j]
  BY DEF ReadRow
<1>2. seen \in (SUBSET Tags) \cup {Absent}
  BY TagsOfType
<1>3. job[w] \in Jobs /\ job[w].kind = "refresh"
  BY DEF ReadRow, IndInv, JobsOK
<1> HIDE DEF seen
<1>4. j \in Jobs
  BY <1>2, <1>3 DEF Jobs
<1> HIDE DEF j
<1>5. JobsOK'
  BY <1>1, <1>4 DEF ReadRow, IndInv, JobsOK
<1>6. QED
  BY <1>5 DEF ReadRow, IndInv, TableOK, RefCountExact

LEMMA WriteRefreshKeeps ==
    ASSUME IndInv, NEW w \in Writers, WriteRefresh(w)
    PROVE  IndInv'
<1> DEFINE j == job[w]
           new == [row EXCEPT ![j.novel] = IF j.seen = Absent THEN Once(j.resolved)
                                           ELSE RefreshedTags(j)]
<1>1. new \in [Novels -> Arrays]
  BY OnceHolds DEF RefreshedTags, IndInv, TableOK, Arrays
<1>2. TableOK'
  <2>1. CASE UNCHANGED <<row, refCount>>
    BY <2>1 DEF IndInv, TableOK, RefCountExact
  <2>2. CASE WriteRows(new)
    <3> HIDE DEF new
    <3>1. QED
      BY <1>1, <2>2, WriteRowsKeeps DEF IndInv
  <2>3. QED
    BY <2>1, <2>2 DEF WriteRefresh
<1>3. JobsOK'
  BY JobEnds DEF WriteRefresh, IndInv
<1>4. QED
  BY <1>2, <1>3 DEF IndInv

LEMMA WritePatchKeeps ==
    ASSUME IndInv, NEW w \in Writers, WritePatch(w)
    PROVE  IndInv'
<1> DEFINE new == [row EXCEPT ![job[w].novel] = Once(job[w].resolved)]
<1>1. new \in [Novels -> Arrays]
  BY OnceHolds DEF IndInv, TableOK, Arrays
<1>2. TableOK'
  <2>1. CASE UNCHANGED <<row, refCount>>
    BY <2>1 DEF IndInv, TableOK, RefCountExact
  <2>2. CASE WriteRows(new)
    <3> HIDE DEF new
    <3>1. QED
      BY <1>1, <2>2, WriteRowsKeeps DEF IndInv
  <2>3. QED
    BY <2>1, <2>2 DEF WritePatch
<1>3. JobsOK'
  BY JobEnds DEF WritePatch, IndInv
<1>4. QED
  BY <1>2, <1>3 DEF IndInv

\* What a batch makes of a row is a row.
LEMMA EditType ==
    ASSUME NEW r \in Arrays, NEW S
    PROVE  AddTags(r, S) \in Arrays /\ RemoveTags(r, S) \in Arrays
  BY DEF AddTags, RemoveTags, Arrays, TagArray

LEMMA WriteChunkKeeps ==
    ASSUME IndInv, NEW w \in Writers, NEW chunk, WriteChunk(w, chunk)
    PROVE  IndInv'
<1> DEFINE j == job[w]
           Edit(r) == IF j.kind = "add_tags" THEN AddTags(r, j.resolved)
                      ELSE RemoveTags(r, j.resolved)
           new == [n \in Novels |-> IF n \in chunk THEN Edit(row[n]) ELSE row[n]]
<1>1. new \in [Novels -> Arrays]
  <2>1. \A n \in Novels : row[n] \in Arrays /\ Edit(row[n]) \in Arrays
    BY EditType DEF IndInv, TableOK
  <2> HIDE DEF Edit
  <2>2. QED
    BY <2>1
<1>2. WriteRows(new)
  BY DEF WriteChunk
<1>3. TableOK'
  <2> HIDE DEF new
  <2>1. QED
    BY <1>1, <1>2, WriteRowsKeeps DEF IndInv
<1>4. JobsOK'
  <2>1. /\ job[w] \in Jobs /\ job[w].kind \in {"add_tags", "remove_tags"}
        /\ UNCHANGED alias
    BY DEF WriteChunk, IndInv, JobsOK
  <2>2. CASE job' = [job EXCEPT ![w] = Idle]
    BY <2>1, <2>2, JobEnds DEF IndInv
  <2>3. CASE job' = [job EXCEPT ![w] = [j EXCEPT !.ids = @ \ chunk]]
    <3>1. [j EXCEPT !.ids = @ \ chunk] \in Jobs
      BY <2>1 DEF Jobs
    <3>2. QED
      BY <2>1, <2>3, <3>1 DEF IndInv, JobsOK
  <2>4. QED
    BY <2>2, <2>3 DEF WriteChunk
<1>5. QED
  BY <1>3, <1>4 DEF IndInv

LEMMA AbortKeeps ==
    ASSUME IndInv, NEW w \in Writers, Abort(w)
    PROVE  IndInv'
  BY JobEnds DEF Abort, IndInv, TableOK, RefCountExact

LEMMA DeleteNovelsKeeps ==
    ASSUME IndInv, NEW S, DeleteNovels(S)
    PROVE  IndInv'
<1> DEFINE new == [n \in Novels |-> IF n \in S THEN Absent ELSE row[n]]
<1>1. new \in [Novels -> Arrays] /\ WriteRows(new) /\ UNCHANGED <<alias, job>>
  BY DEF DeleteNovels, IndInv, TableOK, Arrays
<1> HIDE DEF new
<1>2. QED
  BY <1>1, WriteRowsKeeps DEF IndInv, JobsOK

\* The empty library.
LEMMA InitEstablishes ==
    Init => IndInv
<1> SUFFICES ASSUME Init PROVE IndInv
  OBVIOUS
<1>1. \A t : {n \in Novels : t \in TagsOf(row[n])} = {}
  BY DEF Init, TagsOf
<1>2. \A t : Cardinality({n \in Novels : t \in TagsOf(row[n])}) = 0
  BY <1>1, FS_EmptySet
<1>3. QED
  BY <1>2 DEF Init, IndInv, TableOK, JobsOK, Arrays, RefCountExact

\* Every step keeps the invariant.
LEMMA NextKeeps ==
    IndInv /\ [Next]_vars => IndInv'
<1> SUFFICES ASSUME IndInv, [Next]_vars PROVE IndInv'
  OBVIOUS
<1>1. CASE UNCHANGED vars
  BY <1>1 DEF vars, IndInv, TableOK, JobsOK, RefCountExact
<1>2. ASSUME NEW s \in Tags, NEW t \in Tags, CreateAlias(s, t) PROVE IndInv'
  BY <1>2, CreateAliasKeeps
<1>3. ASSUME NEW s \in Tags, DeleteAlias(s) PROVE IndInv'
  BY <1>3, DeleteAliasKeeps
<1>4. ASSUME NEW S, DeleteNovels(S) PROVE IndInv'
  BY <1>4, DeleteNovelsKeeps
<1>5. ASSUME NEW w \in Writers, NEW n \in Novels, NEW S \in SourceTags,
             BeginRefresh(w, n, S) \/ BeginPatch(w, n, S)
      PROVE  IndInv'
  BY <1>5, BeginRefreshKeeps, BeginPatchKeeps
<1>6. ASSUME NEW w \in Writers, NEW op \in {"add_tags", "remove_tags"},
             NEW S \in SourceTags, NEW ids \in (SUBSET Novels) \ {{}},
             BeginBatch(w, op, ids, S)
      PROVE  IndInv'
  BY <1>6, BeginBatchKeeps
<1>7. ASSUME NEW w \in Writers,
             ReadRow(w) \/ WriteRefresh(w) \/ WritePatch(w) \/ Abort(w)
      PROVE  IndInv'
  BY <1>7, ReadRowKeeps, WriteRefreshKeeps, WritePatchKeeps, AbortKeeps
<1>8. ASSUME NEW w \in Writers, NEW chunk, WriteChunk(w, chunk) PROVE IndInv'
  BY <1>8, WriteChunkKeeps
<1>9. QED
  BY <1>1, <1>2, <1>3, <1>4, <1>5, <1>6, <1>7, <1>8 DEF Next

\* The invariant holds in every state of the store.
THEOREM TagInvariance ==
    Spec => []IndInv
  BY InitEstablishes, NextKeeps, PTL DEF Spec

\* Rows, counts, aliases and transactions keep their types.
THEOREM TagTypes ==
    Spec => []TypeOK
<1>1. IndInv => TypeOK
  BY DEF IndInv, TableOK, JobsOK, Arrays, TypeOK
<1>2. QED
  BY <1>1, TagInvariance, PTL

\* The trigger's bookkeeping: a tag's reference_count is the number of novels
\* that carry it, whatever mixture of statements has written the arrays.
THEOREM CountsAreExact ==
    Spec => []RefCountExact
<1>1. IndInv => RefCountExact
  BY DEF IndInv, TableOK
<1>2. QED
  BY <1>1, TagInvariance, PTL

----------------------------------------------------------------------------
(* What a writer brings back *)

\* A name that has an alias is resolved to by the names aliased to it alone.
LEMMA ResolvedName ==
    ASSUME JobsOK, NEW w \in Writers, job[w] # Idle, ~ReadIsStale(w),
           NEW s \in job[w].resolved, alias[s] # NoTag
    PROVE  \E r \in Tags : alias[r] = s
<1>1. job[w] \in Jobs
  BY DEF JobsOK
<1>2. job[w].raw \in SUBSET Tags
  BY <1>1 DEF Jobs
<1>3. s \in Resolve(job[w].raw)
  BY DEF ReadIsStale
<1>4. PICK r \in job[w].raw : s = AliasMap(r)
  BY <1>3 DEF Resolve
<1>5. QED
  BY <1>2, <1>4 DEF AliasMap

\* A step that leaves the rows or takes tags away brings no name back.
LEMMA NothingBrought ==
    ASSUME NEW n \in Novels, NEW s \in Tags, alias'[s] = alias[s],
           s \in TagsOf(row'[n]) => s \in TagsOf(row[n])
    PROVE  (alias'[s] # NoTag /\ s \in TagsOf(row'[n])) =>
              \/ alias[s] # NoTag /\ s \in TagsOf(row[n])
              \/ \E w \in Writers : Acts(w) /\ ReadIsStale(w)
              \/ \E r \in Tags : alias'[r] = s
  OBVIOUS

\* A new alias leaves its source on no row.
LEMMA AliasEmptiesSource ==
    ASSUME IndInv, NEW a \in Tags, NEW b \in Tags, CreateAlias(a, b),
           NEW n \in Novels, NEW s \in Tags, s \in TagsOf(row'[n])
    PROVE  s # a /\ (s = b \/ s \in TagsOf(row[n]))
<1>1. row'[n] = IF a \in TagsOf(row[n]) THEN ReplaceTag(row[n], a, b) ELSE row[n]
  BY DEF CreateAlias, WriteRows, ApplyAlias
<1>2. a # b
  BY DEF CreateAlias
<1>3. CASE a \in TagsOf(row[n])
  <2>1. row[n] \in TagArray
    BY <1>3 DEF IndInv, TableOK, Arrays, TagsOf
  <2>2. ReplaceTag(row[n], a, b) \in TagArray
    BY <2>1 DEF ReplaceTag, TagArray
  <2>3. ReplaceTag(row[n], a, b)[s] > 0
    BY <1>1, <1>3, <2>2, TagsOfArray
  <2>4. s # a /\ (s = b \/ row[n][s] > 0)
    BY <1>2, <2>1, <2>3 DEF ReplaceTag, TagArray
  <2>5. QED
    BY <2>1, <2>4, TagsOfArray
<1>4. CASE a \notin TagsOf(row[n])
  BY <1>1, <1>4
<1>5. QED
  BY <1>3, <1>4

\* What a batch leaves on a row was there or is among the names it adds.
LEMMA EditBrings ==
    ASSUME NEW r \in Arrays, NEW S, NEW s \in Tags
    PROVE  /\ s \in TagsOf(AddTags(r, S)) => s \in S \/ s \in TagsOf(r)
           /\ s \in TagsOf(RemoveTags(r, S)) => s \in TagsOf(r)
<1>1. CASE r \in TagArray
  <2>1. /\ [t \in Tags |-> IF t \in S THEN 1 ELSE r[t]] \in TagArray
        /\ [t \in Tags |-> IF t \in S THEN 0 ELSE r[t]] \in TagArray
    BY <1>1 DEF TagArray
  <2>2. QED
    BY <1>1, <2>1, TagsOfArray DEF AddTags, RemoveTags
<1>2. CASE r = Absent
  BY <1>2 DEF AddTags, RemoveTags
<1>3. QED
  BY <1>1, <1>2 DEF Arrays

\* The writers' steps.
LEMMA WriterBrings ==
    ASSUME IndInv, NEW w \in Writers, NEW chunk,
           WriteRefresh(w) \/ WritePatch(w) \/ WriteChunk(w, chunk),
           NEW n \in Novels, NEW s \in Tags, ~ReadIsStale(w) \/ ~Acts(w),
           s \in TagsOf(row'[n])
    PROVE  s \in TagsOf(row[n]) \/ (s \in job[w].resolved /\ ~ReadIsStale(w))
<1> DEFINE j == job[w]
<1>1. j # Idle /\ j \in Jobs
  BY DEF WriteRefresh, WritePatch, WriteChunk, IndInv, JobsOK
<1>2. CASE WriteRefresh(w)
  <2>1. Acts(w)
    BY <1>1, <1>2 DEF WriteRefresh, Acts, IndInv, JobsOK
  <2>2. j.resolved \in SUBSET Tags /\ j.seen \in (SUBSET Tags) \cup {Absent}
    BY <1>1, <1>2 DEF WriteRefresh, Jobs
  <2>3. j.seen = Absent \/ j.seen = TagsOf(row[j.novel])
    BY <1>2, <2>1 DEF ReadIsStale, WriteRefresh
  <2>4. \/ row'[n] = row[n]
        \/ row'[n] = Once(j.resolved)
        \/ n = j.novel /\ j.seen # Absent /\ row'[n] = Once(j.seen \cup j.resolved)
    BY <1>2 DEF WriteRefresh, WriteRows, RefreshedTags, IndInv, TableOK
  <2>5. QED
    BY <2>1, <2>2, <2>3, <2>4, OnceHolds
<1>3. CASE WritePatch(w)
  <2>1. Acts(w)
    BY <1>1, <1>3 DEF WritePatch, Acts, IndInv, JobsOK
  <2>2. j.resolved \in SUBSET Tags
    BY <1>1, <1>3 DEF WritePatch, Jobs
  <2>3. row'[n] = row[n] \/ row'[n] = Once(j.resolved)
    BY <1>3 DEF WritePatch, WriteRows, IndInv, TableOK
  <2>4. QED
    BY <2>1, <2>2, <2>3, OnceHolds
<1>4. CASE WriteChunk(w, chunk)
  <2>1. \/ row'[n] = row[n]
        \/ /\ n \in chunk
           /\ \/ row'[n] = AddTags(row[n], j.resolved)
              \/ row'[n] = RemoveTags(row[n], j.resolved)
    BY <1>4 DEF WriteChunk, WriteRows
  <2>2. n \in chunk => Acts(w)
    <3>1. chunk \subseteq j.ids /\ j.kind \in {"add_tags", "remove_tags"}
      BY <1>4 DEF WriteChunk
    <3>2. CASE job' = [job EXCEPT ![w] = Idle]
      BY <1>1, <3>2 DEF Acts, IndInv, JobsOK
    <3>3. CASE job' = [job EXCEPT ![w] = [j EXCEPT !.ids = @ \ chunk]]
      <4>1. job'[w] = [j EXCEPT !.ids = @ \ chunk]
        BY <3>3 DEF IndInv, JobsOK
      <4>2. job'[w].ids = j.ids \ chunk
        BY <1>1, <3>1, <4>1 DEF Jobs
      <4>3. QED
        BY <1>1, <3>1, <4>2 DEF Acts
    <3>4. QED
      BY <1>4, <3>2, <3>3 DEF WriteChunk
  <2>3. row[n] \in Arrays
    BY DEF IndInv, TableOK
  <2>4. /\ s \in TagsOf(AddTags(row[n], j.resolved)) =>
             s \in j.resolved \/ s \in TagsOf(row[n])
        /\ s \in TagsOf(RemoveTags(row[n], j.resolved)) => s \in TagsOf(row[n])
    BY <2>3, EditBrings
  <2>5. CASE row'[n] = row[n]
    BY <2>5
  <2>6. CASE n \in chunk /\ row'[n] = AddTags(row[n], j.resolved)
    BY <2>2, <2>4, <2>6
  <2>7. CASE n \in chunk /\ row'[n] = RemoveTags(row[n], j.resolved)
    BY <2>4, <2>7
  <2>8. QED
    BY <2>1, <2>5, <2>6, <2>7
<1>5. QED
  BY <1>2, <1>3, <1>4

\* An aliased name stays away: it comes to a row only from a writer whose reads
\* have been overtaken, or as another alias's target.
THEOREM AliasesHold ==
    Spec => AliasedNameStaysAway
<1> DEFINE Away(n, s) ==
      (alias'[s] # NoTag /\ s \in TagsOf(row'[n])) =>
         \/ alias[s] # NoTag /\ s \in TagsOf(row[n])
         \/ \E w \in Writers : Acts(w) /\ ReadIsStale(w)
         \/ \E r \in Tags : alias'[r] = s
<1>1. ASSUME IndInv, [Next]_vars, NEW n \in Novels, NEW s \in Tags
      PROVE  Away(n, s)
  <2>1. CASE row' = row /\ alias' = alias
    BY <2>1
  <2>2. ASSUME NEW a \in Tags, NEW b \in Tags, CreateAlias(a, b)
        PROVE  Away(n, s)
    <3>1. alias' = [alias EXCEPT ![a] = b]
      BY <2>2 DEF CreateAlias
    <3>2. alias'[a] = b /\ (s # a => alias'[s] = alias[s])
      BY <1>1, <3>1 DEF IndInv, JobsOK
    <3>3. s \in TagsOf(row'[n]) => s # a /\ (s = b \/ s \in TagsOf(row[n]))
      BY <1>1, <2>2, AliasEmptiesSource
    <3>4. QED
      BY <3>2, <3>3
  <2>3. ASSUME NEW a \in Tags, DeleteAlias(a)
        PROVE  Away(n, s)
    BY <1>1, <2>3 DEF DeleteAlias, IndInv, JobsOK
  <2>4. ASSUME NEW S, DeleteNovels(S)
        PROVE  Away(n, s)
    <3>1. row'[n] = Absent \/ row'[n] = row[n]
      BY <2>4 DEF DeleteNovels, WriteRows
    <3>2. QED
      BY <2>4, <3>1 DEF DeleteNovels, TagsOf
  <2>5. ASSUME NEW w \in Writers, NEW chunk,
               WriteRefresh(w) \/ WritePatch(w) \/ WriteChunk(w, chunk)
        PROVE  Away(n, s)
    <3>1. alias' = alias /\ job[w] # Idle
      BY <2>5 DEF WriteRefresh, WritePatch, WriteChunk
    <3>2. CASE Acts(w) /\ ReadIsStale(w)
      BY <3>2
    <3>3. CASE ~(Acts(w) /\ ReadIsStale(w))
      <4>1. s \in TagsOf(row'[n]) =>
              s \in TagsOf(row[n]) \/ (s \in job[w].resolved /\ ~ReadIsStale(w))
        BY <1>1, <2>5, <3>3, WriterBrings
      <4>2. s \in job[w].resolved /\ ~ReadIsStale(w) /\ alias[s] # NoTag
              => \E r \in Tags : alias[r] = s
        BY <1>1, <3>1, ResolvedName DEF IndInv
      <4>3. QED
        BY <3>1, <4>1, <4>2
    <3>4. QED
      BY <3>2, <3>3
  <2> HIDE DEF Away
  <2>6. CASE UNCHANGED vars
    BY <2>1, <2>6 DEF vars
  <2>7. ASSUME NEW w \in Writers,
               \/ \E m \in Novels, S \in SourceTags :
                    BeginRefresh(w, m, S) \/ BeginPatch(w, m, S)
               \/ \E op \in {"add_tags", "remove_tags"}, S \in SourceTags,
                     ids \in (SUBSET Novels) \ {{}} : BeginBatch(w, op, ids, S)
               \/ ReadRow(w) \/ Abort(w)
        PROVE  Away(n, s)
    BY <2>1, <2>7 DEF BeginRefresh, BeginPatch, BeginBatch, ReadRow, Abort
  <2>8. QED
    BY <1>1, <2>2, <2>3, <2>4, <2>5, <2>6, <2>7 DEF Next
<1>2. IndInv /\ [Next]_vars
      => [\A n \in Novels, s \in Tags :
            (alias'[s] # NoTag /\ s \in TagsOf(row'[n])) =>
               \/ alias[s] # NoTag /\ s \in TagsOf(row[n])
               \/ \E w \in Writers : Acts(w) /\ ReadIsStale(w)
               \/ \E r \in Tags : alias'[r] = s]_vars
  BY <1>1
<1>3. QED
  BY <1>2, TagInvariance, PTL DEF Spec, AliasedNameStaysAway

\* The refresh writes the union with what it read: unless another commit has
\* overtaken its read, no tag of the row is lost.
THEOREM RefreshesOnlyAdd ==
    Spec => UncrossedRefreshOnlyAdds
<1>1. ASSUME IndInv, [Next]_vars, NEW w \in Writers, Refreshes(w), ~ReadIsStale(w)
      PROVE  TagsOf(row[job[w].novel]) \subseteq TagsOf(row'[job[w].novel])
  <2> DEFINE j == job[w]
             Grows == TagsOf(row[j.novel]) \subseteq TagsOf(row'[j.novel])
  <2>1. /\ j \in Jobs /\ j.kind = "refresh" /\ j.read /\ job'[w] # j
        /\ row[j.novel] # Absent /\ row'[j.novel] # Absent
        /\ j.seen = Absent \/ j.seen = TagsOf(row[j.novel])
    BY <1>1 DEF Refreshes, Acts, ReadIsStale, IndInv, JobsOK
  <2>2. /\ j.novel \in Novels /\ j.resolved \in SUBSET Tags
        /\ j.seen \in (SUBSET Tags) \cup {Absent}
    BY <2>1 DEF Jobs
  <2>3. CASE row' = row
    BY <2>3
  <2>4. CASE WriteRefresh(w)
    <3>1. CASE UNCHANGED <<row, refCount>>
      BY <3>1
    <3>2. CASE /\ j.seen # Absent
               /\ row' = [row EXCEPT ![j.novel] = RefreshedTags(j)]
      <4>1. row'[j.novel] = RefreshedTags(j)
        BY <1>1, <2>2, <3>2 DEF IndInv, TableOK
      <4>2. QED
        BY <2>1, <2>2, <3>2, <4>1, OnceHolds DEF RefreshedTags
    <3>3. QED
      BY <2>1, <2>4, <3>1, <3>2 DEF WriteRefresh, WriteRows
  <2>5. ASSUME NEW v \in Writers, v # w,
               \/ WriteRefresh(v) \/ WritePatch(v) \/ \E chunk : WriteChunk(v, chunk)
        PROVE  FALSE
    <3>1. job'[w] = job[w]
      BY <1>1, <2>5 DEF WriteRefresh, WritePatch, WriteChunk, IndInv, JobsOK
    <3>2. QED
      BY <2>1, <3>1
  <2>6. ~WritePatch(w) /\ ~\E chunk : WriteChunk(w, chunk)
    BY <2>1 DEF WritePatch, WriteChunk
  <2>7. ~(\E s, t \in Tags : CreateAlias(s, t)) /\ ~(\E S : DeleteNovels(S))
    BY <2>1 DEF CreateAlias, DeleteNovels
  <2> HIDE DEF Grows
  <2>8. CASE UNCHANGED vars
    BY <2>3, <2>8 DEF vars
  <2>9. ASSUME NEW v \in Writers,
               \/ \E m \in Novels, S \in SourceTags :
                    BeginRefresh(v, m, S) \/ BeginPatch(v, m, S)
               \/ \E op \in {"add_tags", "remove_tags"}, S \in SourceTags,
                     ids \in (SUBSET Novels) \ {{}} : BeginBatch(v, op, ids, S)
               \/ ReadRow(v) \/ Abort(v)
        PROVE  Grows
    BY <2>3, <2>9 DEF BeginRefresh, BeginPatch, BeginBatch, ReadRow, Abort, Grows
  <2>10. ASSUME NEW s \in Tags, DeleteAlias(s) PROVE Grows
    BY <2>3, <2>10 DEF DeleteAlias, Grows
  <2>11. Grows
    BY <1>1, <2>3, <2>4, <2>5, <2>6, <2>7, <2>8, <2>9, <2>10 DEF Next, Grows
  <2>12. QED
    BY <2>11 DEF Grows
<1>2. IndInv /\ [Next]_vars
      => [\A w \in Writers : Refreshes(w) /\ ~ReadIsStale(w) =>
            TagsOf(row[job[w].novel]) \subseteq TagsOf(row'[job[w].novel])]_vars
  BY <1>1
<1>3. QED
  BY <1>2, TagInvariance, PTL DEF Spec, UncrossedRefreshOnlyAdds


----------------------------------------------------------------------------
(* MetadataEdit *)

\* What a request remembers of rows that only a commit changes, and what it has
\* resolved: a known author's name is always found.
RequestOK(r) ==
    /\ r.phase \in {"new", "author"} => r.authorIs = Null
    /\ r.authorIs # Null => r.authorIs = r.author
    /\ r.phase = "write" => r.kind = "patch"
    /\ r.phase \in {"update", "fill", "finish"} => r.kind = "batch"
    /\ r.phase = "fill" => r.author = Null
    /\ r.phase \in {"new", "author", "authorNet", "series", "seriesNet", "write", "update",
                    "fill", "done"} => r.filled = {}
    /\ r.phase = "finish" =>
         r.filled = IF r.author = Null THEN {b \in r.books : authorName[b] = Null} ELSE {}
    /\ r.phase \notin {"new", "done"} =>
         /\ r.kind = "patch" => \A b \in r.books : r.nameRead = authorName[b]
         /\ r.phase = "authorNet" => ~KnownLocally(r.author)
         /\ r.phase \notin {"author", "authorNet"} /\ KnownLocally(r.author) =>
              r.authorIs = r.author
    /\ r.phase \in {"fill", "finish"} => r.rows = {b \in r.books : Changes(r, b)}

\* A request asks Pixiv for the name of an id.
AsksOK(r) ==
    /\ r.phase = "authorNet" => r.author \in Authors
    /\ r.phase = "seriesNet" => r.series \in Series

\* What holds while no commit has overtaken another request.
EditInv ==
    /\ Distinct /\ EditTypeOK
    /\ SerialEditsKeepNames
    /\ \A q \in Requests : AsksOK(req[q])
    /\ ~overtaken => \A q \in Requests : RequestOK(req[q])

\* No id is a marker.
LEMMA MarkersUnknown ==
    ASSUME EditInv
    PROVE  ~KnownLocally(Null) /\ ~KnownLocally(Keep)
BY DEF EditInv, Distinct, EditTypeOK, KnownLocally

\* A step that commits nothing keeps the invariant if its request is sound.
LEMMA StepKeeps ==
    ASSUME EditInv, NEW q \in Requests, NEW r \in Request, NEW next \in Requests \cup {Free},
           Step(q, r, next), AsksOK(r), ~overtaken => RequestOK(r)
    PROVE  EditInv'
<1>1. /\ req' = [req EXCEPT ![q] = r] /\ loop' = next
      /\ UNCHANGED <<local, author, authorName, series, seriesName, named, overtaken>>
  BY DEF Step
<1>2. EditTypeOK'
  BY <1>1 DEF EditInv, EditTypeOK
<1>3. SerialEditsKeepNames' /\ Distinct'
  BY <1>1 DEF EditInv, SerialEditsKeepNames, KnownLocally, Distinct, Ids
<1>4. ASSUME ~overtaken', NEW p \in Requests PROVE RequestOK(req[p])'
  <2>1. RequestOK(req'[p])
    <3>1. req'[p] = IF p = q THEN r ELSE req[p]
      BY <1>1 DEF EditInv, EditTypeOK
    <3>2. QED
      BY <1>1, <1>4, <3>1 DEF EditInv
  <2>2. QED
    BY <1>1, <2>1 DEF RequestOK, KnownLocally, Changes, NewAuthor,
                      NewSeries, NewSeriesName
<1>5. ASSUME NEW p \in Requests PROVE AsksOK(req[p])'
  <2>1. req'[p] = IF p = q THEN r ELSE req[p]
    BY <1>1 DEF EditInv, EditTypeOK
  <2>2. QED
    BY <2>1 DEF EditInv, AsksOK
<1>6. QED
  BY <1>2, <1>3, <1>4, <1>5 DEF EditInv

LEMMA DoneOK ==
    ASSUME EditInv, NEW r \in Request
    PROVE  Done(r) \in Request /\ RequestOK(Done(r)) /\ AsksOK(Done(r))
<1>1. /\ Done(r) \in Request /\ Done(r).phase = "done" /\ Done(r).filled = {}
      /\ Done(r).authorIs = Null
  BY DEF Done, Request, Phases
<1>2. QED
  BY <1>1 DEF RequestOK, AsksOK

LEMMA ArriveKeeps ==
    ASSUME EditInv, NEW q \in Requests, NEW a \in Authors \cup {Null, Keep},
           NEW s \in Series \cup {Null, Keep},
           \/ \E b \in Books : ArrivePatch(q, b, a, s)
           \/ \E books \in SUBSET Books : ArriveBatch(q, books, a, s)
    PROVE  EditInv'
<1>1. /\ req[q] \in Request /\ req[q].phase = "new"
      /\ ~overtaken => req[q].authorIs = Null /\ req[q].filled = {}
  BY DEF EditInv, EditTypeOK, RequestOK, ArrivePatch, ArriveBatch, MayArrive
<1>2. ASSUME NEW b \in Books, ArrivePatch(q, b, a, s) PROVE EditInv'
  <2> DEFINE r == [req[q] EXCEPT !.kind = "patch", !.author = a, !.series = s,
                                 !.books = {b}, !.nameRead = authorName[b]]
             go == [r EXCEPT !.phase = "author"]
  <2>1. r \in Request /\ go \in Request
    BY <1>1 DEF EditInv, EditTypeOK, Request, Phases
  <2>2. /\ go.phase = "author" /\ go.kind = "patch" /\ go.books = {b}
        /\ go.nameRead = authorName[b] /\ go.authorIs = req[q].authorIs
        /\ go.filled = req[q].filled
    BY <1>1 DEF Request
  <2>3. \/ Step(q, go, q)
        \/ Step(q, Done(r), Free)
    BY <1>2 DEF ArrivePatch
  <2> HIDE DEF r, go
  <2>4. AsksOK(go) /\ (~overtaken => RequestOK(go))
    BY <1>1, <2>2 DEF RequestOK, AsksOK
  <2>5. QED
    BY <2>1, <2>3, <2>4, StepKeeps, DoneOK
<1>3. ASSUME NEW books \in SUBSET Books, ArriveBatch(q, books, a, s) PROVE EditInv'
  <2> DEFINE r == [req[q] EXCEPT !.kind = "batch", !.author = a, !.series = s,
                                 !.books = Narrowed(books)]
             go == [r EXCEPT !.phase = "author"]
  <2>0. Narrowed(books) \in SUBSET Books
    BY DEF Narrowed
  <2>1. r \in Request /\ go \in Request
    <3> HIDE DEF Narrowed
    <3>1. r \in Request
      BY <1>1, <2>0 DEF Request
    <3>2. go \in Request
      BY <3>1 DEF Request, Phases
    <3>3. QED
      BY <3>1, <3>2
  <2>2. /\ go.phase = "author" /\ go.kind = "batch" /\ go.authorIs = req[q].authorIs
        /\ go.filled = req[q].filled
    BY <1>1 DEF Request
  <2>3. \/ Step(q, go, Free)
        \/ Step(q, Done(r), Free)
    BY <1>3 DEF ArriveBatch
  <2> HIDE DEF r, go
  <2>4. AsksOK(go) /\ (~overtaken => RequestOK(go))
    BY <1>1, <2>2 DEF RequestOK, AsksOK
  <2>5. QED
    BY <2>1, <2>3, <2>4, StepKeeps, DoneOK
<1>4. QED
  BY <1>2, <1>3

LEMMA ResumeKeeps ==
    ASSUME EditInv, NEW q \in Requests, Resume(q)
    PROVE  EditInv'
<1>1. /\ req[q] \in Request /\ AsksOK(req[q]) /\ (~overtaken => RequestOK(req[q]))
      /\ Step(q, req[q], q)
  BY DEF EditInv, EditTypeOK, Resume
<1>2. QED
  BY <1>1, StepKeeps

\* The author half of a request: it goes on with the name when the author is
\* known, and asks Pixiv when he is not.
LEMMA AuthorKeeps ==
    ASSUME EditInv, NEW q \in Requests,
           AuthorColumns(q) \/ \E ok \in BOOLEAN : AuthorAnswer(q, ok)
    PROVE  EditInv'
<1> DEFINE r == req[q]
<1>1. r \in Request /\ (~overtaken => RequestOK(r))
  BY DEF EditInv, EditTypeOK
<1>2. r.author \notin Authors => ~KnownLocally(r.author)
  BY <1>1, MarkersUnknown DEF Request
<1>3. ASSUME AuthorColumns(q) PROVE EditInv'
  <2> DEFINE held == [r EXCEPT !.inserted = EnsureExists(q, r.author)]
             skip == [r EXCEPT !.phase = "series"]
             find == [held EXCEPT !.phase = "series", !.authorIs = r.author]
             ask  == [held EXCEPT !.phase = "authorNet"]
  <2>1. /\ r.phase = "author"
        /\ \/ r.author \notin Authors /\ Step(q, skip, q)
           \/ r.author \in Authors /\ KnownLocally(r.author) /\ Step(q, find, q)
           \/ r.author \in Authors /\ ~KnownLocally(r.author) /\ Step(q, ask, Free)
    BY <1>3 DEF AuthorColumns
  <2>2. r.author \in Authors => EnsureExists(q, r.author) \in SUBSET Ids
    BY <1>1 DEF EnsureExists, Request, Ids
  <2>3. CASE r.author \notin Authors /\ Step(q, skip, q)
    <3>1. /\ skip \in Request /\ skip.phase = "series"
          /\ skip.kind = r.kind /\ skip.books = r.books /\ skip.nameRead = r.nameRead
          /\ skip.author = r.author /\ skip.authorIs = r.authorIs /\ skip.filled = r.filled
      BY <1>1 DEF Request, Phases
    <3> HIDE DEF skip
    <3>2. AsksOK(skip) /\ (~overtaken => RequestOK(skip))
      BY <1>1, <1>2, <2>1, <2>3, <3>1 DEF RequestOK, AsksOK
    <3>3. QED
      BY <2>3, <3>1, <3>2, StepKeeps
  <2>4. CASE r.author \in Authors /\ KnownLocally(r.author) /\ Step(q, find, q)
    <3>1. /\ find \in Request /\ find.phase = "series"
          /\ find.kind = r.kind /\ find.books = r.books /\ find.nameRead = r.nameRead
          /\ find.author = r.author /\ find.authorIs = r.author /\ find.filled = r.filled
      BY <1>1, <2>2, <2>4 DEF Request, Phases
    <3> HIDE DEF find
    <3>2. AsksOK(find) /\ (~overtaken => RequestOK(find))
      BY <1>1, <2>1, <3>1 DEF RequestOK, AsksOK
    <3>3. QED
      BY <2>4, <3>1, <3>2, StepKeeps
  <2>5. CASE r.author \in Authors /\ ~KnownLocally(r.author) /\ Step(q, ask, Free)
    <3>1. /\ ask \in Request /\ ask.phase = "authorNet"
          /\ ask.kind = r.kind /\ ask.books = r.books /\ ask.nameRead = r.nameRead
          /\ ask.author = r.author /\ ask.authorIs = r.authorIs /\ ask.filled = r.filled
      BY <1>1, <2>2, <2>5 DEF Request, Phases
    <3> HIDE DEF ask
    <3>2. AsksOK(ask) /\ (~overtaken => RequestOK(ask))
      BY <1>1, <2>1, <2>5, <3>1 DEF RequestOK, AsksOK
    <3>3. QED
      BY <2>5, <3>1, <3>2, StepKeeps
  <2>6. QED
    BY <2>1, <2>3, <2>4, <2>5
<1>4. ASSUME NEW ok \in BOOLEAN, AuthorAnswer(q, ok) PROVE EditInv'
  <2> DEFINE name == IF ok THEN r.author ELSE Null
             next == [r EXCEPT !.phase = "series", !.authorIs = name]
  <2>1. r.phase = "authorNet" /\ Step(q, next, q)
    BY <1>4 DEF AuthorAnswer
  <2>2. name \in Authors \cup {Null}
    BY <2>1 DEF EditInv, AsksOK
  <2>3. QED
    <3>1. /\ next \in Request /\ next.phase = "series"
          /\ next.kind = r.kind /\ next.books = r.books /\ next.nameRead = r.nameRead
          /\ next.author = r.author /\ next.authorIs = name /\ next.filled = r.filled
      BY <1>1, <2>2 DEF Request, Phases
    <3>2. name # Null => name = r.author
      OBVIOUS
    <3> HIDE DEF next, name
    <3>3. AsksOK(next) /\ (~overtaken => RequestOK(next))
      BY <1>1, <2>1, <3>1, <3>2 DEF RequestOK, AsksOK
    <3>4. QED
      BY <2>1, <3>1, <3>3, StepKeeps
<1>5. QED
  BY <1>3, <1>4

\* The series half, likewise; it changes nothing of the author's.
LEMMA SeriesKeeps ==
    ASSUME EditInv, NEW q \in Requests,
           SeriesColumns(q) \/ \E ok \in BOOLEAN : SeriesAnswer(q, ok)
    PROVE  EditInv'
<1> DEFINE r == req[q]
           to == IF r.kind = "patch" THEN "write" ELSE "update"
           on == IF r.kind = "patch" THEN q ELSE Free
<1>1. r \in Request /\ (~overtaken => RequestOK(r)) /\ r.kind \in {"patch", "batch"}
  BY DEF EditInv, EditTypeOK, Request
<1>2. r.phase \in {"series", "seriesNet"}
  BY DEF SeriesColumns, SeriesAnswer
<1>3. ASSUME NEW n \in Request, n.phase \in {"seriesNet", to},
             n.phase = "seriesNet" => n.series \in Series,
             n.kind = r.kind, n.books = r.books, n.nameRead = r.nameRead,
             n.author = r.author, n.authorIs = r.authorIs, n.filled = r.filled
      PROVE  AsksOK(n) /\ (~overtaken => RequestOK(n))
  BY <1>1, <1>2, <1>3 DEF RequestOK, AsksOK
<1>4. to \in {"write", "update"} /\ on \in Requests \cup {Free}
  OBVIOUS
<1> HIDE DEF to, on
<1>5. ASSUME SeriesColumns(q) PROVE EditInv'
  <2> DEFINE held == [r EXCEPT !.inserted = EnsureExists(q, r.series)]
             skip == [r EXCEPT !.phase = to]
             find == [held EXCEPT !.phase = to, !.seriesIs = r.series]
             ask  == [held EXCEPT !.phase = "seriesNet"]
  <2>1. \/ r.series \notin Series /\ Step(q, skip, on)
        \/ r.series \in Series /\ Step(q, find, on)
        \/ r.series \in Series /\ Step(q, ask, Free)
    BY <1>5 DEF SeriesColumns, to, on
  <2>2. r.series \in Series => EnsureExists(q, r.series) \in SUBSET Ids
    BY <1>1 DEF EnsureExists, Request, Ids
  <2>3. CASE r.series \notin Series /\ Step(q, skip, on)
    <3>1. /\ skip \in Request /\ skip.phase = to
          /\ skip.kind = r.kind /\ skip.books = r.books /\ skip.nameRead = r.nameRead
          /\ skip.author = r.author /\ skip.authorIs = r.authorIs /\ skip.filled = r.filled
      BY <1>1, <1>4 DEF Request, Phases
    <3>2. QED
      BY <1>3, <1>4, <2>3, <3>1, StepKeeps
  <2>4. CASE r.series \in Series /\ Step(q, find, on)
    <3>1. /\ find \in Request /\ find.phase = to
          /\ find.kind = r.kind /\ find.books = r.books /\ find.nameRead = r.nameRead
          /\ find.author = r.author /\ find.authorIs = r.authorIs /\ find.filled = r.filled
      BY <1>1, <1>4, <2>2, <2>4 DEF Request, Phases
    <3>2. QED
      BY <1>3, <1>4, <2>4, <3>1, StepKeeps
  <2>5. CASE r.series \in Series /\ Step(q, ask, Free)
    <3>1. /\ ask \in Request /\ ask.phase = "seriesNet" /\ ask.series = r.series
          /\ ask.kind = r.kind /\ ask.books = r.books /\ ask.nameRead = r.nameRead
          /\ ask.author = r.author /\ ask.authorIs = r.authorIs /\ ask.filled = r.filled
      BY <1>1, <2>2, <2>5 DEF Request, Phases
    <3>2. QED
      BY <1>3, <2>5, <3>1, StepKeeps
  <2>6. QED
    BY <2>1, <2>3, <2>4, <2>5
<1>6. ASSUME NEW ok \in BOOLEAN, SeriesAnswer(q, ok) PROVE EditInv'
  <2> DEFINE name == IF ok THEN r.series ELSE Null
             next == [r EXCEPT !.phase = to, !.seriesIs = name]
  <2>1. r.phase = "seriesNet" /\ Step(q, next, on)
    BY <1>6 DEF SeriesAnswer, to, on
  <2>2. name \in Series \cup {Null}
    BY <2>1 DEF EditInv, AsksOK
  <2>3. /\ next \in Request /\ next.phase = to
        /\ next.kind = r.kind /\ next.books = r.books /\ next.nameRead = r.nameRead
        /\ next.author = r.author /\ next.authorIs = r.authorIs /\ next.filled = r.filled
    BY <1>1, <1>4, <2>2 DEF Request, Phases
  <2>4. QED
    BY <1>3, <1>4, <2>1, <2>3, StepKeeps
<1>7. QED
  BY <1>5, <1>6

\* The statements of the batch: which rows it writes, and which names it fills,
\* is what the rows say when nothing commits in between.
LEMMA BatchKeeps ==
    ASSUME EditInv, NEW q \in Requests, BatchUpdate(q) \/ BatchFill(q)
    PROVE  EditInv'
<1> DEFINE r == req[q]
<1>1. r \in Request /\ (~overtaken => RequestOK(r)) /\ loop \in Requests \cup {Free}
  BY DEF EditInv, EditTypeOK
<1>2. ASSUME BatchUpdate(q) PROVE EditInv'
  <2> DEFINE changed == {b \in r.books : Changes(r, b)}
             to == IF r.author = Null THEN "fill" ELSE "finish"
             next == [r EXCEPT !.rows = changed, !.phase = to]
  <2>1. r.phase = "update" /\ Step(q, next, loop)
    BY <1>2 DEF BatchUpdate
  <2>2. to \in {"fill", "finish"} /\ (to = "fill" <=> r.author = Null) /\ changed \subseteq Books
    BY <1>1 DEF Request
  <2>3. \A b \in Books : Changes(next, b) <=> Changes(r, b)
    BY <1>1 DEF Request, Changes, NewAuthor, NewSeries, NewSeriesName
  <2> HIDE DEF to, changed
  <2>4. /\ next \in Request /\ next.phase = to /\ next.rows = changed
        /\ next.kind = r.kind /\ next.books = r.books /\ next.nameRead = r.nameRead
        /\ next.author = r.author /\ next.authorIs = r.authorIs /\ next.filled = r.filled
        /\ r.books \subseteq Books
    BY <1>1, <2>2 DEF Request, Phases
  <2>5. next.rows = {b \in next.books : Changes(next, b)}
    BY <2>3, <2>4 DEF changed
  <2> HIDE DEF next
  <2>6. AsksOK(next) /\ (~overtaken => RequestOK(next))
    BY <1>1, <2>1, <2>2, <2>4, <2>5 DEF RequestOK, AsksOK
  <2>7. QED
    BY <1>1, <2>1, <2>4, <2>6, StepKeeps
<1>3. ASSUME BatchFill(q) PROVE EditInv'
  <2> DEFINE blank == {b \in r.books : authorName[b] = Null}
             next == [r EXCEPT !.filled = blank, !.phase = "finish"]
  <2>1. r.phase = "fill" /\ Step(q, next, loop)
    BY <1>3 DEF BatchFill
  <2>2. blank \subseteq Books
    BY <1>1 DEF Request
  <2>3. \A b \in Books : Changes(next, b) <=> Changes(r, b)
    BY <1>1 DEF Request, Changes, NewAuthor, NewSeries, NewSeriesName
  <2> HIDE DEF blank
  <2>4. /\ next \in Request /\ next.phase = "finish" /\ next.rows = r.rows
        /\ next.kind = r.kind /\ next.books = r.books /\ next.nameRead = r.nameRead
        /\ next.author = r.author /\ next.authorIs = r.authorIs /\ next.filled = blank
        /\ r.books \subseteq Books
    BY <1>1, <2>2 DEF Request, Phases
  <2>5. ~overtaken => next.rows = {b \in next.books : Changes(next, b)}
    BY <1>1, <2>1, <2>3, <2>4 DEF RequestOK
  <2> HIDE DEF next
  <2>6. AsksOK(next) /\ (~overtaken => RequestOK(next))
    BY <1>1, <2>1, <2>4, <2>5 DEF RequestOK, AsksOK, blank
  <2>7. QED
    BY <1>1, <2>1, <2>4, <2>6, StepKeeps
<1>4. QED
  BY <1>2, <1>3

LEMMA LockTimeoutKeeps ==
    ASSUME EditInv, NEW q \in Requests, LockTimeout(q)
    PROVE  EditInv'
<1>1. /\ Step(q, Done(req[q]), IF loop = q THEN Free ELSE loop)
      /\ req[q] \in Request /\ (IF loop = q THEN Free ELSE loop) \in Requests \cup {Free}
  BY DEF LockTimeout, EditInv, EditTypeOK
<1>2. QED
  BY <1>1, StepKeeps, DoneOK

\* The commit of a request that overtakes nobody: each book either keeps its
\* name or has the one that goes with its new author.
LEMMA CommitKeeps ==
    ASSUME EditInv, NEW q \in Requests, req[q].phase \in {"write", "finish"},
           NEW changed, NEW name \in [Books -> Authors \cup {Null, OwnName, Unknown}],
           Commit(q, changed, name),
           ~overtaken => \A b \in Books :
             /\ b \notin changed \/ req[q].author = Keep => name[b] = authorName[b]
             /\ b \in changed /\ req[q].author = Null => name[b] # Null
    PROVE  EditInv'
<1> DEFINE r == req[q]
<1>1. /\ r \in Request /\ EditTypeOK /\ Distinct /\ (~overtaken => RequestOK(r))
      /\ r.author \in Authors \cup {Null, Keep} /\ r.series \in Series \cup {Null, Keep}
      /\ r.authorIs \in Authors \cup {Null} /\ r.seriesIs \in Series \cup {Null}
      /\ r.inserted \subseteq Ids
  BY DEF EditInv, EditTypeOK, Request
<1>2. /\ author' = [b \in Books |-> IF b \in changed THEN NewAuthor(r, b) ELSE author[b]]
      /\ authorName' = [b \in Books |->
                          IF r.authorIs # Null /\ author'[b] = r.authorIs THEN r.authorIs
                          ELSE name[b]]
      /\ series' = [b \in Books |-> IF b \in changed THEN NewSeries(r, b) ELSE series[b]]
      /\ seriesName' = [b \in Books |-> IF b \in changed THEN NewSeriesName(r, b)
                                        ELSE seriesName[b]]
      /\ named' = [id \in DOMAIN named \cup r.inserted |->
                     id \in {r.authorIs, r.seriesIs} \/ (id \in DOMAIN named /\ named[id])]
      /\ req' = [req EXCEPT ![q] = Done(r)] /\ loop' = Free /\ local' = local
      /\ overtaken' = (overtaken \/ \E p \in Requests \ {q} :
                                       req[p].phase \notin {"new", "done"})
  BY DEF Commit
<1> HIDE DEF r
<1>3. Done(r) \in Request /\ RequestOK(Done(r)) /\ AsksOK(Done(r))
  BY <1>1, DoneOK
<1>4. EditTypeOK'
  <2>1. author' \in [Books -> Authors \cup {Null}]
    BY <1>1, <1>2 DEF EditTypeOK, NewAuthor
  <2>2. authorName' \in [Books -> Authors \cup {Null, OwnName, Unknown}]
    BY <1>1, <1>2
  <2>3. series' \in [Books -> Series \cup {Null}]
    BY <1>1, <1>2 DEF EditTypeOK, NewSeries
  <2>4. seriesName' \in [Books -> Series \cup {Null}]
    BY <1>1, <1>2 DEF EditTypeOK, NewSeriesName
  <2>5. /\ DOMAIN named' = (DOMAIN named) \cup r.inserted
        /\ \A id \in DOMAIN named' :
             named'[id] = (id \in {r.authorIs, r.seriesIs} \/ (id \in DOMAIN named /\ named[id]))
    BY <1>2
  <2>6. DOMAIN named' \subseteq Ids /\ \A id \in DOMAIN named' : named'[id] \in BOOLEAN
    BY <1>1, <2>5 DEF EditTypeOK
  <2>7. req' \in [Requests -> Request]
    BY <1>1, <1>2, <1>3 DEF EditTypeOK
  <2>8. overtaken' \in BOOLEAN
    BY <1>1, <1>2 DEF EditTypeOK
  <2>9. QED
    BY <1>1, <1>2, <2>1, <2>2, <2>3, <2>4, <2>6, <2>7, <2>8 DEF EditTypeOK
<1> DEFINE After(id) == id \in DOMAIN named' /\ named'[id]
<1>5. ASSUME NEW id, After(id)
      PROVE  id # Null /\ (id \in {r.authorIs, r.seriesIs} \/ KnownLocally(id))
  <2>1. id \in Ids
    BY <1>4, <1>5 DEF EditTypeOK, Ids
  <2>2. id \in {r.authorIs, r.seriesIs} \/ (id \in DOMAIN named /\ named[id])
    BY <1>2, <1>5
  <2>3. QED
    BY <1>1, <2>1, <2>2 DEF KnownLocally, Distinct
<1>6. ASSUME ~overtaken', NEW b \in Books
      PROVE  /\ author'[b] = Null => authorName'[b] # Null
             /\ After(author'[b]) => authorName'[b] = author'[b]
  <2>1. ~overtaken /\ RequestOK(r)
    BY <1>1, <1>2, <1>6
  <2>2. /\ author[b] = Null => authorName[b] # Null
        /\ KnownLocally(author[b]) => authorName[b] = author[b]
    BY <2>1 DEF EditInv, SerialEditsKeepNames
  <2>3. /\ author'[b] = IF b \in changed /\ r.author # Keep THEN r.author ELSE author[b]
        /\ authorName'[b] = IF r.authorIs # Null /\ author'[b] = r.authorIs THEN r.authorIs
                            ELSE name[b]
        /\ author'[b] \in Authors \cup {Null}
    BY <1>2, <1>4 DEF NewAuthor, EditTypeOK
  <2>4. /\ b \notin changed \/ r.author = Keep => name[b] = authorName[b]
        /\ b \in changed /\ r.author = Null => name[b] # Null
    BY <2>1 DEF r
  <2>5. author'[b] = Null => authorName'[b] # Null
    BY <2>2, <2>3, <2>4
  <2>6. ASSUME After(author'[b]) PROVE authorName'[b] = author'[b]
    <3>1. author'[b] \in Authors /\ author'[b] # r.seriesIs
      BY <1>1, <1>5, <2>3, <2>6 DEF Distinct, Ids
    <3>2. CASE author'[b] = r.authorIs
      BY <2>3, <3>1, <3>2, <1>5, <2>6
    <3>3. CASE author'[b] # r.authorIs
      <4>1. KnownLocally(author'[b]) /\ authorName'[b] = name[b]
        BY <1>5, <2>3, <2>6, <3>1, <3>3
      <4>2. r.phase \in {"write", "finish"}
        BY DEF r
      <4>3. ~(b \in changed /\ r.author # Keep)
        BY <2>1, <2>3, <3>3, <4>1, <4>2 DEF RequestOK
      <4>4. QED
        BY <2>2, <2>3, <2>4, <4>1, <4>3
    <3>4. QED
      BY <3>2, <3>3
  <2>7. QED
    BY <2>5, <2>6
<1>7. SerialEditsKeepNames'
  BY <1>6 DEF SerialEditsKeepNames, KnownLocally
<1>8. ASSUME NEW p \in Requests
      PROVE  AsksOK(req[p])' /\ (~overtaken' => RequestOK(req[p])')
  <2>1. req'[p] = IF p = q THEN Done(r) ELSE req[p]
    BY <1>1, <1>2 DEF EditTypeOK
  <2>2. AsksOK(req[p])'
    BY <1>3, <2>1 DEF EditInv, AsksOK
  <2>3. ASSUME ~overtaken' PROVE RequestOK(req[p])'
    <3>1. req'[p].phase \in {"new", "done"} /\ RequestOK(req'[p])
      <4>1. CASE p = q
        BY <1>1, <1>3, <2>1, <4>1 DEF Done, Request
      <4>2. CASE p # q
        BY <1>2, <2>1, <2>3, <4>2 DEF EditInv
      <4>3. QED
        BY <4>1, <4>2
    <3>2. QED
      BY <3>1 DEF RequestOK
  <2>4. QED
    BY <2>2, <2>3
<1>9. QED
  BY <1>1, <1>4, <1>7, <1>8 DEF EditInv, Distinct, Ids

\* The PATCH: of the book it edits it has read the name.
LEMMA PatchCommitKeeps ==
    ASSUME EditInv, NEW q \in Requests, SavePatch(q)
    PROVE  EditInv'
<1> DEFINE r == req[q]
           name == [b \in Books |-> IF b \in r.books THEN PatchName(r, b) ELSE authorName[b]]
<1>1. /\ r \in Request /\ r.phase = "write" /\ EditTypeOK /\ Distinct
      /\ ~overtaken => RequestOK(r)
      /\ Commit(q, r.books, name)
  BY DEF EditInv, EditTypeOK, SavePatch
<1>2. name \in [Books -> Authors \cup {Null, OwnName, Unknown}]
  BY <1>1 DEF EditTypeOK, Request, PatchName, NameOnUnlink
<1>3. ASSUME ~overtaken, NEW b \in Books
      PROVE  /\ b \notin r.books \/ r.author = Keep => name[b] = authorName[b]
             /\ b \in r.books /\ r.author = Null => name[b] # Null
  <2>1. b \in r.books => r.nameRead = authorName[b]
    BY <1>1, <1>3 DEF RequestOK
  <2>2. r.author = Keep => PatchName(r, b) = authorName[b]
    BY <1>1 DEF PatchName, Distinct, Ids
  <2>3. r.author = Null /\ b \in r.books => PatchName(r, b) # Null
    BY <1>1, <2>1 DEF PatchName, NameOnUnlink, Distinct
  <2>4. QED
    BY <2>2, <2>3
<1> HIDE DEF name
<1>4. QED
  BY <1>1, <1>2, <1>3, CommitKeeps

\* The batch: a book of its selection that it did not have to write already has
\* what it would have got.
LEMMA BatchFinishKeeps ==
    ASSUME EditInv, NEW q \in Requests, BatchFinish(q)
    PROVE  EditInv'
<1> DEFINE r == req[q]
           name == [b \in Books |-> BatchName(r, b)]
<1>1. /\ r \in Request /\ r.phase = "finish" /\ EditTypeOK /\ Distinct
      /\ ~overtaken => RequestOK(r)
      /\ Commit(q, r.rows, name)
  BY DEF EditInv, EditTypeOK, BatchFinish
<1>2. name \in [Books -> Authors \cup {Null, OwnName, Unknown}]
  BY <1>1 DEF EditTypeOK, Request, BatchName, NameOnUnlink
<1>3. ASSUME ~overtaken, NEW b \in Books
      PROVE  /\ b \notin r.rows \/ r.author = Keep => name[b] = authorName[b]
             /\ b \in r.rows /\ r.author = Null => name[b] # Null
  <2>1. /\ r.filled = IF r.author = Null THEN {c \in r.books : authorName[c] = Null} ELSE {}
        /\ r.rows = {c \in r.books : Changes(r, c)}
    BY <1>1, <1>3 DEF RequestOK
  <2>2. b \in r.filled => b \in r.rows /\ r.author = Null
    <3>1. author[b] = Null => authorName[b] # Null
      BY <1>3 DEF EditInv, SerialEditsKeepNames
    <3>2. b \in r.filled => b \in r.books /\ r.author = Null /\ author[b] # Null
      BY <2>1, <3>1
    <3>3. b \in r.filled => Changes(r, b)
      BY <1>1, <3>2 DEF Changes, NewAuthor, Distinct
    <3>4. QED
      BY <2>1, <3>2, <3>3
  <2>3. b \in r.rows /\ r.author = Null /\ b \notin r.filled => authorName[b] # Null
    BY <2>1
  <2>4. Null \notin Authors /\ Keep \notin Authors /\ Keep # Null /\ Unknown # Null
    BY <1>1 DEF Distinct, Ids
  <2>5. /\ b \in r.filled => name[b] = Unknown
        /\ b \notin r.filled /\ ~(b \in r.rows /\ r.author \in Authors) => name[b] = authorName[b]
    BY <2>2, <2>4 DEF BatchName, NameOnUnlink
  <2>6. QED
    BY <2>2, <2>3, <2>4, <2>5
<1> HIDE DEF name
<1>4. QED
  BY <1>1, <1>2, <1>3, CommitKeeps

LEMMA EditStarts == EditInit => EditInv
<1> SUFFICES ASSUME EditInit PROVE EditInv
  OBVIOUS
<1>1. NewRequest \in Request
  BY DEF NewRequest, Request, Phases
<1>2. /\ DOMAIN named \subseteq Ids /\ \A id \in DOMAIN named : named[id] = FALSE
  BY DEF EditInit, Ids
<1>3. EditTypeOK
  BY <1>1, <1>2 DEF EditInit, EditTypeOK
<1>4. SerialEditsKeepNames
  BY <1>2, EditAssumption DEF EditInit, SerialEditsKeepNames, KnownLocally, Distinct
<1>5. \A q \in Requests : AsksOK(req[q]) /\ RequestOK(req[q])
  BY DEF EditInit, NewRequest, AsksOK, RequestOK
<1>6. QED
  BY <1>3, <1>4, <1>5, EditAssumption DEF EditInv

LEMMA EditSteps ==
    ASSUME EditInv, [EditNext]_editVars
    PROVE  EditInv'
<1>1. ASSUME NEW q \in Requests, Handler(q) PROVE EditInv'
  BY <1>1, ResumeKeeps, AuthorKeeps, SeriesKeeps, PatchCommitKeeps, BatchKeeps, BatchFinishKeeps,
     LockTimeoutKeeps DEF Handler
<1>2. ASSUME NEW q \in Requests, PatchNovel(q) \/ BatchMetadata(q) PROVE EditInv'
  BY <1>2, ArriveKeeps DEF PatchNovel, BatchMetadata
<1>3. CASE UNCHANGED editVars
  <2>1. UNCHANGED <<local, author, authorName, series, seriesName, named, req, loop, overtaken>>
    BY <1>3 DEF editVars
  <2>2. EditTypeOK' /\ Distinct'
    BY <2>1 DEF EditInv, EditTypeOK, Distinct, Ids
  <2>3. SerialEditsKeepNames'
    BY <2>1 DEF EditInv, SerialEditsKeepNames, KnownLocally
  <2>4. ASSUME NEW q \in Requests PROVE AsksOK(req[q])' /\ (~overtaken' => RequestOK(req[q])')
    BY <2>1 DEF EditInv, AsksOK, RequestOK, KnownLocally, Changes, NewAuthor,
                NewSeries, NewSeriesName
  <2>5. QED
    BY <2>2, <2>3, <2>4 DEF EditInv
<1>4. QED
  BY <1>1, <1>2, <1>3 DEF EditNext

\* While no commit overtakes another request, what requests remember of the rows
\* is what the rows say, for any books, authors, series and number of requests.
THEOREM EditInvariance == EditSpec => []EditInv
<1>1. EditInit => EditInv
  BY EditStarts
<1>2. EditInv /\ [EditNext]_editVars => EditInv'
  BY EditSteps
<1>3. QED
  BY <1>1, <1>2, PTL DEF EditSpec

\* Books, author and series rows and requests stay in their types.
THEOREM EditTypes == EditSpec => []EditTypeOK
<1>1. EditInv => EditTypeOK
  BY DEF EditInv
<1>2. QED
  BY <1>1, EditInvariance, PTL

\* _author_columns and its batch form: edits that do not overlap leave no book
\* without an author's name, and no book with a name that is not its author's.
THEOREM EditsKeepNames == EditSpec => []SerialEditsKeepNames
<1>1. EditInv => SerialEditsKeepNames
  BY DEF EditInv
<1>2. QED
  BY <1>1, EditInvariance, PTL
=============================================================================
