------------------------------ MODULE TagStore ------------------------------
(***************************************************************************)
(* Tags of the library (features/tags, the tag writes of features/novels   *)
(* and the sync_tag_refs trigger of the migrations).                       *)
(*                                                                         *)
(* A novel row keeps its tags in an array column, the tag table keeps a    *)
(* stored reference_count, and tag_alias renames one tag to another, both  *)
(* on the rows already stored and on every later write.  Four writers      *)
(* touch the array: the source refresh (reads the row, then writes the     *)
(* union), the batch add and remove (one set-based UPDATE per chunk), the  *)
(* editor (replaces the array) and the alias itself (array_replace).       *)
(*                                                                         *)
(* Transactions run at READ COMMITTED.  A transaction's first writing      *)
(* statement takes the row locks it keeps to its commit, so that statement *)
(* and the commit are one step here; what the transaction READ before it   *)
(* is a step of its own, and may be stale when the write comes.            *)
(***************************************************************************)
EXTENDS Integers, FiniteSets

CONSTANTS
    Novels,      \* ids of novels
    Tags,        \* tag names
    Writers,     \* transactions that can be under way at once
    SourceTags,  \* the tag sets the source or a user may submit
    MaxOccurs,   \* bound: how often one name may occur in one array
    NoTag,       \* "this tag has no alias"
    Absent,      \* "there is no such novel row" / "nothing read yet"
    Idle         \* "this writer has no transaction open"

VARIABLES
    row,         \* novel -> Absent, or how often each tag occurs in its array
    refCount,    \* tag -> tag.reference_count
    alias,       \* source tag -> target tag, or NoTag
    job          \* writer -> its open transaction

vars == <<row, refCount, alias, job>>

TagArray == [Tags -> Nat]

Jobs ==
    [kind : {"refresh", "patch"}, novel : Novels, raw : SUBSET Tags,
     resolved : SUBSET Tags, seen : (SUBSET Tags) \cup {Absent}, read : BOOLEAN]
    \cup [kind : {"add_tags", "remove_tags"}, ids : SUBSET Novels,
          raw : SUBSET Tags, resolved : SUBSET Tags]

ASSUME TagAssumption ==
    /\ IsFiniteSet(Novels)
    /\ SourceTags \subseteq SUBSET Tags
    /\ NoTag \notin Tags
    /\ Absent \notin TagArray /\ \A S \in SUBSET Tags : S # Absent
    /\ Idle \notin Jobs

-----------------------------------------------------------------------------
(* The tag array.                                                          *)

TagsOf(r) == IF r = Absent THEN {} ELSE {t \in Tags : r[t] > 0}

\* An array holding each tag of S once, as sorted(set) produces.
Once(S) == [t \in Tags |-> IF t \in S THEN 1 ELSE 0]

\* sync_tag_refs_batch, net effect of one statement on one tag: SELECT
\* DISTINCT id, tag_name over the new rows minus the same over the old rows.
TagDelta(old, new, t) ==
    Cardinality({n \in Novels : t \in TagsOf(new[n])})
    - Cardinality({n \in Novels : t \in TagsOf(old[n])})

\* Slip: the trigger counts occurrences instead of DISTINCT (row, tag) pairs.
SyncTagRefsNoDistinct(old, new) ==
    LET Occurs(r, t) == IF r = Absent THEN 0 ELSE r[t]
    IN  [t \in Tags |->
            LET gained == {n \in Novels : Occurs(new[n], t) > Occurs(old[n], t)}
                lost   == {n \in Novels : Occurs(new[n], t) < Occurs(old[n], t)}
            IN  refCount[t] + Cardinality(gained) - Cardinality(lost)]

\* The statement-level trigger: every tag with a non-zero delta is adjusted.
SyncTagRefs(old, new) == [t \in Tags |-> refCount[t] + TagDelta(old, new, t)]

\* One committed statement over the novel table, trigger included.
WriteRows(new) ==
    /\ row' = new
    /\ refCount' = SyncTagRefs(row, new)

-----------------------------------------------------------------------------
(* Aliases.                                                                *)

\* get_alias_map: one step of renaming, read from the committed table.
AliasMap(t) == IF alias[t] = NoTag THEN t ELSE alias[t]

\* _resolve_tag_aliases: every submitted name is replaced by its target.
Resolve(S) == {AliasMap(t) : t \in S}

\* array_replace(tags, source, target): every occurrence becomes the target,
\* so a row that held both names holds the target twice afterwards.
ReplaceTag(r, s, t) == [r EXCEPT ![t] = @ + r[s], ![s] = 0]

\* Slip: the alias is stored without rewriting the rows that carry it.
ApplyAliasToNone(s, t) == row

\* apply_alias_retroactively.
ApplyAlias(s, t) ==
    [n \in Novels |-> IF s \in TagsOf(row[n]) THEN ReplaceTag(row[n], s, t)
                      ELSE row[n]]

\* POST /tag-aliases: insert the alias and rewrite the rows, one transaction.
\* A source already aliased is a ValidationError and changes nothing.
CreateAlias(s, t) ==
    /\ s # t
    /\ alias[s] = NoTag
    /\ \A n \in Novels : row[n] # Absent => row[n][s] + row[n][t] <= MaxOccurs
    /\ alias' = [alias EXCEPT ![s] = t]
    /\ WriteRows(ApplyAlias(s, t))
    /\ UNCHANGED job

\* DELETE /tag-aliases/{id}: the rows keep the target name.
DeleteAlias(s) ==
    /\ alias[s] # NoTag
    /\ alias' = [alias EXCEPT ![s] = NoTag]
    /\ UNCHANGED <<row, refCount, job>>

-----------------------------------------------------------------------------
(* The source refresh: upsert_novels for one novel of the batch.           *)

\* The transaction opens and reads the alias map.
BeginRefresh(w, n, S) ==
    /\ job[w] = Idle
    /\ job' = [job EXCEPT ![w] =
                 [kind |-> "refresh", novel |-> n, raw |-> S,
                  resolved |-> Resolve(S), seen |-> Absent, read |-> FALSE]]
    /\ UNCHANGED <<row, refCount, alias>>

\* _fetch_existing_novels: the row as it is committed now.
ReadRow(w) ==
    /\ job[w] # Idle
    /\ job[w].kind = "refresh"
    /\ ~job[w].read
    /\ job' = [job EXCEPT ![w].read = TRUE,
                          ![w].seen = IF row[job[w].novel] = Absent THEN Absent
                                      ELSE TagsOf(row[job[w].novel])]
    /\ UNCHANGED <<row, refCount, alias>>

\* Slip: the refresh writes the source's tags instead of the union.
RefreshedTagsReplaced(j) ==
    IF j.resolved \subseteq j.seen THEN row[j.novel] ELSE Once(j.resolved)

\* Step 4 of upsert_novels: nothing is written when the source brings no new
\* tag, else the array becomes the sorted union of what was READ and what came.
RefreshedTags(j) ==
    IF j.resolved \subseteq j.seen THEN row[j.novel]
    ELSE Once(j.seen \cup j.resolved)

\* The write.  A row that appeared since the read is a UniqueViolation, one
\* that vanished a StaleDataError: both roll the transaction back.
WriteRefresh(w) ==
    LET j == job[w] IN
    /\ j # Idle
    /\ j.kind = "refresh"
    /\ j.read
    /\ job' = [job EXCEPT ![w] = Idle]
    /\ IF (j.seen = Absent) # (row[j.novel] = Absent)
         THEN UNCHANGED <<row, refCount>>
         ELSE WriteRows([row EXCEPT ![j.novel] =
                           IF j.seen = Absent THEN Once(j.resolved)
                           ELSE RefreshedTags(j)])
    /\ UNCHANGED alias

-----------------------------------------------------------------------------
(* The editor and the batch operations.                                    *)

\* PATCH /novels/{id} with tags: _normalize_tags reads the alias map.  An
\* author or series lookup may suspend the handler before the write.
BeginPatch(w, n, S) ==
    /\ job[w] = Idle
    /\ row[n] # Absent
    /\ job' = [job EXCEPT ![w] =
                 [kind |-> "patch", novel |-> n, raw |-> S,
                  resolved |-> Resolve(S), seen |-> Absent, read |-> TRUE]]
    /\ UNCHANGED <<row, refCount, alias>>

\* update_metadata: the array is replaced; a row deleted meanwhile is left.
WritePatch(w) ==
    LET j == job[w] IN
    /\ j # Idle
    /\ j.kind = "patch"
    /\ job' = [job EXCEPT ![w] = Idle]
    /\ IF row[j.novel] = Absent THEN UNCHANGED <<row, refCount>>
       ELSE WriteRows([row EXCEPT ![j.novel] = Once(j.resolved)])
    /\ UNCHANGED alias

\* POST /novels/batch and the batch_operation task: the alias map is read
\* once, in its own transaction for the task, before the first chunk.
BeginBatch(w, op, ids, S) ==
    /\ job[w] = Idle
    /\ job' = [job EXCEPT ![w] =
                 [kind |-> op, ids |-> ids, raw |-> S, resolved |-> Resolve(S)]]
    /\ UNCHANGED <<row, refCount, alias>>

\* add_tags_to_novels: array_append(array_remove(tags, t), t) for each tag, on
\* the rows that do not contain all of them.
AddTags(r, S) ==
    IF r = Absent \/ S \subseteq TagsOf(r) THEN r
    ELSE [t \in Tags |-> IF t \in S THEN 1 ELSE r[t]]

\* remove_tags_from_novels: array_remove of every occurrence.
RemoveTags(r, S) ==
    IF r = Absent THEN r ELSE [t \in Tags |-> IF t \in S THEN 0 ELSE r[t]]

\* One chunk of the selection, one UPDATE statement and its commit.  The
\* request handles its whole selection as one chunk; the task several.
WriteChunk(w, chunk) ==
    LET j == job[w]
        Edit(r) == IF j.kind = "add_tags" THEN AddTags(r, j.resolved)
                   ELSE RemoveTags(r, j.resolved)
    IN
    /\ j # Idle
    /\ j.kind \in {"add_tags", "remove_tags"}
    /\ chunk \subseteq j.ids
    /\ WriteRows([n \in Novels |-> IF n \in chunk THEN Edit(row[n]) ELSE row[n]])
    /\ job' = [job EXCEPT ![w] = IF chunk = j.ids THEN Idle
                                 ELSE [j EXCEPT !.ids = @ \ chunk]]
    /\ UNCHANGED alias

\* A lock wait that times out, or any other error, rolls the transaction back.
\* A later attempt starts over from its reads.
Abort(w) ==
    /\ job[w] # Idle
    /\ job' = [job EXCEPT ![w] = Idle]
    /\ UNCHANGED <<row, refCount, alias>>

\* delete / delete_many: the DELETE trigger takes the row's tags back.
DeleteNovels(S) ==
    /\ \A n \in S : row[n] # Absent
    /\ WriteRows([n \in Novels |-> IF n \in S THEN Absent ELSE row[n]])
    /\ UNCHANGED <<alias, job>>

-----------------------------------------------------------------------------
Init ==
    /\ row = [n \in Novels |-> Absent]
    /\ refCount = [t \in Tags |-> 0]
    /\ alias = [t \in Tags |-> NoTag]
    /\ job = [w \in Writers |-> Idle]

Next ==
    \/ \E s, t \in Tags : CreateAlias(s, t)
    \/ \E s \in Tags : DeleteAlias(s)
    \/ \E S \in (SUBSET Novels) \ {{}} : DeleteNovels(S)
    \/ \E w \in Writers :
         \/ \E n \in Novels, S \in SourceTags :
              BeginRefresh(w, n, S) \/ BeginPatch(w, n, S)
         \/ \E op \in {"add_tags", "remove_tags"}, S \in SourceTags,
               ids \in (SUBSET Novels) \ {{}} : BeginBatch(w, op, ids, S)
         \/ ReadRow(w) \/ WriteRefresh(w) \/ WritePatch(w) \/ Abort(w)
         \/ \E chunk \in (SUBSET Novels) \ {{}} : WriteChunk(w, chunk)

Spec == Init /\ [][Next]_vars

-----------------------------------------------------------------------------
TypeOK ==
    /\ row \in [Novels -> TagArray \cup {Absent}]
    /\ refCount \in [Tags -> Int]
    /\ alias \in [Tags -> Tags \cup {NoTag}]
    /\ job \in [Writers -> Jobs \cup {Idle}]

\* The stored reference_count of a tag is the number of novels that carry it,
\* whatever mixture of refreshes, edits, batches, aliases and deletions wrote
\* the arrays, and although array_replace can leave a name twice in one array.
\* Migrations 0002 and 0004 rest on this: nothing ever recounts.
RefCountExact ==
    \A t \in Tags :
        refCount[t] = Cardinality({n \in Novels : t \in TagsOf(row[n])})

\* The writer that acts in this step, and whether what it read is still so.
Acts(w) == job[w] # Idle /\ job'[w] # job[w]

ReadIsStale(w) ==
    \/ Resolve(job[w].raw) # job[w].resolved
    \/ /\ job[w].kind = "refresh"
       /\ job[w].seen # Absent
       /\ job[w].seen # TagsOf(row[job[w].novel])

\* An aliased name does not come back: a name that has an alias appears on a
\* row only where it already was, or from a transaction whose reads another
\* commit has overtaken, or as the target of another alias (an alias map is
\* applied one step deep, so a chain stops at its middle name).
AliasedNameStaysAway ==
    [][\A n \in Novels, s \in Tags :
         (alias'[s] # NoTag /\ s \in TagsOf(row'[n])) =>
            \/ alias[s] # NoTag /\ s \in TagsOf(row[n])
            \/ \E w \in Writers : Acts(w) /\ ReadIsStale(w)
            \/ \E r \in Tags : alias'[r] = s]_vars

\* What the refresh of this step does to its row.
Refreshes(w) ==
    /\ Acts(w) /\ job[w].kind = "refresh" /\ job[w].read
    /\ row[job[w].novel] # Absent /\ row'[job[w].novel] # Absent

\* A refresh that no other commit has overtaken only ever adds tags: the
\* names a user put on the row, and the ones the source has dropped, stay.
UncrossedRefreshOnlyAdds ==
    [][\A w \in Writers : Refreshes(w) /\ ~ReadIsStale(w) =>
         TagsOf(row[job[w].novel]) \subseteq TagsOf(row'[job[w].novel])]_vars
=============================================================================
