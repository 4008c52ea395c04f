------------------------ MODULE EpubPipelineProofs ------------------------
(***************************************************************************)
(* What a round that shares its novels with no other may rely on, and what *)
(* the sweep spares, for any novels, rounds, texts and bounds.             *)
(***************************************************************************)
EXTENDS EpubPipeline, TLAPS

\* A build reads a text that is there: a text is replaced, never removed.
TaskOK(n) ==
    task[n].body \in Marked => text[n] \in Bodies /\ taken[n] \in Bodies \cup {Keep}

\* A round waits for novels it has fetched, and leaves nothing when it ends.
RoundOK(r) ==
    /\ waits[r] \subseteq Mine(r)
    /\ Idle(r) => ids[r] = {} /\ Mine(r) = {}

\* The task of a fetched novel is in the round's reach: its future is on the
\* list, then among those the round waits for, then finished.
InReach(r, n) ==
    /\ rpc[r] = "fetch" /\ task[n] # NoTask => future[n]
    /\ rpc[r] = "gate" /\ task[n] # NoTask => n \in waits[r]
    /\ rpc[r] = "names" => task[n] = NoTask

\* The build a rewritten text with images needs is under way or has reported,
\* and what it has reported tells finished books from others.
BuildKnown(r, n) ==
    /\ rpc[r] # "names" /\ task[n] # NoTask => task[n].body \in Marked /\ outcome[n] = "none"
    /\ rpc[r] # "names" /\ task[n] = NoTask =>
         /\ outcome[n] = "done" => Full(n)
         /\ Full(n) => outcome[n] \in {"done", "failed"}
    /\ rpc[r] = "names" =>
         /\ n \in Done(r) => Full(n)
         /\ Full(n) => n \in DOMAIN drained[r] /\ drained[r][n] \in {"done", "failed"}

\* A round that shares its novels with no other.
SoloOK(r) ==
    r \in solo =>
      /\ \A q \in Rounds \ {r} : ids[q] \cap ids[r] = {}
      /\ rpc[r] = "fetch" =>
           \A n \in ids[r] \ Mine(r) : task[n] = NoTask /\ outcome[n] = "none"
      /\ \A n \in Mine(r) : InReach(r, n) /\ (draft[r][n] = "PENDING" => BuildKnown(r, n))

\* The sweep's verdicts on the novels whose row and files have not changed.
SweepOK ==
    spc = "judging" =>
      \A n \in Novels \ behind :
        text[n] \in Marked /\ Full(n) => verdict[n] \in {Keep, "DONE"}

IndInv ==
    /\ TypeOK /\ SweepOK
    /\ \A n \in Novels : TaskOK(n)
    /\ \A r \in Rounds : RoundOK(r) /\ SoloOK(r)
----------------------------------------------------------------------------
(* What a step leaves alone *)

LEMMA SweepStays ==
    ASSUME SweepOK, spc' = "judging" => spc = "judging" /\ behind \subseteq behind',
           verdict' = verdict,
           spc' = "judging" =>
             \A n \in Novels \ behind' : text'[n] = text[n] /\ book'[n] = book[n]
    PROVE  SweepOK'
BY DEF SweepOK, Full

LEMMA TaskStays ==
    ASSUME NEW n \in Novels, TaskOK(n), NoTask.body \notin Marked,
           task'[n] \in {task[n], NoTask}, text'[n] = text[n],
           taken'[n] \in {taken[n], text[n], Keep}
    PROVE  TaskOK(n)'
BY DEF TaskOK

LEMMA SoloStays ==
    ASSUME NEW r \in Rounds, SoloOK(r), Mine(r) \subseteq ids[r], r \in solo' => r \in solo,
           rpc'[r] = rpc[r], ids'[r] \subseteq ids[r], draft'[r] = draft[r],
           waits'[r] = waits[r], drained'[r] = drained[r],
           r \in solo' => \A n \in ids[r] : /\ task'[n] = task[n] /\ outcome'[n] = outcome[n]
                                            /\ future'[n] = future[n] /\ book'[n] = book[n],
           r \in solo' => \A q \in Rounds \ {r} : ids'[q] \cap ids'[r] = {}
    PROVE  SoloOK(r)'
<1> SUFFICES ASSUME r \in solo' PROVE SoloOK(r)'
  BY DEF SoloOK
<1>1. Mine(r)' = Mine(r)
  BY DEF Mine
<1>2. rpc'[r] = "fetch" =>
        \A n \in ids'[r] \ Mine(r)' : task'[n] = NoTask /\ outcome'[n] = "none"
  BY <1>1 DEF SoloOK
<1>3. ASSUME NEW n \in Mine(r)
      PROVE  InReach(r, n)' /\ (draft'[r][n] = "PENDING" => BuildKnown(r, n)')
  <2>1. InReach(r, n) /\ (draft[r][n] = "PENDING" => BuildKnown(r, n))
    BY DEF SoloOK
  <2>2. /\ task'[n] = task[n] /\ outcome'[n] = outcome[n]
        /\ future'[n] = future[n] /\ book'[n] = book[n]
    OBVIOUS
  <2>3. InReach(r, n)'
    BY <2>1, <2>2 DEF InReach
  <2>4. draft[r][n] = "PENDING" => BuildKnown(r, n)'
    BY <2>1, <2>2 DEF BuildKnown, Full, Done
  <2>5. QED
    BY <2>3, <2>4
<1>4. QED
  BY <1>1, <1>2, <1>3 DEF SoloOK

LEMMA NoTaskIsPlain == NoTask.body \notin Marked /\ NoTask \in Tasks
BY EpubAssumption DEF NoTask, Tasks

\* A round that is idle again is sound.
LEMMA EndedIsOK ==
    ASSUME NEW r \in Rounds, ids'[r] = {}, draft'[r] = NoDrafts, waits'[r] = {}
    PROVE  RoundOK(r)' /\ SoloOK(r)'
<1>1. Mine(r)' = {}
  BY DEF Mine, NoDrafts
<1>2. QED
  BY <1>1 DEF RoundOK, SoloOK

----------------------------------------------------------------------------
(* Each step keeps the invariant *)

LEMMA InitEstablishes == Init => IndInv
<1> SUFFICES ASSUME Init PROVE IndInv
  OBVIOUS
<1>1. \A r \in Rounds : Mine(r) = {} /\ DOMAIN drained[r] = {}
  BY DEF Init, Mine, NoDrafts
<1>2. TypeOK
  <2>1. \A r \in Rounds :
          /\ draft[r] \in [Mine(r) -> EpubStatus \cup {Keep}]
          /\ drained[r] \in [DOMAIN drained[r] -> Outcomes]
    BY <1>1 DEF Init, NoDrafts
  <2>2. QED
    BY <1>1, <2>1, NoTaskIsPlain DEF Init, TypeOK, EpubStatus
<1>3. \A n \in Novels : TaskOK(n)
  BY NoTaskIsPlain DEF Init, TaskOK
<1>4. \A r \in Rounds : RoundOK(r) /\ SoloOK(r)
  BY <1>1 DEF Init, RoundOK, SoloOK, Idle
<1>5. SweepOK
  BY DEF Init, SweepOK
<1>6. QED
  BY <1>2, <1>3, <1>4, <1>5 DEF IndInv

LEMMA StartRoundKeeps ==
    ASSUME IndInv, NEW r \in Rounds, NEW S \in SUBSET Novels, StartRound(r, S)
    PROVE  IndInv'
<1> DEFINE sharers == {q \in Rounds : ~Idle(q) /\ ids[q] \cap S # {}}
           leftovers == {n \in S : task[n] # NoTask \/ outcome[n] # "none"}
<1>1. /\ Idle(r) /\ rpc' = [rpc EXCEPT ![r] = "fetch"] /\ ids' = [ids EXCEPT ![r] = S]
      /\ solo' = IF sharers = {} /\ leftovers = {} THEN solo ELSE solo \ (sharers \cup {r})
      /\ UNCHANGED <<row, text, book, pics, old, draft, waits, drained, task, taken, future,
                     outcome, spc, seen, verdict, behind>>
  BY DEF StartRound, diskVars, loaderVars, sweepVars
<1>2. TypeOK /\ SweepOK /\ Mine(r) = {} /\ waits[r] = {}
  BY <1>1 DEF IndInv, RoundOK
<1>3. \A q \in Rounds : Mine(q)' = Mine(q)
  BY <1>1 DEF Mine
<1>4. TypeOK'
  BY <1>1, <1>2, <1>3 DEF TypeOK
<1>5. SweepOK' /\ \A n \in Novels : TaskOK(n)'
  BY <1>1 DEF IndInv, SweepOK, TaskOK, Full
<1>6. \A q \in Rounds : RoundOK(q)'
  BY <1>1, <1>2, <1>3 DEF IndInv, RoundOK, Idle, TypeOK
<1>7. ASSUME NEW q \in Rounds PROVE SoloOK(q)'
  <2>1. CASE q # r
    <3>1. /\ SoloOK(q) /\ Mine(q) \subseteq ids[q] /\ rpc'[q] = rpc[q] /\ ids'[q] = ids[q]
          /\ (Idle(q) => ids[q] = {})
      BY <1>1, <1>2, <2>1 DEF IndInv, TypeOK, RoundOK
    <3>2. q \in solo' => q \in solo /\ ids[q] \cap S = {}
      BY <1>1, <3>1
    <3>3. q \in solo' => \A p \in Rounds \ {q} : ids'[p] \cap ids'[q] = {}
      BY <1>1, <1>2, <3>1, <3>2 DEF SoloOK, TypeOK
    <3>4. QED
      BY <1>1, <3>1, <3>2, <3>3, SoloStays
  <2>2. CASE q = r
    <3> SUFFICES ASSUME r \in solo' PROVE SoloOK(r)'
      BY <2>2 DEF SoloOK
    <3>1. sharers = {} /\ leftovers = {} /\ Mine(r)' = {} /\ ids'[r] = S
      BY <1>1, <1>2, <1>3 DEF TypeOK
    <3>2. \A p \in Rounds \ {r} : ids'[p] \cap ids'[r] = {}
      <4> SUFFICES ASSUME NEW p \in Rounds \ {r} PROVE ids[p] \cap S = {}
        BY <1>1, <3>1
      <4>1. CASE Idle(p)
        BY <4>1 DEF IndInv, RoundOK
      <4>2. CASE ~Idle(p)
        BY <3>1, <4>2
      <4>3. QED
        BY <4>1, <4>2
    <3>3. \A n \in ids'[r] : task'[n] = NoTask /\ outcome'[n] = "none"
      BY <1>1, <3>1
    <3>4. QED
      BY <3>1, <3>2, <3>3 DEF SoloOK
  <2>3. QED
    BY <2>1, <2>2
<1>8. QED
  BY <1>4, <1>5, <1>6, <1>7 DEF IndInv

\* What process_novel_assets leaves for the novel and touches of no other.
LEMMA AssetsOK ==
    ASSUME TypeOK, NEW n \in Novels, NEW b \in Bodies \cup {NoText}, NEW o \in BOOLEAN,
           NEW force \in BOOLEAN, Assets(n, b, o, force)
    PROVE  /\ task' \in [Novels -> Tasks \cup {NoTask}]
           /\ taken' \in [Novels -> Bodies \cup {NoText, Keep}]
           /\ future' \in [Novels -> BOOLEAN]
           /\ outcome' \in [Novels -> Outcomes \cup {"none"}]
           /\ \A m \in Novels : future'[m] => task'[m] # NoTask
           /\ \A m \in Novels \ {n} : /\ task'[m] = task[m] /\ taken'[m] = taken[m]
                                      /\ future'[m] = future[m] /\ outcome'[m] = outcome[m]
           /\ \/ task'[n] = task[n] /\ taken'[n] = taken[n] /\ future'[n] = future[n]
              \/ /\ task'[n].body = b /\ task'[n] # NoTask
                 /\ taken'[n] = Keep /\ future'[n] /\ outcome'[n] = outcome[n]
           /\ task[n] = NoTask /\ outcome[n] = "none" /\ force /\ b \in Marked =>
                /\ task'[n] # NoTask /\ task'[n].body \in Marked /\ outcome'[n] = "none"
<1>1. CASE SettledBy(n, b, force)
  <2>1. outcome' = [outcome EXCEPT ![n] = "done"] /\ UNCHANGED <<task, taken, future>>
    BY <1>1 DEF Assets
  <2>2. ~(force /\ b \in Marked)
    BY <1>1 DEF SettledBy
  <2>3. QED
    BY <2>1, <2>2 DEF TypeOK, Outcomes
<1>2. CASE ~SettledBy(n, b, force) /\ ~o /\ b \notin Marked
  <2>1. outcome' = [outcome EXCEPT ![n] = "skipped"] /\ UNCHANGED <<task, taken, future>>
    BY <1>2 DEF Assets
  <2>2. QED
    BY <1>2, <2>1 DEF TypeOK, Outcomes
<1>3. CASE /\ ~SettledBy(n, b, force) /\ ~(~o /\ b \notin Marked) /\ task[n] # NoTask
  <2>1. UNCHANGED <<task, taken, future, outcome>>
    BY <1>3 DEF Assets, loaderVars
  <2>2. QED
    BY <1>3, <2>1 DEF TypeOK
<1>4. CASE /\ ~SettledBy(n, b, force) /\ ~(~o /\ b \notin Marked) /\ task[n] = NoTask
  <2> DEFINE new == [body |-> b, offered |-> o]
  <2>1. /\ task' = [task EXCEPT ![n] = new] /\ taken' = [taken EXCEPT ![n] = Keep]
        /\ future' = [future EXCEPT ![n] = TRUE] /\ outcome' = outcome
    BY <1>4 DEF Assets
  <2>2. new \in Tasks /\ new.body = b
    BY DEF Tasks
  <2>3. new # NoTask
    BY <1>4, EpubAssumption DEF NoTask
  <2> HIDE DEF new
  <2>4. QED
    BY <2>1, <2>2, <2>3 DEF TypeOK
<1>5. QED
  BY <1>1, <1>2, <1>3, <1>4

LEMMA FetchKeeps ==
    ASSUME IndInv, NEW r \in Rounds, NEW n \in Novels, NEW b \in Bodies \cup {NoText},
           NEW o \in BOOLEAN, NEW redownload \in BOOLEAN, Fetch(r, n, b, o, redownload)
    PROVE  IndInv'
<1> DEFINE rewrote == Rewrites(n, b, redownload)
           status == DraftStatus(b, rewrote)
           force == redownload \/ rewrote
<1>1. /\ rpc[r] = "fetch" /\ n \in ids[r] \ Mine(r)
      /\ text' = [text EXCEPT ![n] = SavedText(n, b, rewrote)]
      /\ old' = [old EXCEPT ![n] = old[n] /\ ~rewrote]
      /\ draft' = [draft EXCEPT ![r] =
             [m \in Mine(r) \cup {n} |-> IF m = n THEN status ELSE draft[r][m]]]
      /\ Assets(n, b, o, force)
      /\ Touch(IF rewrote THEN {n} ELSE {})
      /\ UNCHANGED <<row, book, pics, rpc, ids, waits, drained, spc, seen, verdict, solo>>
  BY DEF Fetch, Mine, sweepVars, IndInv, TypeOK
<1>2. TypeOK /\ SweepOK /\ TaskOK(n) /\ rewrote \in BOOLEAN /\ force \in BOOLEAN
  BY DEF IndInv, Rewrites, Unchanged
<1>3. /\ rewrote => b \in Bodies /\ text'[n] = b
      /\ ~rewrote => text'[n] = text[n]
      /\ ~rewrote /\ b # NoText => text[n] = b
      /\ \A m \in Novels \ {n} : text'[m] = text[m]
      /\ text' \in [Novels -> Bodies \cup {NoText}]
  BY <1>1, <1>2 DEF Rewrites, Unchanged, SavedText, TypeOK
<1>4. status \in EpubStatus \cup {Keep} /\ (status = "PENDING" => rewrote /\ b \in Marked)
  BY EpubAssumption DEF DraftStatus, EpubStatus
<1> HIDE DEF rewrote, status, force
<1>5. /\ task' \in [Novels -> Tasks \cup {NoTask}]
      /\ taken' \in [Novels -> Bodies \cup {NoText, Keep}]
      /\ future' \in [Novels -> BOOLEAN]
      /\ outcome' \in [Novels -> Outcomes \cup {"none"}]
      /\ \A m \in Novels : future'[m] => task'[m] # NoTask
      /\ \A m \in Novels \ {n} : /\ task'[m] = task[m] /\ taken'[m] = taken[m]
                                 /\ future'[m] = future[m] /\ outcome'[m] = outcome[m]
      /\ \/ task'[n] = task[n] /\ taken'[n] = taken[n] /\ future'[n] = future[n]
         \/ /\ task'[n].body = b /\ task'[n] # NoTask
            /\ taken'[n] = Keep /\ future'[n] /\ outcome'[n] = outcome[n]
      /\ task[n] = NoTask /\ outcome[n] = "none" /\ force /\ b \in Marked =>
           /\ task'[n] # NoTask /\ task'[n].body \in Marked /\ outcome'[n] = "none"
  BY <1>1, <1>2, AssetsOK
<1>6. /\ Mine(r)' = Mine(r) \cup {n} /\ DOMAIN draft' = Rounds
      /\ draft'[r] \in [Mine(r)' -> EpubStatus \cup {Keep}]
      /\ draft'[r][n] = status /\ \A m \in Mine(r) : draft'[r][m] = draft[r][m]
      /\ \A q \in Rounds \ {r} : draft'[q] = draft[q] /\ Mine(q)' = Mine(q)
  BY <1>1, <1>2, <1>4 DEF TypeOK, Mine
<1>7. TypeOK'
  <2>1. old' \in [Novels -> BOOLEAN] /\ behind' \subseteq Novels
    BY <1>1, <1>2 DEF TypeOK, Touch
  <2>2. \A q \in Rounds :
          /\ draft'[q] \in [Mine(q)' -> EpubStatus \cup {Keep}] /\ Mine(q)' \subseteq ids'[q]
          /\ drained'[q] \in [DOMAIN drained'[q] -> Outcomes]
          /\ DOMAIN drained'[q] \subseteq Mine(q)'
    BY <1>1, <1>2, <1>6 DEF TypeOK
  <2>3. QED
    BY <1>1, <1>2, <1>3, <1>5, <1>6, <2>1, <2>2 DEF TypeOK
<1>8. SweepOK'
  <2>1. spc = "judging" => behind \subseteq behind' /\ (rewrote => n \in behind')
    BY <1>1 DEF Touch
  <2>2. spc' = "judging" => \A m \in Novels \ behind' : text'[m] = text[m] /\ book'[m] = book[m]
    BY <1>1, <1>3, <2>1
  <2>3. QED
    BY <1>1, <1>2, <2>1, <2>2, SweepStays
<1>9. ASSUME NEW m \in Novels PROVE TaskOK(m)'
  <2>1. CASE m = n
    BY <1>2, <1>3, <1>5, <2>1, EpubAssumption DEF TaskOK
  <2>2. CASE m # n
    BY <1>3, <1>5, <2>2 DEF IndInv, TaskOK
  <2>3. QED
    BY <2>1, <2>2
<1>10. \A q \in Rounds : RoundOK(q)'
  BY <1>1, <1>6 DEF IndInv, RoundOK, Idle
<1>11. ASSUME NEW q \in Rounds PROVE SoloOK(q)'
  <2> SUFFICES ASSUME q \in solo PROVE SoloOK(q)'
    BY <1>1 DEF SoloOK
  <2>1. SoloOK(q) /\ Mine(q) \subseteq ids[q]
    BY <1>2 DEF IndInv, TypeOK
  <2>2. CASE q # r
    <3>1. n \notin ids[q] /\ ids[q] \subseteq Novels
      BY <1>1, <1>2, <2>1, <2>2 DEF SoloOK, TypeOK
    <3>2. \A m \in ids[q] : /\ task'[m] = task[m] /\ outcome'[m] = outcome[m]
                            /\ future'[m] = future[m] /\ book'[m] = book[m]
      BY <1>1, <1>5, <3>1
    <3>3. \A p \in Rounds \ {q} : ids'[p] \cap ids'[q] = {}
      BY <1>1, <2>1 DEF SoloOK
    <3>4. draft'[q] = draft[q]
      BY <1>6, <2>2
    <3>5. QED
      BY <1>1, <2>1, <3>2, <3>3, <3>4, SoloStays
  <2>3. CASE q = r
    <3>1. task[n] = NoTask /\ outcome[n] = "none"
      BY <1>1, <2>1, <2>3 DEF SoloOK
    <3>2. \A m \in ids[r] \ Mine(r)' : task'[m] = NoTask /\ outcome'[m] = "none"
      BY <1>1, <1>2, <1>5, <1>6, <2>1, <2>3 DEF SoloOK, TypeOK
    <3>3. InReach(r, n)'
      BY <1>1, <1>5, <3>1 DEF InReach
    <3>4. status = "PENDING" => BuildKnown(r, n)'
      BY <1>1, <1>4, <1>5, <3>1 DEF BuildKnown, force
    <3>5. ASSUME NEW m \in Mine(r)
          PROVE  InReach(r, m)' /\ (draft'[r][m] = "PENDING" => BuildKnown(r, m)')
      <4>1. InReach(r, m) /\ (draft[r][m] = "PENDING" => BuildKnown(r, m))
        BY <2>1, <2>3 DEF SoloOK
      <4>2. m \in Novels \ {n}
        BY <1>1, <1>2 DEF TypeOK
      <4>3. /\ task'[m] = task[m] /\ future'[m] = future[m] /\ outcome'[m] = outcome[m]
            /\ book'[m] = book[m] /\ waits' = waits /\ drained' = drained /\ rpc' = rpc
        BY <1>1, <1>5, <4>2
      <4>4. InReach(r, m)' /\ (draft[r][m] = "PENDING" => BuildKnown(r, m)')
        BY <4>1, <4>3 DEF InReach, BuildKnown, Full, Done
      <4>5. QED
        BY <1>6, <4>4
    <3>6. QED
      BY <1>1, <1>6, <2>1, <2>3, <3>2, <3>3, <3>4, <3>5 DEF SoloOK
  <2>4. QED
    BY <2>2, <2>3
<1>12. QED
  BY <1>7, <1>8, <1>9, <1>10, <1>11 DEF IndInv

LEMMA FetchFailsKeeps ==
    ASSUME IndInv, NEW r \in Rounds, NEW n \in Novels, FetchFails(r, n)
    PROVE  IndInv'
<1>1. /\ rpc[r] = "fetch" /\ n \in ids[r] \ Mine(r)
      /\ ids' = [ids EXCEPT ![r] = ids[r] \ {n}]
      /\ UNCHANGED <<row, text, book, pics, old, rpc, draft, waits, drained, task, taken,
                     future, outcome, spc, seen, verdict, solo, behind>>
  BY DEF FetchFails, Mine, diskVars, loaderVars, sweepVars, historyVars, IndInv, TypeOK
<1>2. TypeOK
  BY DEF IndInv
<1>3. \A q \in Rounds : Mine(q)' = Mine(q) /\ ids'[q] \subseteq ids[q] /\ Mine(q) \subseteq ids'[q]
  BY <1>1, <1>2 DEF Mine, TypeOK
<1>4. TypeOK'
  BY <1>1, <1>2, <1>3 DEF TypeOK
<1>5. SweepOK' /\ \A m \in Novels : TaskOK(m)'
  BY <1>1 DEF IndInv, SweepOK, TaskOK, Full
<1>6. \A q \in Rounds : RoundOK(q)'
  BY <1>1, <1>3 DEF IndInv, RoundOK, Idle
<1>7. ASSUME NEW q \in Rounds PROVE SoloOK(q)'
  <2>1. SoloOK(q) /\ Mine(q) \subseteq ids[q]
    BY <1>2 DEF IndInv, TypeOK
  <2>2. q \in solo => \A p \in Rounds \ {q} : ids'[p] \cap ids'[q] = {}
    BY <1>3, <2>1 DEF SoloOK
  <2>3. QED
    BY <1>1, <1>3, <2>1, <2>2, SoloStays
<1>8. QED
  BY <1>4, <1>5, <1>6, <1>7 DEF IndInv

LEMMA GateKeeps ==
    ASSUME IndInv, NEW r \in Rounds, Gate(r)
    PROVE  IndInv'
<1>1. /\ rpc[r] = "fetch" /\ rpc' = [rpc EXCEPT ![r] = "gate"]
      /\ waits' = [waits EXCEPT ![r] = OwnFutures(r)]
      /\ future' = [n \in Novels |-> future[n] /\ n \notin OwnFutures(r)]
      /\ UNCHANGED <<row, text, book, pics, old, ids, draft, drained, task, taken,
                     outcome, spc, seen, verdict, solo, behind>>
  BY DEF Gate, diskVars, sweepVars, historyVars
<1>2. TypeOK /\ Mine(r) \subseteq ids[r] /\ ids[r] \subseteq Novels /\ OwnFutures(r) \subseteq Mine(r)
  BY DEF IndInv, TypeOK, OwnFutures
<1>3. \A q \in Rounds : Mine(q)' = Mine(q)
  BY <1>1 DEF Mine
<1>4. TypeOK'
  <2>1. future' \in [Novels -> BOOLEAN] /\ \A n \in Novels : future'[n] => task'[n] # NoTask
    BY <1>1, <1>2 DEF TypeOK
  <2>2. waits' \in [Rounds -> SUBSET Novels] /\ rpc' \in [Rounds -> {"idle", "fetch", "gate", "names"}]
    BY <1>1, <1>2 DEF TypeOK
  <2>3. QED
    BY <1>1, <1>2, <1>3, <2>1, <2>2 DEF TypeOK
<1>5. SweepOK' /\ \A m \in Novels : TaskOK(m)'
  BY <1>1 DEF IndInv, SweepOK, TaskOK, Full
<1>6. \A q \in Rounds : RoundOK(q)'
  BY <1>1, <1>2, <1>3 DEF IndInv, RoundOK, Idle, TypeOK
<1>7. ASSUME NEW q \in Rounds PROVE SoloOK(q)'
  <2> SUFFICES ASSUME q \in solo PROVE SoloOK(q)'
    BY <1>1 DEF SoloOK
  <2>1. SoloOK(q) /\ Mine(q) \subseteq ids[q] /\ ids[q] \subseteq Novels
    BY <1>2 DEF IndInv, TypeOK
  <2>2. \A p \in Rounds \ {q} : ids'[p] \cap ids'[q] = {}
    BY <1>1, <2>1 DEF SoloOK
  <2>3. CASE q # r
    <3>1. ids[q] \cap OwnFutures(r) = {}
      BY <1>2, <2>1, <2>3 DEF SoloOK
    <3>2. \A m \in ids[q] : /\ task'[m] = task[m] /\ outcome'[m] = outcome[m]
                            /\ future'[m] = future[m] /\ book'[m] = book[m]
      BY <1>1, <1>2, <2>1, <3>1 DEF TypeOK
    <3>3. rpc'[q] = rpc[q] /\ waits'[q] = waits[q]
      BY <1>1, <1>2, <2>3 DEF TypeOK
    <3>4. QED
      BY <1>1, <2>1, <2>2, <3>2, <3>3, SoloStays
  <2>4. CASE q = r
    <3>1. rpc'[r] = "gate" /\ waits'[r] = OwnFutures(r)
      BY <1>1, <1>2 DEF TypeOK
    <3>2. ASSUME NEW m \in Mine(r)
          PROVE  InReach(r, m)' /\ (draft'[r][m] = "PENDING" => BuildKnown(r, m)')
      <4>1. InReach(r, m) /\ (draft[r][m] = "PENDING" => BuildKnown(r, m))
        BY <2>1, <2>4 DEF SoloOK
      <4>2. task[m] # NoTask => m \in OwnFutures(r)
        BY <1>1, <4>1 DEF InReach, OwnFutures
      <4>3. InReach(r, m)'
        BY <1>1, <3>1, <4>2 DEF InReach
      <4>4. draft[r][m] = "PENDING" => BuildKnown(r, m)'
        BY <1>1, <3>1, <4>1 DEF BuildKnown, Full, Done
      <4>5. QED
        BY <1>1, <4>3, <4>4
    <3>3. QED
      BY <1>3, <2>2, <2>4, <3>1, <3>2 DEF SoloOK
  <2>5. QED
    BY <2>3, <2>4
<1>8. QED
  BY <1>4, <1>5, <1>6, <1>7 DEF IndInv

LEMMA DrainKeeps ==
    ASSUME IndInv, NEW r \in Rounds, Drain(r)
    PROVE  IndInv'
<1>1. /\ rpc[r] = "gate" /\ waits[r] = {} /\ rpc' = [rpc EXCEPT ![r] = "names"]
      /\ drained' = [drained EXCEPT ![r] = [n \in OwnOutcomes(r) |-> outcome[n]]]
      /\ outcome' = [n \in Novels |-> IF n \in OwnOutcomes(r) THEN "none" ELSE outcome[n]]
      /\ UNCHANGED <<row, text, book, pics, old, ids, draft, waits, task, taken, future,
                     spc, seen, verdict, solo, behind>>
  BY DEF Drain, diskVars, sweepVars, historyVars
<1>2. TypeOK /\ Mine(r) \subseteq ids[r] /\ ids[r] \subseteq Novels /\ OwnOutcomes(r) \subseteq Mine(r)
  BY DEF IndInv, TypeOK, OwnOutcomes
<1>3. \A q \in Rounds : Mine(q)' = Mine(q)
  BY <1>1 DEF Mine
<1>4. /\ DOMAIN drained' = Rounds /\ drained'[r] = [n \in OwnOutcomes(r) |-> outcome[n]]
      /\ \A q \in Rounds \ {r} : drained'[q] = drained[q]
  BY <1>1, <1>2 DEF TypeOK
<1>5. TypeOK'
  <2>1. outcome' \in [Novels -> Outcomes \cup {"none"}]
    BY <1>1, <1>2 DEF TypeOK
  <2>2. drained'[r] \in [OwnOutcomes(r) -> Outcomes]
    BY <1>2, <1>4 DEF TypeOK, OwnOutcomes
  <2>3. \A q \in Rounds : /\ drained'[q] \in [DOMAIN drained'[q] -> Outcomes]
                          /\ DOMAIN drained'[q] \subseteq Mine(q)'
    BY <1>2, <1>3, <1>4, <2>2 DEF TypeOK
  <2>4. rpc' \in [Rounds -> {"idle", "fetch", "gate", "names"}]
    BY <1>1, <1>2 DEF TypeOK
  <2>5. QED
    BY <1>1, <1>2, <1>3, <1>4, <2>1, <2>3, <2>4 DEF TypeOK
<1>6. SweepOK' /\ \A m \in Novels : TaskOK(m)'
  BY <1>1 DEF IndInv, SweepOK, TaskOK, Full
<1>7. \A q \in Rounds : RoundOK(q)'
  BY <1>1, <1>2, <1>3 DEF IndInv, RoundOK, Idle, TypeOK
<1>8. ASSUME NEW q \in Rounds PROVE SoloOK(q)'
  <2> SUFFICES ASSUME q \in solo PROVE SoloOK(q)'
    BY <1>1 DEF SoloOK
  <2>1. SoloOK(q) /\ Mine(q) \subseteq ids[q] /\ ids[q] \subseteq Novels
    BY <1>2 DEF IndInv, TypeOK
  <2>2. \A p \in Rounds \ {q} : ids'[p] \cap ids'[q] = {}
    BY <1>1, <2>1 DEF SoloOK
  <2>3. CASE q # r
    <3>1. ids[q] \cap OwnOutcomes(r) = {}
      BY <1>2, <2>1, <2>3 DEF SoloOK
    <3>2. \A m \in ids[q] : /\ task'[m] = task[m] /\ outcome'[m] = outcome[m]
                            /\ future'[m] = future[m] /\ book'[m] = book[m]
      BY <1>1, <2>1, <3>1
    <3>3. rpc'[q] = rpc[q] /\ drained'[q] = drained[q]
      BY <1>1, <1>2, <1>4, <2>3 DEF TypeOK
    <3>4. QED
      BY <1>1, <2>1, <2>2, <3>2, <3>3, SoloStays
  <2>4. CASE q = r
    <3>1. rpc'[r] = "names"
      BY <1>1, <1>2 DEF TypeOK
    <3>2. ASSUME NEW m \in Mine(r)
          PROVE  InReach(r, m)' /\ (draft'[r][m] = "PENDING" => BuildKnown(r, m)')
      <4>1. InReach(r, m) /\ (draft[r][m] = "PENDING" => BuildKnown(r, m))
        BY <2>1, <2>4 DEF SoloOK
      <4>2. task[m] = NoTask
        BY <1>1, <4>1 DEF InReach
      <4>3. InReach(r, m)'
        BY <1>1, <3>1, <4>2 DEF InReach
      <4>4. ASSUME draft[r][m] = "PENDING" PROVE BuildKnown(r, m)'
        <5>1. /\ outcome[m] = "done" => Full(m)
              /\ Full(m) => outcome[m] \in {"done", "failed"}
          BY <1>1, <4>1, <4>2, <4>4 DEF BuildKnown
        <5>2. Full(m) => m \in OwnOutcomes(r)
          BY <5>1 DEF OwnOutcomes
        <5>3. Full(m)' <=> Full(m)
          BY <1>1 DEF Full
        <5>4. m \in Done(r)' => Full(m)
          BY <1>4, <5>1 DEF Done
        <5>5. Full(m) => m \in DOMAIN drained'[r] /\ drained'[r][m] \in {"done", "failed"}
          BY <1>4, <5>1, <5>2
        <5>6. QED
          BY <3>1, <5>3, <5>4, <5>5 DEF BuildKnown
      <4>5. QED
        BY <1>1, <4>3, <4>4
    <3>3. QED
      BY <1>3, <2>2, <2>4, <3>1, <3>2 DEF SoloOK
  <2>5. QED
    BY <2>3, <2>4
<1>9. QED
  BY <1>5, <1>6, <1>7, <1>8 DEF IndInv

\* A round ends; what it leaves in flight (D is dropped) is not another's.
LEMMA EndKeeps ==
    ASSUME IndInv, NEW r \in Rounds, NEW D \in SUBSET waits[r], EndRound(r),
           task' = [n \in Novels |-> IF n \in D THEN NoTask ELSE task[n]],
           future' = [n \in Novels |-> future[n] /\ n \notin D],
           UNCHANGED <<text, book, pics, old, taken, outcome, spc, seen, verdict>>,
           row' \in [Novels -> EpubStatus \cup {NoRow}], behind' \subseteq Novels,
           spc = "judging" => behind \subseteq behind'
    PROVE  IndInv'
<1>1. TypeOK /\ D \subseteq Mine(r) /\ Mine(r) \subseteq ids[r] /\ ids[r] \subseteq Novels
  BY DEF IndInv, TypeOK, RoundOK
<1>2. /\ rpc' = [rpc EXCEPT ![r] = "idle"] /\ ids' = [ids EXCEPT ![r] = {}]
      /\ draft' = [draft EXCEPT ![r] = NoDrafts] /\ waits' = [waits EXCEPT ![r] = {}]
      /\ drained' = [drained EXCEPT ![r] = NoDrafts] /\ solo' = solo \cup {r}
  BY DEF EndRound
<1>3. /\ \A q \in Rounds \ {r} :
           /\ rpc'[q] = rpc[q] /\ ids'[q] = ids[q] /\ draft'[q] = draft[q]
           /\ waits'[q] = waits[q] /\ drained'[q] = drained[q] /\ Mine(q)' = Mine(q)
      /\ ids'[r] = {} /\ draft'[r] = NoDrafts /\ waits'[r] = {} /\ drained'[r] = NoDrafts
      /\ DOMAIN draft' = Rounds /\ DOMAIN drained' = Rounds /\ Mine(r)' = {}
  BY <1>1, <1>2 DEF TypeOK, Mine, NoDrafts
<1>4. TypeOK'
  <2>1. /\ task' \in [Novels -> Tasks \cup {NoTask}] /\ future' \in [Novels -> BOOLEAN]
        /\ \A n \in Novels : future'[n] => task'[n] # NoTask
    BY <1>1 DEF TypeOK
  <2>2. /\ rpc' \in [Rounds -> {"idle", "fetch", "gate", "names"}]
        /\ ids' \in [Rounds -> SUBSET Novels] /\ waits' \in [Rounds -> SUBSET Novels]
        /\ solo' \subseteq Rounds
    BY <1>1, <1>2 DEF TypeOK
  <2>3. \A q \in Rounds :
          /\ draft'[q] \in [Mine(q)' -> EpubStatus \cup {Keep}] /\ Mine(q)' \subseteq ids'[q]
          /\ drained'[q] \in [DOMAIN drained'[q] -> Outcomes]
          /\ DOMAIN drained'[q] \subseteq Mine(q)'
    <3> SUFFICES ASSUME NEW q \in Rounds
                 PROVE  /\ draft'[q] \in [Mine(q)' -> EpubStatus \cup {Keep}]
                        /\ Mine(q)' \subseteq ids'[q]
                        /\ drained'[q] \in [DOMAIN drained'[q] -> Outcomes]
                        /\ DOMAIN drained'[q] \subseteq Mine(q)'
      OBVIOUS
    <3>1. CASE q # r
      BY <1>1, <1>3, <3>1 DEF TypeOK
    <3>2. CASE q = r
      BY <1>3, <3>2 DEF NoDrafts
    <3>3. QED
      BY <3>1, <3>2
  <2>4. QED
    BY <1>1, <1>3, <2>1, <2>2, <2>3 DEF TypeOK
<1>5. SweepOK'
  BY SweepStays DEF IndInv
<1>6. \A n \in Novels : TaskOK(n)'
  BY NoTaskIsPlain, TaskStays DEF IndInv
<1>7. RoundOK(r)' /\ SoloOK(r)'
  BY <1>3, EndedIsOK
<1>8. ASSUME NEW q \in Rounds \ {r} PROVE RoundOK(q)' /\ SoloOK(q)'
  <2>1. SoloOK(q) /\ RoundOK(q) /\ Mine(q) \subseteq ids[q] /\ ids[q] \subseteq Novels
    BY <1>1 DEF IndInv, TypeOK
  <2>2. RoundOK(q)'
    BY <1>3, <2>1 DEF RoundOK, Idle
  <2>3. q \in solo' => q \in solo
    BY <1>2
  <2>4. q \in solo => ids[q] \cap D = {}
    BY <1>1, <2>1 DEF SoloOK
  <2>5. q \in solo' => \A m \in ids[q] : /\ task'[m] = task[m] /\ outcome'[m] = outcome[m]
                                         /\ future'[m] = future[m] /\ book'[m] = book[m]
    BY <1>1, <2>1, <2>3, <2>4 DEF TypeOK
  <2>6. q \in solo' => \A p \in Rounds \ {q} : ids'[p] \cap ids'[q] = {}
    BY <1>3, <2>1, <2>3 DEF SoloOK
  <2>7. SoloOK(q)'
    BY <1>3, <2>1, <2>3, <2>5, <2>6, SoloStays
  <2>8. QED
    BY <2>2, <2>7
<1>9. QED
  BY <1>4, <1>5, <1>6, <1>7, <1>8 DEF IndInv

LEMMA PersistKeeps ==
    ASSUME IndInv, NEW r \in Rounds, Persist(r)
    PROVE  IndInv'
<1>1. TypeOK /\ Mine(r) \subseteq Novels
  BY DEF IndInv, TypeOK
<1>2. /\ EndRound(r) /\ Touch(Mine(r))
      /\ UNCHANGED <<text, book, pics, old, task, taken, future, outcome, spc, seen, verdict>>
  BY DEF Persist, diskVars, loaderVars, sweepVars
<1>3. \A n \in Novels : Upserted(r, n) \in EpubStatus \cup {NoRow}
  BY <1>1 DEF Upserted, TypeOK, EpubStatus
<1>4. row' \in [Novels -> EpubStatus \cup {NoRow}]
  BY <1>3 DEF Persist, EpubStatus
<1>5. /\ task' = [n \in Novels |-> IF n \in {} THEN NoTask ELSE task[n]]
      /\ future' = [n \in Novels |-> future[n] /\ n \notin {}]
  BY <1>1, <1>2 DEF TypeOK
<1>6. behind' \subseteq Novels /\ (spc = "judging" => behind \subseteq behind')
  BY <1>1, <1>2 DEF Touch, TypeOK
<1>7. {} \in SUBSET waits[r]
  OBVIOUS
<1>8. QED
  BY <1>2, <1>4, <1>5, <1>6, <1>7, EndKeeps

LEMMA AbortRoundKeeps ==
    ASSUME IndInv, NEW r \in Rounds, NEW D \in SUBSET Novels, AbortRound(r, D)
    PROVE  IndInv'
<1>1. D \in SUBSET waits[r]
  BY DEF AbortRound
<1>2. /\ EndRound(r)
      /\ task' = [n \in Novels |-> IF n \in D THEN NoTask ELSE task[n]]
      /\ future' = [n \in Novels |-> future[n] /\ n \notin D]
      /\ UNCHANGED <<row, text, book, pics, old, taken, outcome, spc, seen, verdict, behind>>
  BY DEF AbortRound, diskVars, sweepVars
<1>3. row' \in [Novels -> EpubStatus \cup {NoRow}] /\ behind' \subseteq Novels
  BY <1>2 DEF IndInv, TypeOK
<1>4. QED
  BY <1>1, <1>2, <1>3, EndKeeps

\* A step that no round, future, outcome or verdict is touched by.
LEMMA OutsideKeeps ==
    ASSUME IndInv, TypeOK', \A n \in Novels : TaskOK(n)', SweepOK',
           UNCHANGED <<book, rpc, ids, draft, waits, drained, task, future, outcome, solo>>
    PROVE  IndInv'
<1>1. TypeOK
  BY DEF IndInv
<1>2. ASSUME NEW q \in Rounds PROVE RoundOK(q)' /\ SoloOK(q)'
  <2>1. RoundOK(q) /\ SoloOK(q) /\ Mine(q) \subseteq ids[q]
    BY <1>1 DEF IndInv, TypeOK
  <2>2. RoundOK(q)'
    BY <2>1 DEF RoundOK, Idle, Mine
  <2>3. q \in solo => \A p \in Rounds \ {q} : ids[p] \cap ids[q] = {}
    BY <2>1 DEF SoloOK
  <2>4. SoloOK(q)'
    BY <2>1, <2>3, SoloStays
  <2>5. QED
    BY <2>2, <2>4
<1>3. QED
  BY <1>2 DEF IndInv

LEMMA WorkerReadsKeeps ==
    ASSUME IndInv, NEW n \in Novels, NEW landed \in BOOLEAN, WorkerReads(n, landed)
    PROVE  IndInv'
<1>1. /\ pics' = [pics EXCEPT ![n] = Landed(n, landed)] /\ taken' = [taken EXCEPT ![n] = text[n]]
      /\ Touch(IF landed THEN {n} ELSE {})
      /\ UNCHANGED <<row, text, book, old, rpc, ids, draft, waits, drained, task, future,
                     outcome, spc, seen, verdict, solo>>
  BY DEF WorkerReads, roundVars, sweepVars
<1>2. TypeOK /\ SweepOK
  BY DEF IndInv
<1>3. behind' \subseteq Novels /\ (spc = "judging" => behind \subseteq behind')
  BY <1>1, <1>2 DEF Touch, TypeOK
<1>4. TypeOK'
  BY <1>1, <1>2, <1>3 DEF TypeOK, Landed, Mine
<1>5. SweepOK'
  BY <1>1, <1>2, <1>3, SweepStays
<1>6. \A m \in Novels : TaskOK(m)'
  BY <1>1, <1>2, TaskStays, NoTaskIsPlain DEF IndInv, TypeOK
<1>7. QED
  BY <1>1, <1>4, <1>5, <1>6, OutsideKeeps

\* A worker reports: what it says of a book it has built is what the book is.
LEMMA ReportKeeps ==
    ASSUME IndInv, NEW n \in Novels, NEW w \in Outcomes \cup {"none"}, Report(n, w),
           task[n] # NoTask,
           book' \in [Novels -> Books \cup {NoBook}], pics' \in [Novels -> BOOLEAN],
           \A m \in Novels \ {n} : book'[m] = book[m],
           behind' \subseteq Novels, spc = "judging" => behind \subseteq behind',
           spc = "judging" => n \in behind' \/ book' = book,
           task[n].body \in Marked /\ outcome[n] = "none" =>
             /\ w = "done" => Full(n)'
             /\ Full(n)' => w \in {"done", "failed"}
    PROVE  IndInv'
<1>1. /\ outcome' = [outcome EXCEPT ![n] = w] /\ task' = [task EXCEPT ![n] = NoTask]
      /\ taken' = [taken EXCEPT ![n] = Keep] /\ future' = [future EXCEPT ![n] = FALSE]
      /\ waits' = [r \in Rounds |-> waits[r] \ {n}]
      /\ UNCHANGED <<row, text, old, rpc, ids, draft, drained, spc, seen, verdict, solo>>
  BY DEF Report, sweepVars
<1>2. TypeOK /\ SweepOK /\ \A q \in Rounds : Mine(q)' = Mine(q)
  BY <1>1 DEF IndInv, Mine
<1>3. TypeOK'
  <2>1. waits' \in [Rounds -> SUBSET Novels]
    BY <1>1, <1>2 DEF TypeOK
  <2>2. /\ task' \in [Novels -> Tasks \cup {NoTask}] /\ future' \in [Novels -> BOOLEAN]
        /\ \A m \in Novels : future'[m] => task'[m] # NoTask
        /\ taken' \in [Novels -> Bodies \cup {NoText, Keep}]
        /\ outcome' \in [Novels -> Outcomes \cup {"none"}]
    BY <1>1, <1>2 DEF TypeOK
  <2>3. QED
    BY <1>1, <1>2, <2>1, <2>2 DEF TypeOK
<1>4. SweepOK'
  BY <1>1, <1>2, SweepStays
<1>5. \A m \in Novels : TaskOK(m)'
  BY <1>1, <1>2, TaskStays, NoTaskIsPlain DEF IndInv, TypeOK
<1>6. \A q \in Rounds : RoundOK(q)'
  BY <1>1, <1>2 DEF IndInv, RoundOK, Idle
<1>7. ASSUME NEW q \in Rounds PROVE SoloOK(q)'
  <2> SUFFICES ASSUME q \in solo PROVE SoloOK(q)'
    BY <1>1 DEF SoloOK
  <2>1. SoloOK(q) /\ Mine(q) \subseteq ids[q] /\ ids[q] \subseteq Novels
    BY <1>2 DEF IndInv, TypeOK
  <2>2. \A p \in Rounds \ {q} : ids'[p] \cap ids'[q] = {}
    BY <1>1, <2>1 DEF SoloOK
  <2>3. \A m \in Novels \ {n} : /\ task'[m] = task[m] /\ outcome'[m] = outcome[m]
                                /\ future'[m] = future[m] /\ book'[m] = book[m]
                                /\ (m \in waits[q] => m \in waits'[q])
    BY <1>1
  <2>4. task'[n] = NoTask /\ outcome'[n] = w
    BY <1>1, <1>2 DEF TypeOK
  <2>5. rpc[q] = "fetch" =>
          \A m \in ids[q] \ Mine(q) : task'[m] = NoTask /\ outcome'[m] = "none"
    BY <2>1, <2>3 DEF SoloOK
  <2>6. ASSUME NEW m \in Mine(q)
        PROVE  InReach(q, m)' /\ (draft'[q][m] = "PENDING" => BuildKnown(q, m)')
    <3>1. InReach(q, m) /\ (draft[q][m] = "PENDING" => BuildKnown(q, m))
      BY <2>1 DEF SoloOK
    <3>2. CASE m = n
      <4>1. rpc[q] # "names"
        BY <3>1, <3>2 DEF InReach
      <4>2. InReach(q, m)'
        BY <1>1, <2>4, <3>2, <4>1 DEF InReach
      <4>3. draft[q][m] = "PENDING" => BuildKnown(q, m)'
        BY <1>1, <2>4, <3>1, <3>2, <4>1 DEF BuildKnown
      <4>4. QED
        BY <1>1, <4>2, <4>3
    <3>3. CASE m # n
      <4>1. /\ task'[m] = task[m] /\ outcome'[m] = outcome[m] /\ future'[m] = future[m]
            /\ book'[m] = book[m] /\ (m \in waits[q] => m \in waits'[q])
        BY <2>1, <2>3, <3>3
      <4>2. InReach(q, m)'
        BY <1>1, <3>1, <4>1 DEF InReach
      <4>3. draft[q][m] = "PENDING" => BuildKnown(q, m)'
        BY <1>1, <3>1, <4>1 DEF BuildKnown, Full, Done
      <4>4. QED
        BY <1>1, <4>2, <4>3
    <3>4. QED
      BY <3>2, <3>3
  <2>7. QED
    BY <1>1, <1>2, <2>2, <2>5, <2>6 DEF SoloOK
<1>8. QED
  BY <1>3, <1>4, <1>5, <1>6, <1>7 DEF IndInv

LEMMA WorkerEndsKeep ==
    ASSUME IndInv, NEW n \in Novels, WorkerSkips(n) \/ WorkerBuilds(n) \/ WorkerFails(n)
    PROVE  IndInv'
<1>1. TypeOK /\ TaskOK(n)
  BY DEF IndInv
<1>2. CASE WorkerSkips(n)
  <2>1. /\ Report(n, "skipped") /\ task[n] # NoTask /\ task[n].body \notin Marked /\ Touch({n})
        /\ book' = book /\ pics' = [pics EXCEPT ![n] = pics[n] /\ ~task[n].offered]
    BY <1>2 DEF WorkerSkips
  <2>2. /\ book' \in [Novels -> Books \cup {NoBook}] /\ pics' \in [Novels -> BOOLEAN]
        /\ behind' \subseteq Novels /\ (spc = "judging" => behind \subseteq behind')
    BY <1>1, <2>1 DEF TypeOK, Touch
  <2>3. QED
    BY <2>1, <2>2, ReportKeeps DEF Outcomes
<1>3. CASE WorkerBuilds(n)
  <2> DEFINE new == NewBook(n)
             w == BookVerdict(n)
  <2>1. /\ Report(n, w) /\ task[n] # NoTask /\ task[n].body \in Marked /\ taken[n] # Keep
        /\ Touch({n}) /\ book' = [book EXCEPT ![n] = new]
        /\ pics' = [pics EXCEPT ![n] = pics[n] /\ ~(task[n].offered /\ new.kind = "full")]
    BY <1>3 DEF WorkerBuilds
  <2>2. new \in Books
    BY <1>1, <2>1 DEF TaskOK, NewBook, BookKind, Books
  <2>3. w \in Outcomes \cup {"none"}
    BY <1>1 DEF BookVerdict, TypeOK, Outcomes
  <2>4. outcome[n] = "none" => /\ w = "done" => new.kind = "full"
                               /\ new.kind = "full" => w \in {"done", "failed"}
    BY DEF BookVerdict
  <2>5. Full(n)' <=> new.kind = "full"
    BY <1>1, <2>1, <2>2, EpubAssumption DEF Full, TypeOK
  <2> HIDE DEF new, w
  <2>6. /\ book' \in [Novels -> Books \cup {NoBook}] /\ pics' \in [Novels -> BOOLEAN]
        /\ behind' \subseteq Novels /\ (spc = "judging" => behind \subseteq behind' /\ n \in behind')
        /\ \A m \in Novels \ {n} : book'[m] = book[m]
    BY <1>1, <2>1, <2>2 DEF TypeOK, Touch
  <2>7. QED
    BY <2>1, <2>3, <2>4, <2>5, <2>6, ReportKeeps
<1>4. CASE WorkerFails(n)
  <2>1. Report(n, "failed") /\ task[n] # NoTask /\ UNCHANGED <<book, pics, behind>>
    BY <1>4 DEF WorkerFails
  <2>2. "failed" \in Outcomes /\ "failed" # "done"
    BY DEF Outcomes
  <2>3. /\ book' \in [Novels -> Books \cup {NoBook}] /\ pics' \in [Novels -> BOOLEAN]
        /\ behind' \subseteq Novels
    BY <1>1, <2>1 DEF TypeOK
  <2>4. QED
    BY <2>1, <2>2, <2>3, ReportKeeps
<1>5. QED
  BY <1>2, <1>3, <1>4

\* What the sweep says of a row: never of a finished marked book that it is not.
LEMMA JudgeOK ==
    ASSUME NEW n \in Novels, NEW s \in EpubStatus, NEW unread \in BOOLEAN
    PROVE  /\ Judge(n, s, unread) \in EpubStatus \cup {Keep}
           /\ text[n] \in Marked /\ Full(n) => Judge(n, s, unread) \in {Keep, "DONE"}
<1> DEFINE J == Judge(n, s, unread)
<1>1. text[n] \in Marked => text[n] # NoText /\ ~Plain(n, unread)
  BY EpubAssumption DEF Plain
<1>2. Full(n) => book[n] # NoBook
  BY DEF Full
<1>3. CASE text[n] = NoText
  BY <1>1, <1>3 DEF Judge, EpubStatus
<1>4. CASE text[n] # NoText /\ s = "DONE"
  <2>1. J = JudgeDone(n, unread)
    BY <1>4 DEF Judge
  <2>2. QED
    BY <1>1, <1>2, <2>1 DEF JudgeDone, EpubStatus
<1>5. CASE text[n] # NoText /\ s = "NO_IMAGES"
  <2>1. J = JudgeNoImages(n)
    BY <1>5 DEF Judge
  <2>2. QED
    BY <2>1 DEF JudgeNoImages, EpubStatus
<1>6. CASE text[n] # NoText /\ s = "PENDING"
  <2>1. J = JudgePending(n, unread)
    BY <1>6 DEF Judge
  <2>2. QED
    BY <1>1, <1>2, <2>1 DEF JudgePending, EpubStatus
<1>7. CASE text[n] # NoText /\ s \notin {"DONE", "NO_IMAGES", "PENDING"}
  <2>1. J = JudgeUnclassified(n, unread)
    BY <1>7 DEF Judge
  <2>2. QED
    BY <1>1, <2>1 DEF JudgeUnclassified, EpubStatus
<1>8. QED
  BY <1>3, <1>4, <1>5, <1>6, <1>7

LEMMA SweepKeeps ==
    ASSUME IndInv, SweepStep
    PROVE  IndInv'
<1>1. TypeOK /\ SweepOK
  BY DEF IndInv
<1>2. /\ UNCHANGED <<text, book, pics, old, rpc, ids, draft, waits, drained, task, taken,
                     future, outcome, solo>>
  BY DEF SweepStep, SweepReads, SweepJudges, SweepApplies, diskVars, roundVars, loaderVars,
         historyVars
<1>3. \A m \in Novels : TaskOK(m)'
  BY <1>2 DEF IndInv, TaskOK
<1>4. CASE SweepReads
  <2>1. /\ spc' = "judging" /\ seen' = row /\ verdict' = [n \in Novels |-> Keep]
        /\ behind' = {} /\ row' = row
    BY <1>4 DEF SweepReads
  <2>2. TypeOK'
    BY <1>1, <1>2, <2>1 DEF TypeOK, Mine
  <2>3. SweepOK'
    BY <2>1 DEF SweepOK
  <2>4. QED
    BY <1>2, <1>3, <2>2, <2>3, OutsideKeeps
<1>5. ASSUME NEW n \in Novels, NEW unread \in BOOLEAN, SweepJudges(n, unread) PROVE IndInv'
  <2> DEFINE J == Judge(n, seen[n], unread)
  <2>1. /\ spc = "judging" /\ seen[n] # NoRow /\ verdict' = [verdict EXCEPT ![n] = J]
        /\ seen' = [seen EXCEPT ![n] = NoRow] /\ UNCHANGED <<row, spc, behind>>
    BY <1>5 DEF SweepJudges, historyVars
  <2>2. seen[n] \in EpubStatus
    BY <1>1, <2>1 DEF TypeOK
  <2>3. /\ J \in EpubStatus \cup {Keep}
        /\ text[n] \in Marked /\ Full(n) => J \in {Keep, "DONE"}
    BY <2>2, JudgeOK
  <2> HIDE DEF J
  <2>4. TypeOK'
    BY <1>1, <1>2, <2>1, <2>3 DEF TypeOK, Mine
  <2>5. SweepOK'
    BY <1>1, <1>2, <2>1, <2>3 DEF SweepOK, Full, TypeOK
  <2>6. QED
    BY <1>2, <1>3, <2>4, <2>5, OutsideKeeps
<1>6. CASE SweepApplies
  <2>1. /\ spc' = "idle" /\ behind' = {} /\ seen' = seen /\ verdict' = [n \in Novels |-> Keep]
        /\ row' = [n \in Novels |-> IF verdict[n] = Keep THEN row[n] ELSE verdict[n]]
    BY <1>6 DEF SweepApplies
  <2>2. TypeOK'
    BY <1>1, <1>2, <2>1 DEF TypeOK, Mine
  <2>3. SweepOK'
    BY <2>1 DEF SweepOK
  <2>4. QED
    BY <1>2, <1>3, <2>2, <2>3, OutsideKeeps
<1>7. QED
  BY <1>4, <1>5, <1>6 DEF SweepStep

LEMMA AgeKeeps ==
    ASSUME IndInv, NEW n \in Novels, Age(n)
    PROVE  IndInv'
<1>1. /\ old' = [old EXCEPT ![n] = TRUE]
      /\ UNCHANGED <<row, text, book, pics, rpc, ids, draft, waits, drained, task, taken,
                     future, outcome, spc, seen, verdict, solo, behind>>
  BY DEF Age, roundVars, loaderVars, sweepVars, historyVars
<1>2. TypeOK' /\ SweepOK'
  BY <1>1 DEF IndInv, TypeOK, SweepOK, Full, Mine
<1>3. \A m \in Novels : TaskOK(m)'
  BY <1>1 DEF IndInv, TaskOK
<1>4. QED
  BY <1>1, <1>2, <1>3, OutsideKeeps

LEMMA CrashKeeps ==
    ASSUME IndInv, Crash
    PROVE  IndInv'
<1>1. /\ rpc' = [r \in Rounds |-> "idle"] /\ ids' = [r \in Rounds |-> {}]
      /\ draft' = [r \in Rounds |-> NoDrafts] /\ waits' = [r \in Rounds |-> {}]
      /\ drained' = [r \in Rounds |-> NoDrafts] /\ task' = [n \in Novels |-> NoTask]
      /\ taken' = [n \in Novels |-> Keep] /\ future' = [n \in Novels |-> FALSE]
      /\ outcome' = [n \in Novels |-> "none"] /\ spc' = "idle"
      /\ seen' = [n \in Novels |-> NoRow] /\ verdict' = [n \in Novels |-> Keep]
      /\ solo' = Rounds /\ behind' = {} /\ UNCHANGED <<row, text, book, pics, old>>
  BY DEF Crash, diskVars
<1>2. \A r \in Rounds : Mine(r)' = {} /\ RoundOK(r)' /\ SoloOK(r)'
  BY <1>1, EndedIsOK DEF Mine, NoDrafts
<1>3. TypeOK'
  <2>1. \A r \in Rounds :
          /\ draft'[r] \in [Mine(r)' -> EpubStatus \cup {Keep}] /\ Mine(r)' \subseteq ids'[r]
          /\ drained'[r] \in [DOMAIN drained'[r] -> Outcomes]
          /\ DOMAIN drained'[r] \subseteq Mine(r)'
    BY <1>1, <1>2 DEF NoDrafts
  <2>2. QED
    BY <1>1, <2>1 DEF IndInv, TypeOK
<1>4. SweepOK' /\ \A n \in Novels : TaskOK(n)'
  BY <1>1, NoTaskIsPlain DEF SweepOK, TaskOK
<1>5. QED
  BY <1>2, <1>3, <1>4 DEF IndInv

LEMMA NextKeeps ==
    ASSUME IndInv, [Next]_vars
    PROVE  IndInv'
<1>1. CASE UNCHANGED vars
  <2>1. UNCHANGED <<row, text, book, pics, old, rpc, ids, draft, waits, drained, task, taken,
                    future, outcome, spc, seen, verdict, solo, behind>>
    BY <1>1 DEF vars, diskVars, roundVars, loaderVars, sweepVars, historyVars
  <2>2. TypeOK' /\ SweepOK'
    BY <2>1 DEF IndInv, TypeOK, SweepOK, Full, Mine
  <2>3. \A m \in Novels : TaskOK(m)'
    BY <2>1 DEF IndInv, TaskOK
  <2>4. QED
    BY <2>1, <2>2, <2>3, OutsideKeeps
<1>2. ASSUME NEW r \in Rounds, RoundStep(r) PROVE IndInv'
  BY <1>2, FetchKeeps, FetchFailsKeeps, GateKeeps, DrainKeeps, PersistKeeps DEF RoundStep
<1>3. ASSUME NEW n \in Novels, WorkerStep(n) PROVE IndInv'
  BY <1>3, WorkerReadsKeeps, WorkerEndsKeep DEF WorkerStep
<1>4. CASE Next
  BY <1>2, <1>3, <1>4, StartRoundKeeps, AbortRoundKeeps, AgeKeeps, SweepKeeps, CrashKeeps DEF Next
<1>5. QED
  BY <1>1, <1>4

----------------------------------------------------------------------------
(* Theorems *)

\* Along every behaviour the assets of a round that shares its novels with no
\* other stay in its reach, and the sweep's verdicts fit what has not changed.
THEOREM PipelineInvariance == Spec => []IndInv
<1>1. Init => IndInv
  BY InitEstablishes
<1>2. IndInv /\ [Next]_vars => IndInv'
  BY NextKeeps
<1>3. QED
  BY <1>1, <1>2, PTL DEF Spec

\* Rows, files, rounds, the downloader's tables and the sweep stay in their
\* types; no book is ever built from a missing text.
THEOREM PipelineTypes == Spec => []TypeOK
<1>1. IndInv => TypeOK
  BY DEF IndInv
<1>2. QED
  BY <1>1, PipelineInvariance, PTL

\* ingest's gate (await_all): a round that shares its novels with no other
\* persists them when none of their assets is in flight any more.
THEOREM GateWaits == Spec => SoloRoundWaits
<1>1. IndInv /\ [Next]_vars =>
        [\A r \in solo : Persist(r) => \A n \in Mine(r) : task[n] = NoTask]_vars
  <2> SUFFICES ASSUME IndInv, NEW r \in solo, Persist(r), NEW n \in Mine(r)
               PROVE  task[n] = NoTask
    OBVIOUS
  <2>1. r \in Rounds /\ rpc[r] = "names"
    BY DEF IndInv, TypeOK, Persist
  <2>2. QED
    BY <2>1 DEF IndInv, SoloOK, InReach
<1>2. QED
  BY <1>1, PipelineInvariance, PTL DEF Spec, SoloRoundWaits

\* What the persist transaction knows of a rewritten text with images.
LEMMA PersistKnows ==
    ASSUME IndInv, NEW r \in solo, Persist(r), NEW n \in Mine(r), draft[r][n] = "PENDING"
    PROVE  /\ n \in Done(r) => Full(n)
           /\ Full(n) => n \in DOMAIN drained[r] /\ drained[r][n] \in {"done", "failed"}
<1>1. r \in Rounds /\ rpc[r] = "names"
  BY DEF IndInv, TypeOK, Persist
<1>2. BuildKnown(r, n)
  BY <1>1 DEF IndInv, SoloOK
<1>3. QED
  BY <1>1, <1>2 DEF BuildKnown

\* The persist transaction marks DONE every rewritten novel whose book is
\* finished, unless its build was reported failed.
THEOREM FinishedGetsMarked == Spec => FinishedIsMarked
<1>1. IndInv /\ [Next]_vars =>
        [\A r \in solo : Persist(r) =>
          \A n \in Mine(r) : draft[r][n] = "PENDING" /\ Full(n) =>
              \/ row'[n] = "DONE"
              \/ n \in DOMAIN drained[r] /\ drained[r][n] = "failed"]_vars
  <2> SUFFICES ASSUME IndInv, NEW r \in solo, Persist(r), NEW n \in Mine(r),
                      draft[r][n] = "PENDING", Full(n)
               PROVE  \/ row'[n] = "DONE"
                      \/ n \in DOMAIN drained[r] /\ drained[r][n] = "failed"
    OBVIOUS
  <2>1. n \in DOMAIN drained[r] /\ drained[r][n] \in {"done", "failed"}
    BY PersistKnows
  <2>2. n \in Novels
    BY DEF IndInv, TypeOK
  <2>3. Upserted(r, n) = "PENDING" /\ "PENDING" # NoRow
    BY EpubAssumption DEF Upserted, EpubStatus
  <2>4. drained[r][n] = "done" => row'[n] = "DONE"
    BY <2>1, <2>2, <2>3 DEF Persist, Done
  <2>5. QED
    BY <2>1, <2>4
<1>2. QED
  BY <1>1, PipelineInvariance, PTL DEF Spec, FinishedIsMarked

\* Of a rewritten text with images the downloader says done only when the book
\* holds them.
THEOREM MarkedGotFinished == Spec => MarkedIsFinished
<1>1. IndInv /\ [Next]_vars =>
        [\A r \in solo : Persist(r) =>
          \A n \in Done(r) : draft[r][n] = "PENDING" => Full(n)]_vars
  <2> SUFFICES ASSUME IndInv, NEW r \in solo, Persist(r), NEW n \in Done(r),
                      draft[r][n] = "PENDING"
               PROVE  Full(n)
    OBVIOUS
  <2>1. n \in Mine(r)
    BY DEF IndInv, TypeOK, Done
  <2>2. QED
    BY <2>1, PersistKnows
<1>2. QED
  BY <1>1, PipelineInvariance, PTL DEF Spec, MarkedIsFinished

\* check_epub never gives up or queues again a finished book whose row and
\* files did not change while it ran.
THEOREM SweepSparesFinished == Spec => FinishedIsSpared
<1>1. IndInv /\ [Next]_vars =>
        [SweepApplies => \A n \in Novels \ behind :
          text[n] \in Marked /\ Full(n) => row'[n] \in {row[n], "DONE"}]_vars
  BY DEF IndInv, SweepOK, SweepApplies
<1>2. QED
  BY <1>1, PipelineInvariance, PTL DEF Spec, FinishedIsSpared
=============================================================================
