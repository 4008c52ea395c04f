----------------------------- MODULE CronTicker -----------------------------
(***************************************************************************)
(* The in-process cron ticker (tasks/kernel.py) over the scheduled_tasks   *)
(* table.  The table is the source of truth; the ticker's entry map only   *)
(* caches, per enabled row, its cron expression and next occurrence.       *)
(*                                                                         *)
(* An edit through the API commits and then schedules a reload, which      *)
(* Starlette runs in a thread: it takes the time and reads the rows,       *)
(* builds a new map from the rows and the current map, and assigns it.     *)
(* The tick runs on the event loop and may fall between any two of these,  *)
(* and so may another edit's reload.                                       *)
(*                                                                         *)
(* Time is counted in ticks of CRON_TICK_SECONDS = 30s, so the misfire     *)
(* grace of 60s is Grace = 2.  A cron expression is its period: its        *)
(* occurrences are the multiples.                                          *)
(***************************************************************************)
EXTENDS Integers, FiniteSets

CONSTANTS Jobs,         \* scheduled_tasks rows
          Reloads,      \* the edits' reloads: how many can be in flight
          Periods,      \* cron expressions
          Grace,        \* CRON_MISFIRE_GRACE_SECONDS in ticks
          MaxTime,      \* bound: the clock stops here
          MaxEdits,     \* bound: edits of the table
          MaxRestarts,  \* bound: restarts of the process
          MaxFaults     \* bound: database calls that fail

ASSUME CronAssumption ==
    /\ IsFiniteSet(Jobs)
    /\ Periods \subseteq Nat \ {0} /\ Periods # {}
    /\ Grace \in Nat /\ MaxTime \in Nat
    /\ MaxEdits \in Nat /\ MaxRestarts \in Nat /\ MaxFaults \in Nat

Times == 0..MaxTime

\* A row is scheduled when it exists, is enabled and names a registered
\* function; the ticker skips every other row.
Rows     == [on : BOOLEAN, cron : Periods]
NoRow    == [on |-> FALSE, cron |-> 0]
NoEntry  == [cron |-> 0, next |-> 0, since |-> 0]
Entries  == [cron : Periods \cup {0}, next : Nat, since : Nat]

VARIABLES
    row,      \* scheduled_tasks: [Jobs -> Rows]
    entry,    \* CronTicker._entries; "since" is history: when the timer was set
    now,      \* the clock
    slept,    \* the tick loop's sleep is over
    rpc,      \* where each reload is
    snap,     \* the rows a reload has read
    stamp,    \* the time a reload took before reading them
    built,    \* the map a reload is about to assign
    fired,    \* history: how often a job was enqueued for an occurrence
    dropped,  \* history: occurrences given up (missed, or enqueue failed)
    crossed,  \* history: a tick or a second reload fell inside a reload
    stale,    \* history: the last load failed, no later one has succeeded
    edits, restarts, faults

reloadVars  == <<rpc, snap, stamp, built>>
historyVars == <<fired, dropped>>
budgets     == <<edits, restarts, faults>>
vars == <<row, entry, now, slept, reloadVars, historyVars, crossed, stale,
          budgets>>

----------------------------------------------------------------------------
Occurs(c, t) == t % c = 0
\* Slip: the first occurrence at or after t.
NextOrSame(c, t) == IF Occurs(c, t) THEN t ELSE (t \div c + 1) * c
\* next_occurrence: the first occurrence strictly after t.
NextOccurrence(c, t) == (t \div c + 1) * c

\* Slip: every reload sets every timer anew.
AnchorTimer(r, e, t) ==
    IF ~r.on THEN NoEntry
    ELSE [cron |-> r.cron, next |-> NextOccurrence(r.cron, t),
          since |-> IF e.cron = r.cron THEN e.since ELSE t]

\* load_cron_jobs for one row: same row and same schedule keep the timer.
LoadEntry(r, e, t) ==
    IF ~r.on THEN NoEntry
    ELSE IF e.cron = r.cron THEN e
    ELSE [cron |-> r.cron, next |-> NextOccurrence(r.cron, t), since |-> t]

FreshEntries(rs, t) == [j \in Jobs |-> LoadEntry(rs[j], NoEntry, t)]

Init ==
    /\ row \in [Jobs -> Rows]
    /\ entry = FreshEntries(row, 0)
    /\ now = 0
    /\ slept = FALSE
    /\ rpc = [r \in Reloads |-> "idle"]
    /\ snap = [r \in Reloads |-> [j \in Jobs |-> NoRow]]
    /\ stamp = [r \in Reloads |-> 0]
    /\ built = [r \in Reloads |-> [j \in Jobs |-> NoEntry]]
    /\ fired = [j \in Jobs |-> [o \in Times |-> 0]]
    /\ dropped = [j \in Jobs |-> {}]
    /\ crossed = FALSE
    /\ stale = FALSE
    /\ edits = 0 /\ restarts = 0 /\ faults = 0

\* A reload has taken the time and read the rows, and not assigned its map.
Loads(r) == rpc[r] \in {"read", "built"}
OtherLoads(r) == \E q \in Reloads \ {r} : Loads(q)

----------------------------------------------------------------------------
(* Time and the tick *)

\* asyncio.sleep wakes the loop no earlier than it was asked to; a busy loop
\* or a suspended host delays the tick further.
PassTime ==
    /\ now < MaxTime
    /\ now' = now + 1
    /\ slept' = TRUE
    /\ UNCHANGED <<row, entry, reloadVars, historyVars, crossed, stale, budgets>>

Due(j) == {o \in Times : /\ entry[j] # NoEntry
                         /\ Occurs(entry[j].cron, o)
                         /\ entry[j].next <= o /\ o <= now}
Late(j) == now - entry[j].next > Grace

\* _fire_due: entries within the grace enqueue every due occurrence, later
\* ones are skipped; both advance past now.  The jobs in F fail to enqueue,
\* which is logged and not retried.
Tick(F) ==
    /\ slept
    /\ slept' = FALSE
    /\ fired' = [j \in Jobs |-> [o \in Times |->
                    IF o \in Due(j) /\ ~Late(j) /\ j \notin F
                    THEN fired[j][o] + 1 ELSE fired[j][o]]]
    /\ dropped' = [j \in Jobs |-> IF Late(j) \/ j \in F
                                  THEN dropped[j] \cup Due(j) ELSE dropped[j]]
    /\ entry' = [j \in Jobs |->
                    IF Due(j) = {} THEN entry[j]
                    ELSE [entry[j] EXCEPT !.next = NextOccurrence(entry[j].cron, now)]]
    /\ crossed' = (crossed \/ \E r \in Reloads, j \in Jobs : Loads(r) /\ Due(j) # {})
    /\ faults + Cardinality(F) <= MaxFaults
    /\ faults' = faults + Cardinality(F)
    /\ \A j \in F : Due(j) # {} /\ ~Late(j)
    /\ UNCHANGED <<row, now, reloadVars, stale, edits, restarts>>

----------------------------------------------------------------------------
(* Edits and their reloads *)

\* Slip: the reload is scheduled first and the request's transaction commits
\* when the response is torn down.
EditAfterReload(r, j, new) ==
    /\ rpc[r] = "idle" /\ edits < MaxEdits
    /\ row' = [row EXCEPT ![j] = new]
    /\ snap' = [snap EXCEPT ![r] = row]
    /\ stamp' = [stamp EXCEPT ![r] = now]
    /\ rpc' = [rpc EXCEPT ![r] = "read"]
    /\ edits' = edits + 1
    /\ UNCHANGED <<entry, now, slept, built, historyVars, crossed, stale,
                   restarts, faults>>

\* create, update, delete and reorder: the row as it is afterwards, which
\* may be unchanged here (a new name, new parameters, a new position).  The
\* edit commits before its reload is scheduled.
Edit(r, j, new) ==
    /\ rpc[r] = "idle" /\ edits < MaxEdits
    /\ row' = [row EXCEPT ![j] = new]
    /\ rpc' = [rpc EXCEPT ![r] = "asked"]
    /\ edits' = edits + 1
    /\ UNCHANGED <<entry, now, slept, snap, stamp, built, historyVars, crossed,
                   stale, restarts, faults>>

ReloadRead(r) ==
    /\ rpc[r] = "asked"
    /\ rpc' = [rpc EXCEPT ![r] = "read"]
    /\ snap' = [snap EXCEPT ![r] = row]
    /\ stamp' = [stamp EXCEPT ![r] = now]
    /\ UNCHANGED <<row, entry, now, slept, built, historyVars, crossed, stale,
                   budgets>>

\* The read raises: the old map stays and nobody tries again.
ReloadFails(r) ==
    /\ rpc[r] = "asked" /\ faults < MaxFaults
    /\ rpc' = [rpc EXCEPT ![r] = "idle"]
    /\ faults' = faults + 1
    /\ stale' = TRUE
    /\ crossed' = (crossed \/ OtherLoads(r))
    /\ UNCHANGED <<row, entry, now, slept, snap, stamp, built, historyVars,
                   edits, restarts>>

ReloadBuild(r) ==
    /\ rpc[r] = "read"
    /\ rpc' = [rpc EXCEPT ![r] = "built"]
    /\ built' = [built EXCEPT ![r] = [j \in Jobs |->
                    LoadEntry(snap[r][j], entry[j], stamp[r])]]
    /\ snap' = [snap EXCEPT ![r] = [j \in Jobs |-> NoRow]]
    /\ stamp' = [stamp EXCEPT ![r] = 0]
    /\ UNCHANGED <<row, entry, now, slept, historyVars, crossed, stale, budgets>>

ReloadSwap(r) ==
    /\ rpc[r] = "built"
    /\ rpc' = [rpc EXCEPT ![r] = "idle"]
    /\ entry' = built[r]
    /\ built' = [built EXCEPT ![r] = [j \in Jobs |-> NoEntry]]
    /\ crossed' = (crossed \/ OtherLoads(r))
    /\ stale' = FALSE
    /\ UNCHANGED <<row, now, slept, snap, stamp, historyVars, budgets>>

\* The process dies and a new one loads the rows before it serves requests:
\* a timer is not persisted, so what fell due meanwhile is not replayed.
Restart ==
    /\ restarts < MaxRestarts
    /\ restarts' = restarts + 1
    /\ \/ entry' = FreshEntries(row, now) /\ stale' = FALSE /\ UNCHANGED faults
       \/ /\ faults < MaxFaults /\ faults' = faults + 1
          /\ entry' = [j \in Jobs |-> NoEntry] /\ stale' = TRUE
    /\ rpc' = [r \in Reloads |-> "idle"]
    /\ snap' = [r \in Reloads |-> [j \in Jobs |-> NoRow]]
    /\ stamp' = [r \in Reloads |-> 0]
    /\ built' = [r \in Reloads |-> [j \in Jobs |-> NoEntry]]
    /\ slept' = FALSE
    /\ UNCHANGED <<row, now, historyVars, crossed, edits>>

Next == \/ PassTime \/ Restart
        \/ \E F \in SUBSET Jobs : Tick(F)
        \/ \E r \in Reloads : \/ ReloadRead(r) \/ ReloadFails(r)
                              \/ ReloadBuild(r) \/ ReloadSwap(r)
                              \/ \E j \in Jobs, new \in Rows : Edit(r, j, new)

Spec == Init /\ [][Next]_vars

----------------------------------------------------------------------------
(* Properties *)

TypeOK ==
    /\ row \in [Jobs -> Rows]
    /\ entry \in [Jobs -> Entries]
    /\ now \in Times
    /\ slept \in BOOLEAN
    /\ rpc \in [Reloads -> {"idle", "asked", "read", "built"}]
    /\ snap \in [Reloads -> [Jobs -> Rows \cup {NoRow}]]
    /\ stamp \in [Reloads -> Times]
    /\ built \in [Reloads -> [Jobs -> Entries]]
    /\ fired \in [Jobs -> [Times -> Nat]]
    /\ dropped \in [Jobs -> SUBSET Times]
    /\ crossed \in BOOLEAN /\ stale \in BOOLEAN
    /\ edits \in 0..MaxEdits /\ restarts \in 0..MaxRestarts
    /\ faults \in 0..MaxFaults

\* _fire_due "makes a repeated _fire_due a no-op (no double-fire)": an
\* occurrence of a job is enqueued at most once.
NoDoubleFire == \A j \in Jobs, o \in Times : fired[j][o] <= 1

\* ... and it is, over edits that keep or change the schedule, failed reads
\* and restarts, as long as no reload has overlapped a tick or another one.
NoDoubleFireUncrossed == ~crossed => NoDoubleFire

\* Between the moment its timer was set and the timer's next occurrence,
\* every occurrence of a job was enqueued exactly once or given up for a
\* reason (late, or the enqueue failed): edits that leave the schedule alone
\* neither repeat nor lose one.
ExactlyOnce ==
    ~crossed => \A j \in Jobs, o \in Times :
        /\ entry[j] # NoEntry /\ Occurs(entry[j].cron, o)
        /\ entry[j].since < o /\ o < entry[j].next
        => (fired[j][o] = 1) # (o \in dropped[j])

\* When no reload is under way, none was crossed and the last load worked,
\* the ticker runs exactly the enabled rows, on the rows' schedules.
CacheMatchesTable ==
    (\A r \in Reloads : rpc[r] = "idle") /\ ~crossed /\ ~stale
    => \A j \in Jobs : entry[j].cron = IF row[j].on THEN row[j].cron ELSE 0
=============================================================================
