-------------------------- MODULE CronTickerProofs --------------------------
(***************************************************************************)
(* Safety of the cron ticker for any jobs, schedules, reloads and bounds.  *)
(***************************************************************************)
EXTENDS CronTicker, FiniteSetTheorems, TLAPS

\* Occurrence o of job j has been enqueued or given up.
Done(j, o) == fired[j][o] # 0 \/ o \in dropped[j]

\* Each occurrence is handled in one way, once.
HandledOnce ==
    \A j \in Jobs, o \in Times :
        fired[j][o] <= 1 /\ ~(fired[j][o] # 0 /\ o \in dropped[j])

\* Nothing is handled before its time.
HandledByNow == \A j \in Jobs, o \in Times : Done(j, o) => o <= now

\* A timer of job j: what has been handled lies before its next occurrence,
\* and of what lies between its setting and its next occurrence, all has been.
TimerOK(j, e) ==
    e # NoEntry =>
      /\ e.cron \in Periods
      /\ \A o \in Times : Done(j, o) => o < e.next
      /\ \A o \in Times :
           Occurs(e.cron, o) /\ e.since < o /\ o < e.next => Done(j, o)

\* The timers in use, and those a reload is about to put in use; a reload that
\* has yet to build its map has missed nothing since it took the time.
TimersOK ==
    ~crossed =>
      \A j \in Jobs :
        /\ TimerOK(j, entry[j])
        /\ \A r \in Reloads :
             /\ rpc[r] = "built" => TimerOK(j, built[r][j])
             /\ rpc[r] = "read" => \A o \in Times : Done(j, o) => o <= stamp[r]

\* A timer other than "no entry" has a schedule.
Scheduled(e) == e # NoEntry => e.cron \in Periods

\* map runs the enabled rows of table, on their schedules.
Mirrors(map, table) ==
    \A j \in Jobs : map[j].cron = IF table[j].on THEN table[j].cron ELSE 0

Alone(r) == \A q \in Reloads \ {r} : rpc[q] = "idle"

\* The reload that is the only one under way carries what the table holds.
CacheOK ==
    ~crossed =>
      /\ (\A r \in Reloads : rpc[r] = "idle") /\ ~stale => Mirrors(entry, row)
      /\ \A r \in Reloads : Alone(r) =>
           /\ rpc[r] = "read" => snap[r] = row
           /\ rpc[r] = "built" => Mirrors(built[r], row)

SchedulesOK ==
    \A j \in Jobs : /\ Scheduled(entry[j])
                    /\ \A r \in Reloads : Scheduled(built[r][j])

IndInv == /\ TypeOK /\ SchedulesOK /\ HandledByNow
          /\ (~crossed => HandledOnce) /\ TimersOK /\ CacheOK
----------------------------------------------------------------------------
(* The operators *)

LEMMA TimesAreNat == Times \subseteq Nat
BY CronAssumption DEF Times

\* A number is its quotient and its remainder.
LEMMA DivMod ==
    ASSUME NEW c \in Nat \ {0}, NEW t \in Nat
    PROVE  /\ t \div c \in Nat /\ t % c \in 0..(c - 1)
           /\ t = c * (t \div c) + (t % c)
OBVIOUS

\* The next occurrence is later, ...
LEMMA NextIsLater ==
    ASSUME NEW c \in Nat \ {0}, NEW t \in Nat
    PROVE  NextOccurrence(c, t) \in Nat /\ NextOccurrence(c, t) > t
<1> DEFINE q == t \div c
           m == t % c
<1>1. q \in Nat /\ m \in 0..(c - 1) /\ t = c * q + m
  BY DivMod
<1> HIDE DEF q, m
<1>2. (q + 1) * c = c * q + c /\ c * q \in Nat
  BY <1>1
<1>3. QED
  BY <1>1, <1>2 DEF NextOccurrence, q

\* ... and none lies before it.
LEMMA NextIsNext ==
    ASSUME NEW c \in Nat \ {0}, NEW t \in Nat, NEW o \in Nat,
           Occurs(c, o), t < o, o < NextOccurrence(c, t)
    PROVE  FALSE
<1> DEFINE q == t \div c
           m == t % c
           k == o \div c
<1>1. q \in Nat /\ m \in 0..(c - 1) /\ t = c * q + m
  BY DivMod
<1>2. k \in Nat /\ o = c * k
  BY DivMod DEF Occurs
<1>3. o < (q + 1) * c
  BY DEF NextOccurrence
<1> HIDE DEF q, m, k
<1>4. ~(k >= q + 1)
  <2> SUFFICES ASSUME k >= q + 1 PROVE FALSE
    OBVIOUS
  <2>1. PICK d \in Nat : k = q + 1 + d
    BY <1>1, <1>2
  <2>2. o = (q + 1) * c + c * d /\ c * d \in Nat
    BY <1>1, <1>2, <2>1
  <2>3. QED
    BY <1>1, <1>3, <2>2
<1>5. PICK e \in Nat : q = k + e
  BY <1>1, <1>2, <1>4
<1>6. c * q = o + c * e /\ c * e \in Nat
  BY <1>1, <1>2, <1>5
<1>7. QED
  BY <1>1, <1>6

\* A load drops a timer, keeps it, or sets a new one; it follows the row.
LEMMA LoadEffect ==
    ASSUME NEW r \in Rows \cup {NoRow}, NEW e \in Entries, Scheduled(e),
           NEW t \in Nat
    PROVE  LET l == LoadEntry(r, e, t)
           IN  /\ l \in Entries /\ Scheduled(l)
               /\ l.cron = IF r.on THEN r.cron ELSE 0
               /\ \/ l = NoEntry \/ l = e
                  \/ /\ l.cron \in Periods /\ l.since = t
                     /\ l.next = NextOccurrence(l.cron, t)
<1> DEFINE l == LoadEntry(r, e, t)
<1>1. CASE ~r.on
  BY <1>1 DEF LoadEntry, NoEntry, Entries, Scheduled
<1>2. CASE r.on /\ e.cron = r.cron
  BY <1>2 DEF LoadEntry
<1>3. CASE r.on /\ e.cron # r.cron
  <2>1. r.cron \in Periods
    BY <1>3 DEF Rows, NoRow
  <2>2. NextOccurrence(r.cron, t) \in Nat
    BY <2>1, NextIsLater, CronAssumption
  <2>3. l = [cron |-> r.cron, next |-> NextOccurrence(r.cron, t), since |-> t]
    BY <1>3 DEF LoadEntry
  <2>4. QED
    BY <1>3, <2>1, <2>2, <2>3 DEF Entries, Scheduled
<1>4. QED
  BY <1>1, <1>2, <1>3

\* A timer set at t, when nothing later has been handled, is sound.
LEMMA LoadedTimerOK ==
    ASSUME NEW j \in Jobs, NEW r \in Rows \cup {NoRow}, NEW e \in Entries,
           Scheduled(e), TimerOK(j, e), NEW t \in Nat,
           \A o \in Times : Done(j, o) => o <= t
    PROVE  TimerOK(j, LoadEntry(r, e, t))
<1> DEFINE l == LoadEntry(r, e, t)
<1>1. CASE l = NoEntry \/ l = e
  BY <1>1 DEF TimerOK
<1>2. CASE l.cron \in Periods /\ l.since = t /\ l.next = NextOccurrence(l.cron, t)
  <2> HIDE DEF l
  <2>1. l.cron \in Nat \ {0} /\ Times \subseteq Nat
    BY <1>2, CronAssumption, TimesAreNat
  <2>2. l.next \in Nat /\ l.next > t
    BY <1>2, <2>1, NextIsLater
  <2>3. \A o \in Times : Done(j, o) => o < l.next
    BY <2>1, <2>2
  <2>4. ASSUME NEW o \in Times, Occurs(l.cron, o), l.since < o, o < l.next
        PROVE  FALSE
    BY <1>2, <2>1, <2>4, NextIsNext
  <2>5. TimerOK(j, l)
    BY <1>2, <2>3, <2>4 DEF TimerOK
  <2>6. QED
    BY <2>5 DEF l
<1>3. QED
  BY <1>1, <1>2, LoadEffect

\* The map a process starts with.
LEMMA FreshMap ==
    ASSUME TypeOK, HandledByNow
    PROVE  /\ FreshEntries(row, now) \in [Jobs -> Entries]
           /\ Mirrors(FreshEntries(row, now), row)
           /\ \A j \in Jobs : /\ Scheduled(FreshEntries(row, now)[j])
                              /\ TimerOK(j, FreshEntries(row, now)[j])
<1> DEFINE m == FreshEntries(row, now)
<1>1. NoEntry \in Entries /\ Scheduled(NoEntry) /\ now \in Nat
  BY TimesAreNat DEF NoEntry, Entries, Scheduled, TypeOK
<1>2. ASSUME NEW j \in Jobs
      PROVE  /\ m[j] \in Entries /\ Scheduled(m[j]) /\ TimerOK(j, m[j])
             /\ m[j].cron = IF row[j].on THEN row[j].cron ELSE 0
  <2>1. m[j] = LoadEntry(row[j], NoEntry, now) /\ row[j] \in Rows
    BY DEF FreshEntries, TypeOK
  <2>2. TimerOK(j, NoEntry) /\ \A o \in Times : Done(j, o) => o <= now
    BY DEF TimerOK, HandledByNow
  <2> HIDE DEF m
  <2>3. QED
    BY <1>1, <2>1, <2>2, LoadEffect, LoadedTimerOK
<1>3. m \in [Jobs -> Entries]
  BY <1>2 DEF FreshEntries
<1> HIDE DEF m
<1>4. QED
  BY <1>2, <1>3 DEF Mirrors, m

----------------------------------------------------------------------------
(* Each step keeps the invariant *)

LEMMA InitEstablishes == Init => IndInv
<1> SUFFICES ASSUME Init PROVE IndInv
  OBVIOUS
<1>1. 0 \in Times /\ 0 \in Nat
  BY CronAssumption DEF Times
<1>2. NoEntry \in Entries /\ Scheduled(NoEntry) /\ NoRow \in Rows \cup {NoRow}
  BY DEF NoEntry, Entries, Scheduled
<1>3. \A j \in Jobs, o \in Times : fired[j][o] = 0 /\ ~Done(j, o)
  BY DEF Init, Done
<1>4. \A j \in Jobs : FreshEntries(row, 0)[j] = LoadEntry(row[j], NoEntry, 0)
  BY DEF FreshEntries
<1>5. ASSUME NEW j \in Jobs
      PROVE  /\ entry[j] \in Entries /\ Scheduled(entry[j]) /\ TimerOK(j, entry[j])
             /\ entry[j].cron = IF row[j].on THEN row[j].cron ELSE 0
  <2>1. TimerOK(j, NoEntry) /\ row[j] \in Rows
    BY DEF TimerOK, Init
  <2>2. entry[j] = LoadEntry(row[j], NoEntry, 0)
    BY <1>4 DEF Init
  <2>3. QED
    BY <1>1, <1>2, <1>3, <2>1, <2>2, LoadEffect, LoadedTimerOK
<1>6. TypeOK
  <2>1. entry \in [Jobs -> Entries]
    BY <1>5 DEF Init, FreshEntries
  <2>2. edits \in 0..MaxEdits /\ restarts \in 0..MaxRestarts /\ faults \in 0..MaxFaults
    BY CronAssumption DEF Init
  <2>3. QED
    BY <1>1, <1>2, <2>1, <2>2 DEF Init, TypeOK
<1>7. SchedulesOK
  BY <1>2, <1>5 DEF Init, SchedulesOK
<1>8. HandledByNow /\ HandledOnce
  BY <1>3, <1>1 DEF HandledByNow, HandledOnce, Done
<1>9. TimersOK
  BY <1>5 DEF TimersOK, Init
<1>10. CacheOK
  BY <1>5 DEF CacheOK, Mirrors, Init
<1>11. QED
  BY <1>6, <1>7, <1>8, <1>9, <1>10 DEF IndInv

LEMMA PassTimeKeeps ==
    ASSUME IndInv, PassTime
    PROVE  IndInv'
<1>1. TypeOK'
  BY CronAssumption DEF IndInv, TypeOK, PassTime, Times, reloadVars, historyVars, budgets
<1>2. HandledByNow'
  BY TimesAreNat DEF IndInv, HandledByNow, Done, PassTime, historyVars, TypeOK
<1>3. SchedulesOK' /\ (~crossed => HandledOnce)' /\ TimersOK' /\ CacheOK'
  BY DEF IndInv, SchedulesOK, HandledOnce, TimersOK, TimerOK, CacheOK, Mirrors,
         Alone, Done, Scheduled, PassTime, reloadVars, historyVars
<1>4. QED
  BY <1>1, <1>2, <1>3 DEF IndInv

LEMMA EditKeeps ==
    ASSUME IndInv, NEW r \in Reloads, NEW j \in Jobs, NEW new \in Rows,
           Edit(r, j, new)
    PROVE  IndInv'
<1>1. TypeOK'
  BY CronAssumption DEF IndInv, TypeOK, Edit, historyVars
<1>2. /\ rpc'[r] = "asked" /\ \A q \in Reloads \ {r} : rpc'[q] = rpc[q]
      /\ UNCHANGED <<entry, now, built, snap, stamp, fired, dropped, crossed>>
  BY DEF IndInv, TypeOK, Edit, historyVars
<1>3. SchedulesOK' /\ HandledByNow' /\ (~crossed => HandledOnce)'
  BY <1>2 DEF IndInv, SchedulesOK, HandledByNow, HandledOnce, Done, Scheduled
<1>4. TimersOK'
  BY <1>2 DEF IndInv, TimersOK, TimerOK, Done
<1>5. CacheOK'
  BY <1>2 DEF CacheOK, Alone
<1>6. QED
  BY <1>1, <1>3, <1>4, <1>5 DEF IndInv

LEMMA ReloadReadKeeps ==
    ASSUME IndInv, NEW r \in Reloads, ReloadRead(r)
    PROVE  IndInv'
<1>1. TypeOK'
  BY DEF IndInv, TypeOK, ReloadRead, historyVars, budgets
<1>2. /\ rpc'[r] = "read" /\ snap'[r] = row /\ stamp'[r] = now
      /\ \A q \in Reloads \ {r} :
           rpc'[q] = rpc[q] /\ snap'[q] = snap[q] /\ stamp'[q] = stamp[q]
      /\ UNCHANGED <<row, entry, now, built, fired, dropped, crossed, stale>>
  BY DEF IndInv, TypeOK, ReloadRead, historyVars
<1>3. SchedulesOK' /\ HandledByNow' /\ (~crossed => HandledOnce)'
  BY <1>2 DEF IndInv, SchedulesOK, HandledByNow, HandledOnce, Done, Scheduled
<1>4. TimersOK'
  BY <1>2 DEF IndInv, TimersOK, TimerOK, Done, HandledByNow
<1>5. CacheOK'
  BY <1>2 DEF CacheOK, Alone
<1>6. QED
  BY <1>1, <1>3, <1>4, <1>5 DEF IndInv

LEMMA ReloadFailsKeeps ==
    ASSUME IndInv, NEW r \in Reloads, ReloadFails(r)
    PROVE  IndInv'
<1>1. TypeOK'
  BY CronAssumption DEF IndInv, TypeOK, ReloadFails, historyVars
<1>2. /\ rpc'[r] = "idle" /\ \A q \in Reloads \ {r} : rpc'[q] = rpc[q]
      /\ stale' = TRUE
      /\ ~crossed' => ~crossed /\ \A q \in Reloads \ {r} : rpc[q] \notin {"read", "built"}
      /\ UNCHANGED <<row, entry, now, built, snap, stamp, fired, dropped>>
  BY DEF IndInv, TypeOK, ReloadFails, historyVars, OtherLoads, Loads
<1>3. SchedulesOK' /\ HandledByNow' /\ (~crossed => HandledOnce)'
  BY <1>2 DEF IndInv, SchedulesOK, HandledByNow, HandledOnce, Done, Scheduled
<1>4. TimersOK'
  BY <1>2 DEF IndInv, TimersOK, TimerOK, Done
<1>5. CacheOK'
  BY <1>2 DEF CacheOK, Alone
<1>6. QED
  BY <1>1, <1>3, <1>4, <1>5 DEF IndInv

LEMMA ReloadSwapKeeps ==
    ASSUME IndInv, NEW r \in Reloads, ReloadSwap(r)
    PROVE  IndInv'
<1>1. NoEntry \in Entries /\ Scheduled(NoEntry)
  BY DEF NoEntry, Entries, Scheduled
<1>2. TypeOK'
  BY <1>1 DEF IndInv, TypeOK, ReloadSwap, historyVars, budgets
<1>3. /\ rpc[r] = "built" /\ rpc'[r] = "idle" /\ entry' = built[r]
      /\ built'[r] = [j \in Jobs |-> NoEntry]
      /\ \A q \in Reloads \ {r} : rpc'[q] = rpc[q] /\ built'[q] = built[q]
      /\ ~crossed' => ~crossed /\ \A q \in Reloads \ {r} : rpc[q] \notin {"read", "built"}
      /\ UNCHANGED <<row, now, snap, stamp, fired, dropped>>
  BY DEF IndInv, TypeOK, ReloadSwap, historyVars, OtherLoads, Loads
<1>4. SchedulesOK'
  BY <1>1, <1>3 DEF IndInv, SchedulesOK, Scheduled
<1>5. HandledByNow' /\ (~crossed => HandledOnce)'
  BY <1>3 DEF IndInv, HandledByNow, HandledOnce, Done
<1>6. TimersOK'
  BY <1>3 DEF IndInv, TimersOK, TimerOK, Done
<1>7. CacheOK'
  <2> SUFFICES ASSUME ~crossed' PROVE CacheOK'
    BY DEF CacheOK
  <2>1. (\A q \in Reloads : rpc'[q] = "idle") => Mirrors(entry', row')
    <3> SUFFICES ASSUME \A q \in Reloads : rpc'[q] = "idle"
                 PROVE  Mirrors(entry', row')
      OBVIOUS
    <3>1. Alone(r)
      BY <1>3 DEF Alone
    <3>2. QED
      BY <1>3, <3>1 DEF IndInv, CacheOK
  <2>2. \A q \in Reloads : rpc'[q] \notin {"read", "built"}
    BY <1>3
  <2>3. QED
    BY <2>1, <2>2 DEF CacheOK
<1>8. QED
  BY <1>2, <1>4, <1>5, <1>6, <1>7 DEF IndInv

LEMMA ReloadBuildKeeps ==
    ASSUME IndInv, NEW r \in Reloads, ReloadBuild(r)
    PROVE  IndInv'
<1> DEFINE Loaded(j) == LoadEntry(snap[r][j], entry[j], stamp[r])
<1>1. /\ rpc[r] = "read" /\ rpc'[r] = "built"
      /\ built'[r] = [j \in Jobs |-> Loaded(j)]
      /\ \A q \in Reloads \ {r} : /\ rpc'[q] = rpc[q] /\ built'[q] = built[q]
                                  /\ snap'[q] = snap[q] /\ stamp'[q] = stamp[q]
      /\ UNCHANGED <<row, entry, now, fired, dropped, crossed, stale>>
  BY DEF IndInv, TypeOK, ReloadBuild, historyVars
<1>2. ASSUME NEW j \in Jobs
      PROVE  /\ snap[r][j] \in Rows \cup {NoRow} /\ entry[j] \in Entries
             /\ Scheduled(entry[j]) /\ stamp[r] \in Nat
  BY TimesAreNat DEF IndInv, TypeOK, SchedulesOK
<1>3. ASSUME NEW j \in Jobs
      PROVE  /\ Loaded(j) \in Entries /\ Scheduled(Loaded(j))
             /\ Loaded(j).cron = IF snap[r][j].on THEN snap[r][j].cron ELSE 0
  BY <1>2, LoadEffect
<1>4. ASSUME ~crossed, NEW j \in Jobs
      PROVE  TimerOK(j, Loaded(j))
  <2>1. TimerOK(j, entry[j]) /\ \A o \in Times : Done(j, o) => o <= stamp[r]
    BY <1>1, <1>4 DEF IndInv, TimersOK
  <2>2. QED
    BY <1>2, <2>1, LoadedTimerOK
<1> HIDE DEF Loaded
<1>5. TypeOK'
  <2>1. built' \in [Reloads -> [Jobs -> Entries]]
    BY <1>3 DEF IndInv, TypeOK, ReloadBuild, Loaded
  <2>2. 0 \in Times
    BY CronAssumption DEF Times
  <2>3. QED
    BY <2>1, <2>2 DEF IndInv, TypeOK, ReloadBuild, historyVars, budgets
<1>6. SchedulesOK'
  BY <1>1, <1>3 DEF IndInv, SchedulesOK, Scheduled
<1>7. HandledByNow' /\ (~crossed => HandledOnce)'
  BY <1>1 DEF IndInv, HandledByNow, HandledOnce, Done
<1>8. TimersOK'
  BY <1>1, <1>4 DEF IndInv, TimersOK, TimerOK, Done
<1>9. CacheOK'
  <2>1. ASSUME ~crossed, Alone(r) PROVE Mirrors(built'[r], row)
    <3>1. snap[r] = row
      BY <1>1, <2>1 DEF IndInv, CacheOK
    <3>2. QED
      BY <1>1, <1>3, <3>1 DEF Mirrors
  <2>2. QED
    BY <1>1, <2>1 DEF CacheOK, Alone
<1>10. QED
  BY <1>5, <1>6, <1>7, <1>8, <1>9 DEF IndInv

LEMMA RestartKeeps ==
    ASSUME IndInv, Restart
    PROVE  IndInv'
<1>1. NoEntry \in Entries /\ Scheduled(NoEntry) /\ 0 \in Times
  BY CronAssumption DEF NoEntry, Entries, Scheduled, Times
<1>2. /\ \A r \in Reloads : rpc'[r] = "idle" /\ built'[r] = [j \in Jobs |-> NoEntry]
      /\ \/ entry' = FreshEntries(row, now)
         \/ entry' = [j \in Jobs |-> NoEntry] /\ stale'
      /\ UNCHANGED <<row, now, fired, dropped, crossed>>
  BY DEF Restart, historyVars
<1>3. /\ entry' \in [Jobs -> Entries]
      /\ \A j \in Jobs : Scheduled(entry'[j]) /\ TimerOK(j, entry'[j])
      /\ ~stale' => Mirrors(entry', row)
  BY <1>1, <1>2, FreshMap DEF IndInv, TimerOK
<1>4. TypeOK'
  <2>1. restarts' \in 0..MaxRestarts /\ faults' \in 0..MaxFaults
    BY CronAssumption DEF IndInv, TypeOK, Restart
  <2>2. /\ rpc' = [r \in Reloads |-> "idle"]
        /\ snap' = [r \in Reloads |-> [j \in Jobs |-> NoRow]]
        /\ stamp' = [r \in Reloads |-> 0]
        /\ built' = [r \in Reloads |-> [j \in Jobs |-> NoEntry]]
        /\ slept' = FALSE /\ stale' \in BOOLEAN
        /\ UNCHANGED <<row, now, fired, dropped, crossed, edits>>
    BY DEF Restart, historyVars
  <2>3. QED
    BY <1>1, <1>3, <2>1, <2>2 DEF IndInv, TypeOK
<1>5. SchedulesOK'
  BY <1>1, <1>2, <1>3 DEF SchedulesOK, Scheduled
<1>6. HandledByNow' /\ (~crossed => HandledOnce)'
  BY <1>2 DEF IndInv, HandledByNow, HandledOnce, Done
<1>7. TimersOK'
  BY <1>2, <1>3 DEF TimersOK, TimerOK, Done
<1>8. CacheOK'
  BY <1>2, <1>3 DEF CacheOK
<1>9. QED
  BY <1>4, <1>5, <1>6, <1>7, <1>8 DEF IndInv

\* What a tick does to a job whose timer is due, and to one whose is not.
LEMMA TickEffect ==
    ASSUME TypeOK, SchedulesOK, NEW F \in SUBSET Jobs, Tick(F), NEW j \in Jobs
    PROVE  /\ Due(j) = {} =>
                entry'[j] = entry[j] /\ \A o \in Times : Done(j, o)' = Done(j, o)
           /\ Due(j) # {} =>
                /\ entry[j] # NoEntry /\ entry[j].cron \in Periods
                /\ entry'[j].cron = entry[j].cron /\ entry'[j].since = entry[j].since
                /\ entry'[j].next = NextOccurrence(entry[j].cron, now)
                /\ \A o \in Times : Done(j, o)' = (Done(j, o) \/ o \in Due(j))
           /\ entry'[j] \in Entries
           /\ \A o \in Times :
                \/ fired'[j][o] = fired[j][o] /\ o \in Due(j) /\ o \in dropped'[j]
                \/ /\ o \in Due(j) /\ fired'[j][o] = fired[j][o] + 1
                   /\ (o \in dropped'[j]) = (o \in dropped[j])
                \/ /\ o \notin Due(j) /\ fired'[j][o] = fired[j][o]
                   /\ (o \in dropped'[j]) = (o \in dropped[j])
<1>1. /\ entry[j] \in Entries /\ Scheduled(entry[j]) /\ now \in Nat
      /\ fired[j] \in [Times -> Nat] /\ dropped[j] \in SUBSET Times
  BY TimesAreNat DEF TypeOK, SchedulesOK
<1>2. /\ \A o \in Times :
           fired'[j][o] = IF o \in Due(j) /\ ~Late(j) /\ j \notin F
                          THEN fired[j][o] + 1 ELSE fired[j][o]
      /\ dropped'[j] = IF Late(j) \/ j \in F THEN dropped[j] \cup Due(j) ELSE dropped[j]
      /\ entry'[j] = IF Due(j) = {} THEN entry[j]
                     ELSE [entry[j] EXCEPT !.next = NextOccurrence(entry[j].cron, now)]
  BY DEF Tick
<1> DEFINE D == Due(j)
           L == Late(j)
<1>3. D # {} => entry[j] # NoEntry
  BY DEF Due
<1> HIDE DEF D, L
<1>4. \A o \in Times :
        \/ fired'[j][o] = fired[j][o] /\ o \in D /\ o \in dropped'[j]
        \/ /\ o \in D /\ fired'[j][o] = fired[j][o] + 1
           /\ (o \in dropped'[j]) = (o \in dropped[j])
        \/ /\ o \notin D /\ fired'[j][o] = fired[j][o]
           /\ (o \in dropped'[j]) = (o \in dropped[j])
  BY <1>2 DEF D, L
<1>5. \A o \in Times : Done(j, o)' = (Done(j, o) \/ o \in D)
  <2> SUFFICES ASSUME NEW o \in Times PROVE Done(j, o)' = (Done(j, o) \/ o \in D)
    OBVIOUS
  <2>1. fired[j][o] \in Nat
    BY <1>1
  <2>2. CASE fired'[j][o] = fired[j][o] /\ o \in D /\ o \in dropped'[j]
    BY <2>2 DEF Done
  <2>3. CASE o \in D /\ fired'[j][o] = fired[j][o] + 1
    <3>1. fired'[j][o] # 0
      BY <2>1, <2>3
    <3>2. QED
      BY <2>3, <3>1 DEF Done
  <2>4. CASE /\ o \notin D /\ fired'[j][o] = fired[j][o]
             /\ (o \in dropped'[j]) = (o \in dropped[j])
    BY <2>4 DEF Done
  <2>5. QED
    BY <1>4, <2>2, <2>3, <2>4
<1>6. ASSUME D # {}
      PROVE  /\ entry[j] # NoEntry /\ entry[j].cron \in Periods
             /\ entry'[j].cron = entry[j].cron /\ entry'[j].since = entry[j].since
             /\ entry'[j].next = NextOccurrence(entry[j].cron, now)
             /\ entry'[j] \in Entries
  <2>1. entry[j] # NoEntry /\ entry[j].cron \in Periods
    BY <1>1, <1>3, <1>6 DEF Scheduled
  <2>2. NextOccurrence(entry[j].cron, now) \in Nat
    BY <1>1, <2>1, NextIsLater, CronAssumption
  <2>3. entry'[j] = [entry[j] EXCEPT !.next = NextOccurrence(entry[j].cron, now)]
    BY <1>2, <1>6 DEF D
  <2>4. QED
    BY <1>1, <2>1, <2>2, <2>3 DEF Entries
<1>7. D = {} => entry'[j] = entry[j]
  BY <1>2 DEF D
<1>8. /\ D = {} => /\ entry'[j] = entry[j]
                   /\ \A o \in Times : Done(j, o)' = Done(j, o)
      /\ entry'[j] \in Entries
  <2>1. D = {} => \A o \in Times : Done(j, o)' = Done(j, o)
    BY <1>5 DEF Done
  <2>2. QED
    BY <1>1, <1>6, <1>7, <2>1
<1>9. QED
  BY <1>4, <1>5, <1>6, <1>8 DEF D

LEMMA TickKeeps ==
    ASSUME IndInv, NEW F \in SUBSET Jobs, Tick(F)
    PROVE  IndInv'
<1>1. TypeOK /\ SchedulesOK /\ HandledByNow /\ TimersOK /\ CacheOK
      /\ (~crossed => HandledOnce)
  BY DEF IndInv
<1>2. now \in Nat /\ Times \subseteq Nat
  BY <1>1, TimesAreNat DEF TypeOK
<1>3. UNCHANGED <<row, now, rpc, snap, stamp, built, stale, edits, restarts>>
  BY DEF Tick, reloadVars
<1>4. /\ ~crossed' => ~crossed
      /\ ~crossed' => \A r \in Reloads, j \in Jobs : Loads(r) => Due(j) = {}
      /\ crossed' \in BOOLEAN
  BY <1>1 DEF Tick, TypeOK
<1>5. \A j \in Jobs : \A o \in Due(j) : o \in Times /\ entry[j].next <= o /\ o <= now
  BY DEF Due
<1>6. TypeOK'
  <2>1. entry' \in [Jobs -> Entries]
    BY <1>1, TickEffect DEF Tick
  <2>2. fired' \in [Jobs -> [Times -> Nat]] /\ dropped' \in [Jobs -> SUBSET Times]
    BY <1>1, <1>5 DEF Tick, TypeOK
  <2>3. faults' \in 0..MaxFaults
    <3>1. Cardinality(F) \in Nat
      BY CronAssumption, FS_Subset, FS_CardinalityType
    <3>2. QED
      BY <1>1, <3>1, CronAssumption DEF Tick, TypeOK
  <2>4. slept' = FALSE
    BY DEF Tick
  <2>5. QED
    BY <1>1, <1>3, <1>4, <2>1, <2>2, <2>3, <2>4 DEF TypeOK
<1>7. SchedulesOK'
  <2>1. ASSUME NEW j \in Jobs PROVE Scheduled(entry'[j])
    <3>1. CASE Due(j) = {}
      BY <1>1, <3>1, TickEffect DEF SchedulesOK
    <3>2. CASE Due(j) # {}
      BY <1>1, <3>2, TickEffect DEF Scheduled
    <3>3. QED
      BY <3>1, <3>2
  <2>2. QED
    BY <1>1, <1>3, <2>1 DEF SchedulesOK, Scheduled
<1>8. HandledByNow'
  <2> SUFFICES ASSUME NEW j \in Jobs, NEW o \in Times, Done(j, o)' PROVE o <= now
    BY <1>3 DEF HandledByNow
  <2>1. Done(j, o) \/ o \in Due(j)
    BY <1>1, TickEffect
  <2>2. QED
    BY <1>1, <1>5, <2>1 DEF HandledByNow
<1>9. ASSUME ~crossed' PROVE HandledOnce'
  <2> SUFFICES ASSUME NEW j \in Jobs, NEW o \in Times
               PROVE  fired'[j][o] <= 1 /\ ~(fired'[j][o] # 0 /\ o \in dropped'[j])
    BY DEF HandledOnce
  <2>1. /\ fired[j][o] \in Nat /\ fired[j][o] <= 1
        /\ ~(fired[j][o] # 0 /\ o \in dropped[j])
    BY <1>1, <1>4, <1>9 DEF TypeOK, HandledOnce
  <2>2. CASE o \notin Due(j)
    <3>1. fired'[j][o] = fired[j][o] /\ (o \in dropped'[j]) = (o \in dropped[j])
      BY <1>1, <2>2, TickEffect
    <3>2. QED
      BY <2>1, <3>1
  <2>3. CASE o \in Due(j)
    <3>1. ~Done(j, o)
      <4>1. entry[j] # NoEntry /\ entry[j] \in Entries /\ entry[j].next <= o
        BY <1>1, <2>3 DEF Due, TypeOK
      <4>2. Done(j, o) => o < entry[j].next
        BY <1>1, <1>4, <1>9, <4>1 DEF TimersOK, TimerOK
      <4>3. entry[j].next \in Nat /\ o \in Nat
        BY <1>2, <4>1 DEF Entries
      <4>4. QED
        BY <4>1, <4>2, <4>3
    <3>2. fired[j][o] = 0 /\ o \notin dropped[j]
      BY <3>1 DEF Done
    <3>3. \/ fired'[j][o] = fired[j][o]
          \/ fired'[j][o] = fired[j][o] + 1 /\ (o \in dropped'[j]) = (o \in dropped[j])
      BY <1>1, TickEffect
    <3>4. QED
      BY <3>2, <3>3
  <2>4. QED
    BY <2>2, <2>3
<1>10. ASSUME ~crossed', NEW j \in Jobs PROVE TimerOK(j, entry[j])'
  <2>1. TimerOK(j, entry[j])
    BY <1>1, <1>4, <1>10 DEF TimersOK
  <2>2. CASE Due(j) = {}
    BY <1>1, <2>1, <2>2, TickEffect DEF TimerOK
  <2>3. CASE Due(j) # {}
    <3> DEFINE c == entry[j].cron
    <3>1. /\ entry[j] # NoEntry /\ c \in Periods /\ entry[j] \in Entries
          /\ entry'[j].cron = c /\ entry'[j].since = entry[j].since
          /\ entry'[j].next = NextOccurrence(c, now)
          /\ \A o \in Times : Done(j, o)' = (Done(j, o) \/ o \in Due(j))
      BY <1>1, <2>3, TickEffect DEF TypeOK
    <3>2. c \in Nat \ {0}
      BY <3>1, CronAssumption
    <3> HIDE DEF c
    <3>3. entry'[j].next \in Nat /\ entry'[j].next > now
      BY <1>2, <3>1, <3>2, NextIsLater
    <3>4. ASSUME NEW o \in Times, Done(j, o)' PROVE o < entry'[j].next
      <4>1. o <= now
        BY <1>3, <1>8, <3>4 DEF HandledByNow
      <4>2. QED
        BY <1>2, <3>3, <4>1
    <3>5. ASSUME NEW o \in Times, Occurs(c, o), entry'[j].since < o, o < entry'[j].next
          PROVE  Done(j, o)'
      <4>1. o \in Nat /\ entry[j].next \in Nat
        BY <1>2, <3>1 DEF Entries
      <4>2. CASE o < entry[j].next
        BY <2>1, <3>1, <3>5, <4>2 DEF TimerOK, c
      <4>3. CASE entry[j].next <= o /\ o <= now
        BY <3>1, <3>5, <4>3 DEF Due, c
      <4>4. CASE o > now
        BY <1>2, <3>1, <3>2, <3>5, <4>1, <4>4, NextIsNext
      <4>5. QED
        BY <1>2, <4>1, <4>2, <4>3, <4>4
    <3>6. QED
      BY <3>1, <3>4, <3>5 DEF TimerOK
  <2>4. QED
    BY <2>2, <2>3
<1>11. TimersOK'
  <2> SUFFICES ASSUME ~crossed', NEW j \in Jobs, NEW r \in Reloads
               PROVE  /\ rpc[r] = "built" => TimerOK(j, built[r][j])'
                      /\ rpc[r] = "read" => \A o \in Times : Done(j, o)' => o <= stamp[r]
    BY <1>3, <1>10 DEF TimersOK
  <2>1. ASSUME rpc[r] \in {"read", "built"} PROVE \A o \in Times : Done(j, o)' = Done(j, o)
    <3>1. Due(j) = {}
      BY <1>4, <2>1 DEF Loads
    <3>2. QED
      BY <1>1, <3>1, TickEffect
  <2>2. QED
    BY <1>1, <1>3, <1>4, <2>1 DEF TimersOK, TimerOK
<1>12. CacheOK'
  <2>1. ASSUME NEW j \in Jobs PROVE entry'[j].cron = entry[j].cron
    BY <1>1, <2>1, TickEffect
  <2>2. QED
    BY <1>1, <1>3, <1>4, <2>1 DEF CacheOK, Mirrors, Alone
<1>13. QED
  BY <1>6, <1>7, <1>8, <1>9, <1>11, <1>12 DEF IndInv

LEMMA NextKeeps == IndInv /\ [Next]_vars => IndInv'
<1> SUFFICES ASSUME IndInv, [Next]_vars PROVE IndInv'
  OBVIOUS
<1>1. CASE UNCHANGED vars
  BY <1>1 DEF vars, reloadVars, historyVars, budgets, IndInv, TypeOK, SchedulesOK,
       HandledByNow, HandledOnce, TimersOK, TimerOK, CacheOK, Mirrors, Alone, Done,
       Scheduled
<1>2. CASE Next
  BY <1>2, PassTimeKeeps, RestartKeeps, TickKeeps, ReloadReadKeeps,
     ReloadFailsKeeps, ReloadBuildKeeps, ReloadSwapKeeps, EditKeeps DEF Next
<1>3. QED
  BY <1>1, <1>2

\* In every reachable state the timers are sound for what has been handled, or
\* a reload has been crossed.
THEOREM CronInvariance == Spec => []IndInv
BY InitEstablishes, NextKeeps, PTL DEF Spec

----------------------------------------------------------------------------

\* The ticker's entries, the reloads in flight and the history have their types.
THEOREM CronTypes == Spec => []TypeOK
<1>1. IndInv => TypeOK
  BY DEF IndInv
<1>2. QED
  BY <1>1, CronInvariance, PTL

\* _fire_due never enqueues an occurrence twice, over any edits, failed loads
\* and restarts, while no reload has overlapped a tick or another reload.
THEOREM CronFiresOnce == Spec => []NoDoubleFireUncrossed
<1>1. IndInv => NoDoubleFireUncrossed
  BY DEF IndInv, HandledOnce, NoDoubleFireUncrossed, NoDoubleFire
<1>2. QED
  BY <1>1, CronInvariance, PTL

\* Between the setting of a timer and its next occurrence, load_cron_jobs and
\* _fire_due have handled each occurrence, in one way: enqueued or given up.
THEOREM CronLosesNothing == Spec => []ExactlyOnce
<1>1. ASSUME IndInv PROVE ExactlyOnce
  <2> SUFFICES ASSUME ~crossed, NEW j \in Jobs, NEW o \in Times,
                      entry[j] # NoEntry, Occurs(entry[j].cron, o),
                      entry[j].since < o, o < entry[j].next
               PROVE  (fired[j][o] = 1) # (o \in dropped[j])
    BY DEF ExactlyOnce
  <2>1. Done(j, o) /\ fired[j][o] \in Nat /\ fired[j][o] <= 1
        /\ ~(fired[j][o] # 0 /\ o \in dropped[j])
    BY <1>1 DEF IndInv, TimersOK, TimerOK, HandledOnce, TypeOK
  <2>2. fired[j][o] = 0 \/ fired[j][o] = 1
    BY <2>1
  <2>3. QED
    BY <2>1, <2>2 DEF Done
<1>2. QED
  BY <1>1, CronInvariance, PTL

\* Once every edit's reload has come and gone, uncrossed and not failed, the
\* ticker's map is the enabled rows of the table on their schedules.
THEOREM CronFollowsTable == Spec => []CacheMatchesTable
<1>1. IndInv => CacheMatchesTable
  BY DEF IndInv, CacheOK, Mirrors, CacheMatchesTable
<1>2. QED
  BY <1>1, CronInvariance, PTL

=============================================================================
