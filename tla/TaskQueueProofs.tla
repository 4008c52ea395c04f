-------------------------- MODULE TaskQueueProofs --------------------------
(***************************************************************************)
(* Safety of the task queue for any number of rows, manager lives and      *)
(* failed database calls.  The invariants of TaskQueue are not inductive   *)
(* by themselves; IndInv below is, and implies them.                       *)
(***************************************************************************)
EXTENDS TaskQueue, TLAPS

\* Rows are inserted in id order, and a row not yet inserted is blank.
Frontier ==
    \A i \in Ids : /\ status[i] = "absent" <=> i > rows
                   /\ i > rows => kind[i] = "none" /\ owner[i] = 0

\* A lane has a row exactly while it executes, the row says running, no two
\* lanes share one, and a manager that is down has no lanes.
LanesSound ==
    /\ \A l \in Lanes : pc[l] = "executing" <=> cur[l] # 0
    /\ \A l \in Lanes : cur[l] # 0 => status[cur[l]] = "running"
    /\ \A l, m \in Lanes : cur[l] = cur[m] /\ cur[l] # 0 => l = m
    /\ mgr = "down" => \A l \in Lanes : pc[l] = "off"

\* A row that waits, or does not exist, has never been started.
FreshRows ==
    \A i \in Ids : /\ starts[i] <= 1
                   /\ status[i] \in {"absent", "pending"} => starts[i] = 0

\* The live set is exactly the waiting rows of this life, and once recovery
\* has succeeded no row of an earlier life waits.
OwnersSound ==
    /\ session >= 1
    /\ \A i \in Ids : owner[i] <= session
    /\ \A i \in live : status[i] = "pending" /\ owner[i] = session
    /\ \A i \in Ids : status[i] = "pending" /\ owner[i] = session => i \in live
    /\ mgr # "down" /\ recovered =>
          \A i \in Ids : status[i] = "pending" => owner[i] \in {0, session}

IndInv == /\ TypeOK /\ Frontier /\ LanesSound /\ FreshRows /\ FifoPerLane
          /\ OwnersSound /\ NeverResumed /\ NoLostWakeup

----------------------------------------------------------------------------
(* Each action keeps the invariant *)

\* Enqueue keeps the types.
LEMMA EnqueueType ==
    ASSUME TypeOK, NEW k \in Enqueued, Enqueue(k)
    PROVE  TypeOK'
  BY BoundsAreNaturals DEF TypeOK, Enqueue, Insert, SetWake, Statuses, Kinds,
     Ids, laneVars, lifeVars

\* Enqueue keeps the inductive invariant.
LEMMA EnqueueKeeps ==
    ASSUME IndInv, NEW k \in Enqueued, Enqueue(k)
    PROVE  IndInv'
<1>1. TypeOK'
  BY EnqueueType DEF IndInv, LanesSound, Enqueue
<1>2. Frontier'
  BY DEF IndInv, Enqueue, Frontier, TypeOK, Ids, Insert
<1>3. LanesSound'
  BY DEF IndInv, Enqueue, LanesSound, Frontier, TypeOK, Insert, laneVars,
     lifeVars
<1>4. FreshRows'
  BY DEF IndInv, Enqueue, FreshRows, Frontier, TypeOK, Ids, Insert, laneVars,
     lifeVars
<1>5. FifoPerLane'
  BY DEF IndInv, Enqueue, FifoPerLane, FreshRows, Frontier, LaneOf, Kinds,
     Foreign, Enqueued, TypeOK, Ids, Insert, SetWake, laneVars, lifeVars
<1>6. OwnersSound'
  <2>1. session' >= 1 /\ \A i \in Ids : owner'[i] <= session'
    BY DEF IndInv, TypeOK, OwnersSound, Enqueue, Insert, lifeVars
  <2>2. \A i \in live' : status'[i] = "pending" /\ owner'[i] = session'
    <3>1. rows + 1 \in Ids /\ rows + 1 \notin live
      BY BoundsAreNaturals DEF IndInv, TypeOK, OwnersSound, Frontier, Ids,
         Enqueue, Insert
    <3>2. \A i \in live : status'[i] = status[i] /\ owner'[i] = owner[i]
      BY <3>1 DEF IndInv, TypeOK, Enqueue, Insert
    <3>3. status'[rows + 1] = "pending" /\ owner'[rows + 1] = session'
      BY <3>1 DEF IndInv, TypeOK, Enqueue, Insert, lifeVars
    <3>4. QED
      BY <3>2, <3>3 DEF IndInv, OwnersSound, Enqueue, lifeVars
  <2>3. \A i \in Ids : status'[i] = "pending" /\ owner'[i] = session' => i \in live'
    BY DEF IndInv, TypeOK, OwnersSound, Frontier, Ids, Enqueue, Insert,
       lifeVars
  <2>4. mgr' # "down" /\ recovered' =>
          \A i \in Ids : status'[i] = "pending" => owner'[i] \in {0, session'}
    BY DEF IndInv, TypeOK, OwnersSound, Frontier, Ids, Enqueue, Insert,
       lifeVars
  <2>5. QED
    BY <2>1, <2>2, <2>3, <2>4 DEF OwnersSound
<1>7. NeverResumed'
  BY DEF IndInv, Enqueue, NeverResumed, OwnersSound, LanesSound, TypeOK, Ids,
     Insert, SetWake, laneVars, lifeVars
<1>8. NoLostWakeup'
  BY DEF IndInv, Enqueue, NoLostWakeup, PendingOf, Frontier, LanesSound,
     TypeOK, Ids, Insert, SetWake, laneVars, lifeVars
<1>9. QED
  BY <1>1, <1>2, <1>3, <1>4, <1>5, <1>6, <1>7, <1>8 DEF IndInv

\* ForeignInsert keeps the types.
LEMMA ForeignInsertType ==
    ASSUME TypeOK, NEW k \in Foreign, ForeignInsert(k)
    PROVE  TypeOK'
  BY BoundsAreNaturals DEF TypeOK, ForeignInsert, Insert, Statuses, Terminal,
     Kinds, Enqueued, Foreign, Ids, memoryVars, laneVars, wakeVars, lifeVars

\* ForeignInsert keeps the inductive invariant.
LEMMA ForeignInsertKeeps ==
    ASSUME IndInv, NEW k \in Foreign, ForeignInsert(k)
    PROVE  IndInv'
<1>1. TypeOK'
  BY ForeignInsertType DEF IndInv, LanesSound, ForeignInsert
<1>2. Frontier'
  BY DEF IndInv, ForeignInsert, Frontier, TypeOK, Ids, Insert, memoryVars,
     laneVars, wakeVars, lifeVars
<1>3. LanesSound'
  BY DEF IndInv, ForeignInsert, LanesSound, Frontier, TypeOK, Ids, Insert,
     memoryVars, laneVars, wakeVars, lifeVars
<1>4. FreshRows'
  BY DEF IndInv, ForeignInsert, FreshRows, Frontier, TypeOK, Ids, Insert,
     memoryVars, laneVars, wakeVars, lifeVars
<1>5. FifoPerLane'
  BY DEF IndInv, ForeignInsert, FifoPerLane, FreshRows, Frontier, LaneOf,
     Kinds, Foreign, Enqueued, TypeOK, Ids, Insert, memoryVars, laneVars,
     wakeVars, lifeVars
<1>6. OwnersSound'
  BY DEF IndInv, ForeignInsert, OwnersSound, Frontier, LanesSound, TypeOK, Ids,
     Insert, memoryVars, laneVars, wakeVars, lifeVars
<1>7. NeverResumed'
  BY DEF IndInv, ForeignInsert, NeverResumed, OwnersSound, LanesSound, TypeOK,
     Ids, Insert, memoryVars, laneVars, wakeVars, lifeVars
<1>8. NoLostWakeup'
  BY DEF IndInv, ForeignInsert, NoLostWakeup, PendingOf, Frontier, LanesSound,
     TypeOK, Ids, Insert, memoryVars, laneVars, wakeVars, lifeVars
<1>9. QED
  BY <1>1, <1>2, <1>3, <1>4, <1>5, <1>6, <1>7, <1>8 DEF IndInv

\* Start keeps the types.
LEMMA StartType ==
    ASSUME TypeOK, Start
    PROVE  TypeOK'
<1>1. status' \in [Ids -> Statuses]
  BY DEF TypeOK, Start, Statuses, Terminal
<1>2. /\ pc' \in [Lanes -> {"off", "waiting", "drain", "executing", "notifying"}]
      /\ woken' \in [Lanes -> BOOLEAN]
  BY DEF TypeOK, Start
<1>3. faults' \in 0..MaxFaults
  BY BoundsAreNaturals DEF TypeOK, Start, Fault, NoFault
<1>4. QED
  BY <1>1, <1>2, <1>3 DEF TypeOK, Start

\* Start keeps the inductive invariant.
LEMMA StartKeeps ==
    ASSUME IndInv, Start
    PROVE  IndInv'
<1>1. TypeOK'
  BY StartType DEF IndInv, LanesSound, Start
<1>2. Frontier'
  BY DEF IndInv, Start, Frontier, TypeOK, Stale, Fault, NoFault
<1>3. LanesSound'
  BY DEF IndInv, Start, LanesSound, Frontier, TypeOK, Stale, Fault, NoFault
<1>4. FreshRows'
  BY DEF IndInv, Start, FreshRows, Frontier, TypeOK, Stale, Fault, NoFault
<1>5. FifoPerLane'
  BY DEF IndInv, Start, FifoPerLane, FreshRows, Frontier, LaneOf, Kinds,
     Foreign, Enqueued, TypeOK, Stale, Fault, NoFault
<1>6. OwnersSound'
  <2>1. session' >= 1 /\ \A i \in Ids : owner'[i] <= session'
    BY DEF IndInv, TypeOK, OwnersSound, Start, Stale
  <2>2. \A i \in live' : status'[i] = "pending" /\ owner'[i] = session'
    BY DEF IndInv, TypeOK, OwnersSound, Frontier, Ids, Start, Stale
  <2>3. \A i \in Ids : status'[i] = "pending" /\ owner'[i] = session' => i \in live'
    BY DEF IndInv, TypeOK, OwnersSound, Frontier, Ids, Start, Stale
  <2>4. mgr' # "down" /\ recovered' =>
          \A i \in Ids : status'[i] = "pending" => owner'[i] \in {0, session'}
    BY DEF IndInv, TypeOK, OwnersSound, Frontier, Ids, Start, Stale
  <2>5. QED
    BY <2>1, <2>2, <2>3, <2>4 DEF OwnersSound
<1>7. NeverResumed'
  BY DEF IndInv, Start, NeverResumed, OwnersSound, LanesSound, TypeOK, Stale,
     Fault, NoFault
<1>8. NoLostWakeup'
  BY DEF IndInv, Start, NoLostWakeup, PendingOf, Frontier, LanesSound, TypeOK,
     Stale, Fault, NoFault
<1>9. QED
  BY <1>1, <1>2, <1>3, <1>4, <1>5, <1>6, <1>7, <1>8 DEF IndInv

\* StopBegin keeps the types.
LEMMA StopBeginType ==
    ASSUME TypeOK, StopBegin
    PROVE  TypeOK'
  BY BoundsAreNaturals DEF TypeOK, StopBegin, Statuses, Terminal, Kinds,
     Enqueued, Foreign, Ids, tableVars, memoryVars, laneVars, wakeVars,
     historyVars

\* StopBegin keeps the inductive invariant.
LEMMA StopBeginKeeps ==
    ASSUME IndInv, StopBegin
    PROVE  IndInv'
<1>1. TypeOK'
  BY StopBeginType DEF IndInv, LanesSound, StopBegin
<1>2. Frontier'
  BY DEF IndInv, StopBegin, Frontier, TypeOK, tableVars, memoryVars, laneVars,
     wakeVars, historyVars
<1>3. LanesSound'
  BY DEF IndInv, StopBegin, LanesSound, Frontier, TypeOK, tableVars,
     memoryVars, laneVars, wakeVars, historyVars
<1>4. FreshRows'
  BY DEF IndInv, StopBegin, FreshRows, Frontier, TypeOK, tableVars, memoryVars,
     laneVars, wakeVars, historyVars
<1>5. FifoPerLane'
  BY DEF IndInv, StopBegin, FifoPerLane, FreshRows, Frontier, LaneOf, Kinds,
     Foreign, Enqueued, TypeOK, tableVars, memoryVars, laneVars, wakeVars,
     historyVars
<1>6. OwnersSound'
  BY DEF IndInv, StopBegin, OwnersSound, Frontier, LanesSound, TypeOK,
     tableVars, memoryVars, laneVars, wakeVars, historyVars
<1>7. NeverResumed'
  BY DEF IndInv, StopBegin, NeverResumed, OwnersSound, LanesSound, TypeOK,
     tableVars, memoryVars, laneVars, wakeVars, historyVars
<1>8. NoLostWakeup'
  BY DEF IndInv, StopBegin, NoLostWakeup, PendingOf, Frontier, LanesSound,
     TypeOK, tableVars, memoryVars, laneVars, wakeVars, historyVars
<1>9. QED
  BY <1>1, <1>2, <1>3, <1>4, <1>5, <1>6, <1>7, <1>8 DEF IndInv

\* StopFinish keeps the types.
LEMMA StopFinishType ==
    ASSUME TypeOK, StopFinish
    PROVE  TypeOK'
  BY BoundsAreNaturals DEF TypeOK, StopFinish, Statuses, Terminal, Kinds,
     Enqueued, Foreign, Ids, tableVars, laneVars, wakeVars, historyVars

\* StopFinish keeps the inductive invariant.
LEMMA StopFinishKeeps ==
    ASSUME IndInv, StopFinish
    PROVE  IndInv'
<1>1. TypeOK'
  BY StopFinishType DEF IndInv, LanesSound, StopFinish
<1>2. Frontier'
  BY DEF IndInv, StopFinish, Frontier, TypeOK, tableVars, laneVars, wakeVars,
     historyVars
<1>3. LanesSound'
  BY DEF IndInv, StopFinish, LanesSound, Frontier, TypeOK, tableVars, laneVars,
     wakeVars, historyVars
<1>4. FreshRows'
  BY DEF IndInv, StopFinish, FreshRows, Frontier, TypeOK, tableVars, laneVars,
     wakeVars, historyVars
<1>5. FifoPerLane'
  BY DEF IndInv, StopFinish, FifoPerLane, FreshRows, Frontier, LaneOf, Kinds,
     Foreign, Enqueued, TypeOK, tableVars, laneVars, wakeVars, historyVars
<1>6. OwnersSound'
  BY DEF IndInv, StopFinish, OwnersSound, Frontier, LanesSound, TypeOK,
     tableVars, laneVars, wakeVars, historyVars
<1>7. NeverResumed'
  BY DEF IndInv, StopFinish, NeverResumed, OwnersSound, LanesSound, TypeOK,
     tableVars, laneVars, wakeVars, historyVars
<1>8. NoLostWakeup'
  BY DEF IndInv, StopFinish, NoLostWakeup, PendingOf, Frontier, LanesSound,
     TypeOK, tableVars, laneVars, wakeVars, historyVars
<1>9. QED
  BY <1>1, <1>2, <1>3, <1>4, <1>5, <1>6, <1>7, <1>8 DEF IndInv

\* Crash keeps the types.
LEMMA CrashType ==
    ASSUME TypeOK, Crash
    PROVE  TypeOK'
<1>1. /\ pc' \in [Lanes -> {"off", "waiting", "drain", "executing", "notifying"}]
      /\ cur' \in [Lanes -> Ids \cup {0}]
      /\ woken' \in [Lanes -> BOOLEAN]
  BY DEF Crash
<1>2. session' \in Nat
  BY DEF TypeOK, Crash
<1>3. QED
  BY <1>1, <1>2 DEF TypeOK, Crash, tableVars, historyVars

\* Crash keeps the inductive invariant.
LEMMA CrashKeeps ==
    ASSUME IndInv, Crash
    PROVE  IndInv'
<1>1. TypeOK'
  BY CrashType DEF IndInv, LanesSound, Crash
<1>2. Frontier'
  BY DEF IndInv, Crash, Frontier, TypeOK, tableVars, historyVars
<1>3. LanesSound'
  BY DEF IndInv, Crash, LanesSound, Frontier, TypeOK, tableVars, historyVars
<1>4. FreshRows'
  BY DEF IndInv, Crash, FreshRows, Frontier, TypeOK, tableVars, historyVars
<1>5. FifoPerLane'
  BY DEF IndInv, Crash, FifoPerLane, FreshRows, Frontier, LaneOf, Kinds,
     Foreign, Enqueued, TypeOK, tableVars, historyVars
<1>6. OwnersSound'
  BY DEF IndInv, Crash, OwnersSound, Frontier, LanesSound, TypeOK, tableVars,
     historyVars
<1>7. NeverResumed'
  BY DEF IndInv, Crash, NeverResumed, OwnersSound, LanesSound, TypeOK,
     tableVars, historyVars
<1>8. NoLostWakeup'
  BY DEF IndInv, Crash, NoLostWakeup, PendingOf, Frontier, LanesSound, TypeOK,
     tableVars, historyVars
<1>9. QED
  BY <1>1, <1>2, <1>3, <1>4, <1>5, <1>6, <1>7, <1>8 DEF IndInv

\* LaneExits keeps the types.
LEMMA LaneExitsType ==
    ASSUME TypeOK, NEW l \in Lanes, LaneExits(l)
    PROVE  TypeOK'
  BY BoundsAreNaturals DEF TypeOK, LaneExits, Statuses, Terminal, Kinds,
     Enqueued, Foreign, Ids, tableVars, memoryVars, wakeVars, lifeVars,
     historyVars

\* LaneExits keeps the inductive invariant.
LEMMA LaneExitsKeeps ==
    ASSUME IndInv, NEW l \in Lanes, LaneExits(l)
    PROVE  IndInv'
<1>1. TypeOK'
  BY LaneExitsType DEF IndInv, LanesSound, LaneExits
<1>2. Frontier'
  BY DEF IndInv, LaneExits, Frontier, TypeOK, tableVars, memoryVars, wakeVars,
     lifeVars, historyVars
<1>3. LanesSound'
  BY DEF IndInv, LaneExits, LanesSound, Frontier, TypeOK, tableVars,
     memoryVars, wakeVars, lifeVars, historyVars
<1>4. FreshRows'
  BY DEF IndInv, LaneExits, FreshRows, Frontier, TypeOK, tableVars, memoryVars,
     wakeVars, lifeVars, historyVars
<1>5. FifoPerLane'
  BY DEF IndInv, LaneExits, FifoPerLane, FreshRows, Frontier, LaneOf, Kinds,
     Foreign, Enqueued, TypeOK, tableVars, memoryVars, wakeVars, lifeVars,
     historyVars
<1>6. OwnersSound'
  BY DEF IndInv, LaneExits, OwnersSound, Frontier, LanesSound, TypeOK,
     tableVars, memoryVars, wakeVars, lifeVars, historyVars
<1>7. NeverResumed'
  BY DEF IndInv, LaneExits, NeverResumed, OwnersSound, LanesSound, TypeOK,
     tableVars, memoryVars, wakeVars, lifeVars, historyVars
<1>8. NoLostWakeup'
  BY DEF IndInv, LaneExits, NoLostWakeup, PendingOf, Frontier, LanesSound,
     TypeOK, tableVars, memoryVars, wakeVars, lifeVars, historyVars
<1>9. QED
  BY <1>1, <1>2, <1>3, <1>4, <1>5, <1>6, <1>7, <1>8 DEF IndInv

\* LaneCancelled keeps the types.
LEMMA LaneCancelledType ==
    ASSUME TypeOK, NEW l \in Lanes, LaneCancelled(l), cur[l] # 0
    PROVE  TypeOK'
<1>1. faults' \in 0..MaxFaults
  BY BoundsAreNaturals DEF TypeOK, LaneCancelled, Fault, NoFault
<1>2. status' \in [Ids -> Statuses]
  BY DEF TypeOK, LaneCancelled, WriteStatus, Statuses, Terminal
<1>3. QED
  BY <1>1, <1>2 DEF TypeOK, LaneCancelled, memoryVars, wakeVars, lifeVars,
     historyVars

\* LaneCancelled keeps the inductive invariant.
LEMMA LaneCancelledKeeps ==
    ASSUME IndInv, NEW l \in Lanes, LaneCancelled(l)
    PROVE  IndInv'
<1>1. TypeOK'
  BY LaneCancelledType DEF IndInv, LanesSound, LaneCancelled
<1>0. cur[l] \in Ids /\ status[cur[l]] = "running"
  BY DEF IndInv, TypeOK, LanesSound, LaneCancelled
<1>2. Frontier'
  BY <1>0 DEF IndInv, LaneCancelled, Frontier, TypeOK, WriteStatus, memoryVars,
     wakeVars, lifeVars, historyVars
<1>3. LanesSound'
  BY <1>0 DEF IndInv, LaneCancelled, LanesSound, Frontier, TypeOK, WriteStatus,
     memoryVars, wakeVars, lifeVars, historyVars
<1>4. FreshRows'
  BY <1>0 DEF IndInv, LaneCancelled, FreshRows, Frontier, TypeOK, WriteStatus,
     memoryVars, wakeVars, lifeVars, historyVars
<1>5. FifoPerLane'
  BY <1>0 DEF IndInv, LaneCancelled, FifoPerLane, FreshRows, Frontier, LaneOf,
     Kinds, Foreign, Enqueued, TypeOK, WriteStatus, memoryVars, wakeVars,
     lifeVars, historyVars
<1>6. OwnersSound'
  BY <1>0 DEF IndInv, LaneCancelled, OwnersSound, Frontier, LanesSound, TypeOK,
     WriteStatus, memoryVars, wakeVars, lifeVars, historyVars
<1>7. NeverResumed'
  BY <1>0 DEF IndInv, LaneCancelled, NeverResumed, OwnersSound, LanesSound,
     TypeOK, WriteStatus, memoryVars, wakeVars, lifeVars, historyVars
<1>8. NoLostWakeup'
  BY <1>0 DEF IndInv, LaneCancelled, NoLostWakeup, PendingOf, Frontier,
     LanesSound, TypeOK, WriteStatus, memoryVars, wakeVars, lifeVars,
     historyVars
<1>9. QED
  BY <1>1, <1>2, <1>3, <1>4, <1>5, <1>6, <1>7, <1>8 DEF IndInv

\* LeaveWait keeps the types.
LEMMA LeaveWaitType ==
    ASSUME TypeOK, NEW l \in Lanes, LeaveWait(l)
    PROVE  TypeOK'
  BY BoundsAreNaturals DEF TypeOK, LeaveWait, Statuses, Terminal, Kinds,
     Enqueued, Foreign, Ids, tableVars, memoryVars, lifeVars, historyVars

\* LeaveWait keeps the inductive invariant.
LEMMA LeaveWaitKeeps ==
    ASSUME IndInv, NEW l \in Lanes, LeaveWait(l)
    PROVE  IndInv'
<1>1. TypeOK'
  BY LeaveWaitType DEF IndInv, LanesSound, LeaveWait
<1>2. Frontier'
  BY DEF IndInv, LeaveWait, Frontier, TypeOK, tableVars, memoryVars, lifeVars,
     historyVars
<1>3. LanesSound'
  BY DEF IndInv, LeaveWait, LanesSound, Frontier, TypeOK, tableVars,
     memoryVars, lifeVars, historyVars
<1>4. FreshRows'
  BY DEF IndInv, LeaveWait, FreshRows, Frontier, TypeOK, tableVars, memoryVars,
     lifeVars, historyVars
<1>5. FifoPerLane'
  BY DEF IndInv, LeaveWait, FifoPerLane, FreshRows, Frontier, LaneOf, Kinds,
     Foreign, Enqueued, TypeOK, tableVars, memoryVars, lifeVars, historyVars
<1>6. OwnersSound'
  BY DEF IndInv, LeaveWait, OwnersSound, Frontier, LanesSound, TypeOK,
     tableVars, memoryVars, lifeVars, historyVars
<1>7. NeverResumed'
  BY DEF IndInv, LeaveWait, NeverResumed, OwnersSound, LanesSound, TypeOK,
     tableVars, memoryVars, lifeVars, historyVars
<1>8. NoLostWakeup'
  BY DEF IndInv, LeaveWait, NoLostWakeup, PendingOf, Frontier, LanesSound,
     TypeOK, tableVars, memoryVars, lifeVars, historyVars
<1>9. QED
  BY <1>1, <1>2, <1>3, <1>4, <1>5, <1>6, <1>7, <1>8 DEF IndInv

\* DrainEmpty keeps the types.
LEMMA DrainEmptyType ==
    ASSUME TypeOK, NEW l \in Lanes, DrainEmpty(l)
    PROVE  TypeOK'
  BY BoundsAreNaturals DEF TypeOK, DrainEmpty, Draining, WaitAgain, PendingOf,
     Statuses, Terminal, Kinds, Enqueued, Foreign, Ids, tableVars, memoryVars,
     lifeVars, historyVars

\* DrainEmpty keeps the inductive invariant.
LEMMA DrainEmptyKeeps ==
    ASSUME IndInv, NEW l \in Lanes, DrainEmpty(l)
    PROVE  IndInv'
<1>1. TypeOK'
  BY DrainEmptyType DEF IndInv, LanesSound, DrainEmpty
<1>2. Frontier'
  BY DEF IndInv, DrainEmpty, Frontier, TypeOK, Draining, WaitAgain, PendingOf,
     tableVars, memoryVars, lifeVars, historyVars
<1>3. LanesSound'
  BY DEF IndInv, DrainEmpty, LanesSound, Frontier, TypeOK, Draining, WaitAgain,
     PendingOf, tableVars, memoryVars, lifeVars, historyVars
<1>4. FreshRows'
  BY DEF IndInv, DrainEmpty, FreshRows, Frontier, TypeOK, Draining, WaitAgain,
     PendingOf, tableVars, memoryVars, lifeVars, historyVars
<1>5. FifoPerLane'
  BY DEF IndInv, DrainEmpty, FifoPerLane, FreshRows, Frontier, LaneOf, Kinds,
     Foreign, Enqueued, TypeOK, Draining, WaitAgain, PendingOf, tableVars,
     memoryVars, lifeVars, historyVars
<1>6. OwnersSound'
  BY DEF IndInv, DrainEmpty, OwnersSound, Frontier, LanesSound, TypeOK,
     Draining, WaitAgain, PendingOf, tableVars, memoryVars, lifeVars,
     historyVars
<1>7. NeverResumed'
  BY DEF IndInv, DrainEmpty, NeverResumed, OwnersSound, LanesSound, TypeOK,
     Draining, WaitAgain, PendingOf, tableVars, memoryVars, lifeVars,
     historyVars
<1>8. NoLostWakeup'
  BY DEF IndInv, DrainEmpty, NoLostWakeup, PendingOf, Frontier, LanesSound,
     TypeOK, Draining, WaitAgain, tableVars, memoryVars, lifeVars, historyVars
<1>9. QED
  BY <1>1, <1>2, <1>3, <1>4, <1>5, <1>6, <1>7, <1>8 DEF IndInv

\* QueryFails keeps the types.
LEMMA QueryFailsType ==
    ASSUME TypeOK, NEW l \in Lanes, QueryFails(l)
    PROVE  TypeOK'
<1>1. faults' \in 0..MaxFaults
  BY BoundsAreNaturals DEF TypeOK, QueryFails, PassFails, Fault
<1>2. /\ pc' \in [Lanes -> {"off", "waiting", "drain", "executing", "notifying"}]
      /\ woken' \in [Lanes -> BOOLEAN] /\ wake' \in BOOLEAN
  BY DEF TypeOK, QueryFails, PassFails, WaitAgain
<1>3. QED
  BY <1>1, <1>2 DEF TypeOK, QueryFails, PassFails, PendingOf, tableVars,
     memoryVars, lifeVars

\* QueryFails keeps the inductive invariant.
LEMMA QueryFailsKeeps ==
    ASSUME IndInv, NEW l \in Lanes, QueryFails(l)
    PROVE  IndInv'
<1>1. TypeOK'
  BY QueryFailsType DEF IndInv, LanesSound, QueryFails
<1>2. Frontier'
  BY DEF IndInv, QueryFails, Frontier, TypeOK, Draining, PassFails, WaitAgain,
     Fault, PendingOf, tableVars, memoryVars, lifeVars
<1>3. LanesSound'
  BY DEF IndInv, QueryFails, LanesSound, Frontier, TypeOK, Draining, PassFails,
     WaitAgain, Fault, PendingOf, tableVars, memoryVars, lifeVars
<1>4. FreshRows'
  BY DEF IndInv, QueryFails, FreshRows, Frontier, TypeOK, Draining, PassFails,
     WaitAgain, Fault, PendingOf, tableVars, memoryVars, lifeVars
<1>5. FifoPerLane'
  BY DEF IndInv, QueryFails, FifoPerLane, FreshRows, Frontier, LaneOf, Kinds,
     Foreign, Enqueued, TypeOK, Draining, PassFails, WaitAgain, Fault,
     PendingOf, tableVars, memoryVars, lifeVars
<1>6. OwnersSound'
  BY DEF IndInv, QueryFails, OwnersSound, Frontier, LanesSound, TypeOK,
     Draining, PassFails, WaitAgain, Fault, PendingOf, tableVars, memoryVars,
     lifeVars
<1>7. NeverResumed'
  BY DEF IndInv, QueryFails, NeverResumed, OwnersSound, LanesSound, TypeOK,
     Draining, PassFails, WaitAgain, Fault, PendingOf, tableVars, memoryVars,
     lifeVars
<1>8. NoLostWakeup'
  BY DEF IndInv, QueryFails, NoLostWakeup, PendingOf, Frontier, LanesSound,
     TypeOK, Draining, PassFails, WaitAgain, Fault, tableVars, memoryVars,
     lifeVars
<1>9. QED
  BY <1>1, <1>2, <1>3, <1>4, <1>5, <1>6, <1>7, <1>8 DEF IndInv

\* RejectRow keeps the types.
LEMMA RejectRowType ==
    ASSUME TypeOK, NEW l \in Lanes, NEW i \in Ids, RejectRow(l, i)
    PROVE  TypeOK'
<1>1. status' \in [Ids -> Statuses]
  BY DEF TypeOK, RejectRow, WriteStatus, Statuses, Terminal
<1>2. faults' \in 0..MaxFaults
  BY BoundsAreNaturals DEF TypeOK, RejectRow, PassFails, Fault, NoFault
<1>3. /\ pc' \in [Lanes -> {"off", "waiting", "drain", "executing", "notifying"}]
      /\ woken' \in [Lanes -> BOOLEAN] /\ wake' \in BOOLEAN
  BY DEF TypeOK, RejectRow, PassFails, WaitAgain, wakeVars
<1>4. unsignalled' \subseteq Ids /\ live' \subseteq Ids
  BY DEF TypeOK, RejectRow, PassFails, PendingOf
<1>5. QED
  BY <1>1, <1>2, <1>3, <1>4 DEF TypeOK, RejectRow, lifeVars

\* RejectRow keeps the inductive invariant.
LEMMA RejectRowKeeps ==
    ASSUME IndInv, NEW l \in Lanes, NEW i \in Ids, RejectRow(l, i)
    PROVE  IndInv'
<1>1. TypeOK'
  BY RejectRowType DEF IndInv, LanesSound, RejectRow
<1>0. /\ status[i] = "pending" /\ pc[l] = "drain" /\ mgr = "up"
      /\ \/ status' = [status EXCEPT ![i] = "failed"] /\ pc' = pc
            /\ UNCHANGED <<wake, woken, unsignalled>>
         \/ status' = status /\ pc' = [pc EXCEPT ![l] = "waiting"]
            /\ woken' = [woken EXCEPT ![l] = wake]
            /\ unsignalled' = unsignalled \cup PendingOf(l)
      /\ UNCHANGED <<kind, rows, cur, mgr, starts>>
  BY DEF RejectRow, Draining, NextPending, PendingOf, WriteStatus, PassFails,
     WaitAgain, wakeVars, lifeVars
<1>2. Frontier'
  BY DEF IndInv, RejectRow, Frontier, TypeOK, Draining, NextPending, PendingOf,
     WriteStatus, wakeVars, lifeVars
<1>3. LanesSound'
  BY <1>0 DEF IndInv, TypeOK, LanesSound
<1>4. FreshRows'
  BY DEF IndInv, RejectRow, FreshRows, Frontier, TypeOK, Draining, NextPending,
     PendingOf, WriteStatus, wakeVars, lifeVars
<1>5. FifoPerLane'
  BY <1>0 DEF IndInv, TypeOK, FifoPerLane
<1>6. OwnersSound'
  BY DEF IndInv, RejectRow, OwnersSound, Frontier, LanesSound, TypeOK,
     Draining, NextPending, PendingOf, WriteStatus, wakeVars, lifeVars
<1>7. NeverResumed'
  BY DEF IndInv, RejectRow, NeverResumed, OwnersSound, LanesSound, TypeOK,
     Draining, NextPending, PendingOf, WriteStatus, PassFails, WaitAgain,
     wakeVars, lifeVars
<1>8. NoLostWakeup'
  BY <1>0 DEF IndInv, TypeOK, NoLostWakeup, PendingOf
<1>9. QED
  BY <1>1, <1>2, <1>3, <1>4, <1>5, <1>6, <1>7, <1>8 DEF IndInv

\* StartRow keeps the types.
LEMMA StartRowType ==
    ASSUME TypeOK, NEW l \in Lanes, NEW i \in Ids, StartRow(l, i)
    PROVE  TypeOK'
  BY BoundsAreNaturals DEF TypeOK, StartRow, Draining, NextPending, PendingOf,
     WriteStatus, Statuses, Terminal, Kinds, Enqueued, Foreign, Ids, wakeVars,
     lifeVars

\* StartRow keeps the inductive invariant.
LEMMA StartRowKeeps ==
    ASSUME IndInv, NEW l \in Lanes, NEW i \in Ids, StartRow(l, i)
    PROVE  IndInv'
<1>1. TypeOK'
  BY StartRowType DEF IndInv, LanesSound, StartRow
<1>2. Frontier'
  BY DEF IndInv, StartRow, Frontier, TypeOK, Ids, Draining, NextPending,
     PendingOf, WriteStatus, wakeVars, lifeVars
<1>3. LanesSound'
  BY DEF IndInv, StartRow, LanesSound, Frontier, TypeOK, Ids, Draining,
     NextPending, PendingOf, WriteStatus, wakeVars, lifeVars
<1>4. FreshRows'
  BY DEF IndInv, StartRow, FreshRows, Frontier, TypeOK, Ids, Draining,
     NextPending, PendingOf, WriteStatus, wakeVars, lifeVars
<1>5. FifoPerLane'
  BY DEF IndInv, StartRow, FifoPerLane, FreshRows, Frontier, LaneOf, Kinds,
     Foreign, Enqueued, TypeOK, Ids, Draining, NextPending, PendingOf,
     WriteStatus, wakeVars, lifeVars
<1>6. OwnersSound'
  BY DEF IndInv, StartRow, OwnersSound, Frontier, LanesSound, TypeOK, Ids,
     Draining, NextPending, PendingOf, WriteStatus, wakeVars, lifeVars
<1>7. NeverResumed'
  BY DEF IndInv, StartRow, NeverResumed, OwnersSound, LanesSound, TypeOK, Ids,
     Draining, NextPending, PendingOf, WriteStatus, wakeVars, lifeVars
<1>8. NoLostWakeup'
  BY DEF IndInv, StartRow, NoLostWakeup, PendingOf, Frontier, LanesSound,
     TypeOK, Ids, Draining, NextPending, WriteStatus, wakeVars, lifeVars
<1>9. QED
  BY <1>1, <1>2, <1>3, <1>4, <1>5, <1>6, <1>7, <1>8 DEF IndInv

\* StartFails keeps the types.
LEMMA StartFailsType ==
    ASSUME TypeOK, NEW l \in Lanes, NEW i \in Ids, StartFails(l, i)
    PROVE  TypeOK'
<1>1. faults' \in 0..MaxFaults
  BY BoundsAreNaturals DEF TypeOK, StartFails, PassFails, Fault
<1>2. /\ pc' \in [Lanes -> {"off", "waiting", "drain", "executing", "notifying"}]
      /\ woken' \in [Lanes -> BOOLEAN] /\ wake' \in BOOLEAN
  BY DEF TypeOK, StartFails, PassFails, WaitAgain
<1>3. QED
  BY <1>1, <1>2 DEF TypeOK, StartFails, PassFails, PendingOf, tableVars,
     lifeVars

\* StartFails keeps the inductive invariant.
LEMMA StartFailsKeeps ==
    ASSUME IndInv, NEW l \in Lanes, NEW i \in Ids, StartFails(l, i)
    PROVE  IndInv'
<1>1. TypeOK'
  BY StartFailsType DEF IndInv, LanesSound, StartFails
<1>2. Frontier'
  BY DEF IndInv, StartFails, Frontier, TypeOK, Draining, NextPending,
     PendingOf, PassFails, WaitAgain, Fault, tableVars, lifeVars
<1>3. LanesSound'
  BY DEF IndInv, StartFails, LanesSound, Frontier, TypeOK, Draining,
     NextPending, PendingOf, PassFails, WaitAgain, Fault, tableVars, lifeVars
<1>4. FreshRows'
  BY DEF IndInv, StartFails, FreshRows, Frontier, TypeOK, Draining,
     NextPending, PendingOf, PassFails, WaitAgain, Fault, tableVars, lifeVars
<1>5. FifoPerLane'
  BY DEF IndInv, StartFails, FifoPerLane, FreshRows, Frontier, LaneOf, Kinds,
     Foreign, Enqueued, TypeOK, Draining, NextPending, PendingOf, PassFails,
     WaitAgain, Fault, tableVars, lifeVars
<1>6. OwnersSound'
  BY DEF IndInv, StartFails, OwnersSound, Frontier, LanesSound, TypeOK,
     Draining, NextPending, PendingOf, PassFails, WaitAgain, Fault, tableVars,
     lifeVars
<1>7. NeverResumed'
  BY DEF IndInv, StartFails, NeverResumed, OwnersSound, LanesSound, TypeOK,
     Draining, NextPending, PendingOf, PassFails, WaitAgain, Fault, tableVars,
     lifeVars
<1>8. NoLostWakeup'
  BY DEF IndInv, StartFails, NoLostWakeup, PendingOf, Frontier, LanesSound,
     TypeOK, Draining, NextPending, PassFails, WaitAgain, Fault, tableVars,
     lifeVars
<1>9. QED
  BY <1>1, <1>2, <1>3, <1>4, <1>5, <1>6, <1>7, <1>8 DEF IndInv

\* Finish keeps the types.
LEMMA FinishType ==
    ASSUME TypeOK, NEW l \in Lanes, NEW s \in {"success", "failed"}, Finish(l, s), cur[l] # 0
    PROVE  TypeOK'
  BY BoundsAreNaturals DEF TypeOK, Finish, WriteStatus, Statuses, Terminal,
     Kinds, Enqueued, Foreign, Ids, memoryVars, wakeVars, lifeVars, historyVars

\* Finish keeps the inductive invariant.
LEMMA FinishKeeps ==
    ASSUME IndInv, NEW l \in Lanes, NEW s \in {"success", "failed"}, Finish(l, s)
    PROVE  IndInv'
<1>1. TypeOK'
  BY FinishType DEF IndInv, LanesSound, Finish
<1>0. cur[l] \in Ids /\ status[cur[l]] = "running"
  BY DEF IndInv, TypeOK, LanesSound, Finish
<1>2. Frontier'
  BY <1>0 DEF IndInv, Finish, Frontier, TypeOK, WriteStatus, memoryVars,
     wakeVars, lifeVars, historyVars
<1>3. LanesSound'
  BY <1>0 DEF IndInv, Finish, LanesSound, Frontier, TypeOK, WriteStatus,
     memoryVars, wakeVars, lifeVars, historyVars
<1>4. FreshRows'
  BY <1>0 DEF IndInv, Finish, FreshRows, Frontier, TypeOK, WriteStatus,
     memoryVars, wakeVars, lifeVars, historyVars
<1>5. FifoPerLane'
  BY <1>0 DEF IndInv, Finish, FifoPerLane, FreshRows, Frontier, LaneOf, Kinds,
     Foreign, Enqueued, TypeOK, WriteStatus, memoryVars, wakeVars, lifeVars,
     historyVars
<1>6. OwnersSound'
  BY <1>0 DEF IndInv, Finish, OwnersSound, Frontier, LanesSound, TypeOK,
     WriteStatus, memoryVars, wakeVars, lifeVars, historyVars
<1>7. NeverResumed'
  BY <1>0 DEF IndInv, Finish, NeverResumed, OwnersSound, LanesSound, TypeOK,
     WriteStatus, memoryVars, wakeVars, lifeVars, historyVars
<1>8. NoLostWakeup'
  BY <1>0 DEF IndInv, Finish, NoLostWakeup, PendingOf, Frontier, LanesSound,
     TypeOK, WriteStatus, memoryVars, wakeVars, lifeVars, historyVars
<1>9. QED
  BY <1>1, <1>2, <1>3, <1>4, <1>5, <1>6, <1>7, <1>8 DEF IndInv

\* FinishFails keeps the types.
LEMMA FinishFailsType ==
    ASSUME TypeOK, NEW l \in Lanes, FinishFails(l), cur[l] # 0
    PROVE  TypeOK'
<1>1. faults' \in 0..MaxFaults
  BY BoundsAreNaturals DEF TypeOK, FinishFails, PassFails, Fault
<1>2. /\ pc' \in [Lanes -> {"off", "waiting", "drain", "executing", "notifying"}]
      /\ woken' \in [Lanes -> BOOLEAN] /\ wake' \in BOOLEAN
  BY DEF TypeOK, FinishFails, PassFails, WaitAgain
<1>3. QED
  BY <1>1, <1>2 DEF TypeOK, FinishFails, PassFails, PendingOf, tableVars,
     memoryVars, lifeVars

\* FinishFails keeps the inductive invariant.
LEMMA FinishFailsKeeps ==
    ASSUME IndInv, NEW l \in Lanes, FinishFails(l)
    PROVE  IndInv'
<1>1. TypeOK'
  BY FinishFailsType DEF IndInv, LanesSound, FinishFails
<1>2. Frontier'
  BY DEF IndInv, FinishFails, Frontier, TypeOK, PassFails, WaitAgain, Fault,
     PendingOf, tableVars, memoryVars, lifeVars
<1>3. LanesSound'
  BY DEF IndInv, FinishFails, LanesSound, Frontier, TypeOK, PassFails,
     WaitAgain, Fault, PendingOf, tableVars, memoryVars, lifeVars
<1>4. FreshRows'
  BY DEF IndInv, FinishFails, FreshRows, Frontier, TypeOK, PassFails,
     WaitAgain, Fault, PendingOf, tableVars, memoryVars, lifeVars
<1>5. FifoPerLane'
  BY DEF IndInv, FinishFails, FifoPerLane, FreshRows, Frontier, LaneOf, Kinds,
     Foreign, Enqueued, TypeOK, PassFails, WaitAgain, Fault, PendingOf,
     tableVars, memoryVars, lifeVars
<1>6. OwnersSound'
  BY DEF IndInv, FinishFails, OwnersSound, Frontier, LanesSound, TypeOK,
     PassFails, WaitAgain, Fault, PendingOf, tableVars, memoryVars, lifeVars
<1>7. NeverResumed'
  BY DEF IndInv, FinishFails, NeverResumed, OwnersSound, LanesSound, TypeOK,
     PassFails, WaitAgain, Fault, PendingOf, tableVars, memoryVars, lifeVars
<1>8. NoLostWakeup'
  BY DEF IndInv, FinishFails, NoLostWakeup, PendingOf, Frontier, LanesSound,
     TypeOK, PassFails, WaitAgain, Fault, tableVars, memoryVars, lifeVars
<1>9. QED
  BY <1>1, <1>2, <1>3, <1>4, <1>5, <1>6, <1>7, <1>8 DEF IndInv

\* Notified keeps the types.
LEMMA NotifiedType ==
    ASSUME TypeOK, NEW l \in Lanes, Notified(l)
    PROVE  TypeOK'
  BY BoundsAreNaturals DEF TypeOK, Notified, Statuses, Terminal, Kinds,
     Enqueued, Foreign, Ids, tableVars, memoryVars, wakeVars, lifeVars,
     historyVars

\* Notified keeps the inductive invariant.
LEMMA NotifiedKeeps ==
    ASSUME IndInv, NEW l \in Lanes, Notified(l)
    PROVE  IndInv'
<1>1. TypeOK'
  BY NotifiedType DEF IndInv, LanesSound, Notified
<1>2. Frontier'
  BY DEF IndInv, Notified, Frontier, TypeOK, tableVars, memoryVars, wakeVars,
     lifeVars, historyVars
<1>3. LanesSound'
  BY DEF IndInv, Notified, LanesSound, Frontier, TypeOK, tableVars, memoryVars,
     wakeVars, lifeVars, historyVars
<1>4. FreshRows'
  BY DEF IndInv, Notified, FreshRows, Frontier, TypeOK, tableVars, memoryVars,
     wakeVars, lifeVars, historyVars
<1>5. FifoPerLane'
  BY DEF IndInv, Notified, FifoPerLane, FreshRows, Frontier, LaneOf, Kinds,
     Foreign, Enqueued, TypeOK, tableVars, memoryVars, wakeVars, lifeVars,
     historyVars
<1>6. OwnersSound'
  BY DEF IndInv, Notified, OwnersSound, Frontier, LanesSound, TypeOK,
     tableVars, memoryVars, wakeVars, lifeVars, historyVars
<1>7. NeverResumed'
  BY DEF IndInv, Notified, NeverResumed, OwnersSound, LanesSound, TypeOK,
     tableVars, memoryVars, wakeVars, lifeVars, historyVars
<1>8. NoLostWakeup'
  BY DEF IndInv, Notified, NoLostWakeup, PendingOf, Frontier, LanesSound,
     TypeOK, tableVars, memoryVars, wakeVars, lifeVars, historyVars
<1>9. QED
  BY <1>1, <1>2, <1>3, <1>4, <1>5, <1>6, <1>7, <1>8 DEF IndInv

\* ReportProgress keeps the types.
LEMMA ReportProgressType ==
    ASSUME TypeOK, NEW l \in Lanes, ReportProgress(l), cur[l] # 0
    PROVE  TypeOK'
  BY BoundsAreNaturals DEF TypeOK, ReportProgress, Statuses, Terminal, Kinds,
     Enqueued, Foreign, Ids, tableVars, memoryVars, laneVars, wakeVars,
     lifeVars, historyVars

\* ReportProgress keeps the inductive invariant.
LEMMA ReportProgressKeeps ==
    ASSUME IndInv, NEW l \in Lanes, ReportProgress(l)
    PROVE  IndInv'
<1>1. TypeOK'
  BY ReportProgressType DEF IndInv, LanesSound, ReportProgress
<1>2. Frontier'
  BY DEF IndInv, ReportProgress, Frontier, TypeOK, tableVars, memoryVars,
     laneVars, wakeVars, lifeVars, historyVars
<1>3. LanesSound'
  BY DEF IndInv, ReportProgress, LanesSound, Frontier, TypeOK, tableVars,
     memoryVars, laneVars, wakeVars, lifeVars, historyVars
<1>4. FreshRows'
  BY DEF IndInv, ReportProgress, FreshRows, Frontier, TypeOK, tableVars,
     memoryVars, laneVars, wakeVars, lifeVars, historyVars
<1>5. FifoPerLane'
  BY DEF IndInv, ReportProgress, FifoPerLane, FreshRows, Frontier, LaneOf,
     Kinds, Foreign, Enqueued, TypeOK, tableVars, memoryVars, laneVars,
     wakeVars, lifeVars, historyVars
<1>6. OwnersSound'
  BY DEF IndInv, ReportProgress, OwnersSound, Frontier, LanesSound, TypeOK,
     tableVars, memoryVars, laneVars, wakeVars, lifeVars, historyVars
<1>7. NeverResumed'
  BY DEF IndInv, ReportProgress, NeverResumed, OwnersSound, LanesSound, TypeOK,
     tableVars, memoryVars, laneVars, wakeVars, lifeVars, historyVars
<1>8. NoLostWakeup'
  BY DEF IndInv, ReportProgress, NoLostWakeup, PendingOf, Frontier, LanesSound,
     TypeOK, tableVars, memoryVars, laneVars, wakeVars, lifeVars, historyVars
<1>9. QED
  BY <1>1, <1>2, <1>3, <1>4, <1>5, <1>6, <1>7, <1>8 DEF IndInv

\* ApplyProgress keeps the types.
LEMMA ApplyProgressType ==
    ASSUME TypeOK, NEW i \in Ids, ApplyProgress(i)
    PROVE  TypeOK'
  BY BoundsAreNaturals DEF TypeOK, ApplyProgress, WriteProgress, Statuses,
     Terminal, Kinds, Enqueued, Foreign, Ids, memoryVars, laneVars, wakeVars,
     lifeVars, historyVars

\* ApplyProgress keeps the inductive invariant.
LEMMA ApplyProgressKeeps ==
    ASSUME IndInv, NEW i \in Ids, ApplyProgress(i)
    PROVE  IndInv'
<1>1. TypeOK'
  BY ApplyProgressType DEF IndInv, LanesSound, ApplyProgress
<1>2. Frontier'
  BY DEF IndInv, ApplyProgress, Frontier, TypeOK, WriteProgress, memoryVars,
     laneVars, wakeVars, lifeVars, historyVars
<1>3. LanesSound'
  BY DEF IndInv, ApplyProgress, LanesSound, Frontier, TypeOK, WriteProgress,
     memoryVars, laneVars, wakeVars, lifeVars, historyVars
<1>4. FreshRows'
  BY DEF IndInv, ApplyProgress, FreshRows, Frontier, TypeOK, WriteProgress,
     memoryVars, laneVars, wakeVars, lifeVars, historyVars
<1>5. FifoPerLane'
  BY DEF IndInv, ApplyProgress, FifoPerLane, FreshRows, Frontier, LaneOf,
     Kinds, Foreign, Enqueued, TypeOK, WriteProgress, memoryVars, laneVars,
     wakeVars, lifeVars, historyVars
<1>6. OwnersSound'
  BY DEF IndInv, ApplyProgress, OwnersSound, Frontier, LanesSound, TypeOK,
     WriteProgress, memoryVars, laneVars, wakeVars, lifeVars, historyVars
<1>7. NeverResumed'
  BY DEF IndInv, ApplyProgress, NeverResumed, OwnersSound, LanesSound, TypeOK,
     WriteProgress, memoryVars, laneVars, wakeVars, lifeVars, historyVars
<1>8. NoLostWakeup'
  BY DEF IndInv, ApplyProgress, NoLostWakeup, PendingOf, Frontier, LanesSound,
     TypeOK, WriteProgress, memoryVars, laneVars, wakeVars, lifeVars,
     historyVars
<1>9. QED
  BY <1>1, <1>2, <1>3, <1>4, <1>5, <1>6, <1>7, <1>8 DEF IndInv
----------------------------------------------------------------------------
(* The specification keeps the invariant *)

\* The initial states satisfy the inductive invariant.
LEMMA InitEstablishes == Init => IndInv
<1> SUFFICES ASSUME Init PROVE IndInv
  OBVIOUS
<1>1. TypeOK
  <2>1. status \in [Ids -> Statuses] /\ kind \in [Ids -> Kinds]
    BY DEF Init, Statuses, Kinds
  <2>2. rows \in 0..MaxTasks /\ faults \in 0..MaxFaults /\ session \in Nat
    BY BoundsAreNaturals DEF Init
  <2>3. QED
    BY <2>1, <2>2 DEF Init, TypeOK
<1>2. Frontier /\ FreshRows /\ OwnersSound
  BY DEF Init, Frontier, FreshRows, OwnersSound, Ids
<1>3. LanesSound
  BY DEF Init, LanesSound
<1>4. FifoPerLane /\ NeverResumed /\ NoLostWakeup
  BY DEF Init, FifoPerLane, NeverResumed, NoLostWakeup
<1>5. QED
  BY <1>1, <1>2, <1>3, <1>4 DEF IndInv

\* A step that changes nothing keeps the inductive invariant.
LEMMA StutterKeeps == IndInv /\ UNCHANGED vars => IndInv'
  BY DEF IndInv, TypeOK, Frontier, LanesSound, FreshRows, FifoPerLane,
         OwnersSound, NeverResumed, NoLostWakeup, PendingOf, vars, tableVars,
         memoryVars, laneVars, wakeVars, lifeVars, historyVars

\* Every step keeps the inductive invariant.
LEMMA NextKeeps == IndInv /\ [Next]_vars => IndInv'
<1> SUFFICES ASSUME IndInv, [Next]_vars PROVE IndInv'
  OBVIOUS
<1>1. ASSUME NEW k \in Enqueued, Enqueue(k) PROVE IndInv'
  BY <1>1, EnqueueKeeps
<1>2. ASSUME NEW k \in Foreign, ForeignInsert(k) PROVE IndInv'
  BY <1>2, ForeignInsertKeeps
<1>3. CASE Start \/ StopBegin \/ StopFinish \/ Crash
  BY <1>3, StartKeeps, StopBeginKeeps, StopFinishKeeps, CrashKeeps
<1>4. ASSUME NEW l \in Lanes, WorkerStep(l) PROVE IndInv'
  <2>1. CASE WakeUp(l) \/ Poll(l) \/ DrainEmpty(l) \/ Notified(l)
    BY <2>1, LeaveWaitKeeps, DrainEmptyKeeps, NotifiedKeeps DEF WakeUp, Poll
  <2>2. ASSUME NEW i \in Ids, RejectRow(l, i) \/ StartRow(l, i) PROVE IndInv'
    BY <2>2, RejectRowKeeps, StartRowKeeps
  <2>3. ASSUME NEW s \in {"success", "failed"}, Finish(l, s) PROVE IndInv'
    BY <2>3, FinishKeeps
  <2>4. QED
    BY <1>4, <2>1, <2>2, <2>3 DEF WorkerStep
<1>5. ASSUME NEW l \in Lanes, FaultStep(l) \/ ShutdownStep(l) PROVE IndInv'
  BY <1>5, QueryFailsKeeps, FinishFailsKeeps, StartFailsKeeps, LaneExitsKeeps,
     LaneCancelledKeeps DEF FaultStep, ShutdownStep
<1>6. ASSUME NEW l \in Lanes, ReportProgress(l) PROVE IndInv'
  BY <1>6, ReportProgressKeeps
<1>7. ASSUME NEW i \in Ids, ApplyProgress(i) PROVE IndInv'
  BY <1>7, ApplyProgressKeeps
<1>8. CASE UNCHANGED vars
  BY <1>8, StutterKeeps
<1>9. QED
  BY <1>1, <1>2, <1>3, <1>4, <1>5, <1>6, <1>7, <1>8 DEF Next

\* The inductive invariant holds of every reachable state.
THEOREM Invariance == Spec => []IndInv
<1>1. QED
  BY InitEstablishes, NextKeeps, PTL DEF Spec

\* The variables keep their types.
THEOREM TypeCorrect == Spec => []TypeOK
<1>1. IndInv => TypeOK
  BY DEF IndInv
<1>2. QED
  BY <1>1, Invariance, PTL

\* No task function is ever started twice for one row, whatever crashes,
\* restarts and failed writes happen in between (StartRow, FinishFails).
THEOREM AtMostOnce == Spec => []RunAtMostOnce
<1>1. IndInv => RunAtMostOnce
  BY DEF IndInv, FreshRows, RunAtMostOnce
<1>2. QED
  BY <1>1, Invariance, PTL

\* Each lane starts its rows in enqueue order (get_next_pending_sync).
THEOREM Fifo == Spec => []FifoPerLane
<1>1. IndInv => FifoPerLane
  BY DEF IndInv
<1>2. QED
  BY <1>1, Invariance, PTL

\* A lane only works on a row recorded as running, and never on the row of
\* the other lane.
THEOREM ExecutingIsRunning == Spec => []ExecutingRowIsRunning
<1>1. IndInv => ExecutingRowIsRunning
  BY DEF IndInv, TypeOK, LanesSound, ExecutingRowIsRunning
<1>2. QED
  BY <1>1, Invariance, PTL

\* After a successful recovery no row of an earlier life is executed
\* (recover_stale).
THEOREM LeftoversNeverResumed == Spec => []NeverResumed
<1>1. IndInv => NeverResumed
  BY DEF IndInv
<1>2. QED
  BY <1>1, Invariance, PTL

\* A sleeping worker has been told of every row it was to be told of.
THEOREM WakeupsReachWorkers == Spec => []NoLostWakeup
<1>1. IndInv => NoLostWakeup
  BY DEF IndInv
<1>2. QED
  BY <1>1, Invariance, PTL
----------------------------------------------------------------------------
(* Every step is one of the contract's, or none *)

\* Inserting a row, by whichever path, is a submission.
LEMMA EnqueueSubmits ==
    ASSUME IndInv, NEW k \in Enqueued \cup Foreign, Insert(k), UNCHANGED cur
    PROVE  Contract!Next
<1>1. rows + 1 \in Ids /\ LaneOf(k) \in Lanes \cup {"none"}
  BY BoundsAreNaturals DEF IndInv, TypeOK, Insert, Ids, LaneOf, Lanes
<1>2. status[rows + 1] = "absent" /\ \A j \in Ids : j < rows + 1 => status[j] # "absent"
  BY <1>1 DEF IndInv, TypeOK, Frontier, Ids
<1>3. [i \in Ids |-> LaneOf(kind'[i])]
      = [[i \in Ids |-> LaneOf(kind[i])] EXCEPT ![rows + 1] = LaneOf(k)]
  BY <1>1 DEF IndInv, TypeOK, Insert
<1>4. Contract!Submit(rows + 1, LaneOf(k))
  BY <1>2, <1>3 DEF Contract!Submit, Insert
<1>5. QED
  BY <1>1, <1>4 DEF Contract!Next

\* Recovery at start() is an interruption of unclaimed rows, or nothing.
LEMMA StartInterrupts ==
    ASSUME IndInv, Start
    PROVE  [Contract!Next]_Contract!lvars
<1>1. CASE UNCHANGED status
  BY <1>1 DEF Start, Contract!lvars
<1>2. CASE status' = [i \in Ids |-> IF Stale(i) THEN "interrupted" ELSE status[i]]
  <2> DEFINE S == {i \in Ids : Stale(i)}
  <2>1. \A l \in Lanes : cur[l] = 0
    BY DEF IndInv, LanesSound, Start
  <2>2. \A i \in S : status[i] \in {"pending", "running"}
    BY DEF Stale
  <2>3. status' = [i \in Ids |-> IF i \in S THEN "interrupted" ELSE status[i]]
    BY <1>2
  <2>4. Contract!Interrupt(S)
    BY <2>1, <2>2, <2>3 DEF Contract!Interrupt, Start
  <2>5. QED
    BY <2>4 DEF Contract!Next
<1>3. QED
  BY <1>1, <1>2 DEF Start

\* Lanes that give up their rows without recording an outcome.
LEMMA ReleaseAbandons ==
    ASSUME IndInv, NEW L \in SUBSET Lanes,
           cur' = [l \in Lanes |-> IF l \in L THEN 0 ELSE cur[l]],
           UNCHANGED <<status, kind>>
    PROVE  Contract!Next
<1>1. Contract!Abandon(L)
  BY DEF Contract!Abandon
<1>2. QED
  BY <1>1 DEF Contract!Next

\* Recording an outcome settles the lane's row.
LEMMA LaneSettles ==
    ASSUME IndInv, NEW l \in Lanes, NEW s \in Terminal, pc[l] = "executing",
           status' = WriteStatus(status, cur[l], s),
           cur' = [cur EXCEPT ![l] = 0], UNCHANGED kind
    PROVE  Contract!Next
<1>1. Contract!Settle(l, s)
  BY DEF IndInv, LanesSound, WriteStatus, Contract!Settle
<1>2. QED
  BY <1>1 DEF Contract!Next, Contract!Settled, Terminal

\* A draining lane holds no row, and picks the oldest that waits for it.
LEMMA PickIsOldest ==
    ASSUME IndInv, NEW l \in Lanes, NEW i \in Ids, pc[l] = "drain",
           NextPending(l, i)
    PROVE  cur[l] = 0 /\ Contract!Oldest(l, i)
  BY DEF IndInv, LanesSound, NextPending, PendingOf, Contract!Oldest

\* Every step of the kernel is a step of the contract or a stutter.
LEMMA StepImplements ==
    ASSUME IndInv, [Next]_vars
    PROVE  [Contract!Next]_Contract!lvars
<1>1. ASSUME NEW k \in Enqueued, Enqueue(k) PROVE Contract!Next
  BY <1>1, EnqueueSubmits DEF Enqueue, laneVars
<1>2. ASSUME NEW k \in Foreign, ForeignInsert(k) PROVE Contract!Next
  BY <1>2, EnqueueSubmits DEF ForeignInsert, laneVars
<1>3. CASE Start
  BY <1>3, StartInterrupts
<1>4. CASE StopBegin \/ StopFinish
  BY <1>4 DEF StopBegin, StopFinish, tableVars, laneVars, Contract!lvars
<1>5. CASE Crash
  <2>1. cur' = [l \in Lanes |-> IF l \in Lanes THEN 0 ELSE cur[l]]
    BY <1>5 DEF Crash
  <2>2. QED
    BY <1>5, <2>1, ReleaseAbandons DEF Crash, tableVars
<1>6. ASSUME NEW l \in Lanes, WorkerStep(l) PROVE [Contract!Next]_Contract!lvars
  <2>1. CASE WakeUp(l) \/ Poll(l) \/ DrainEmpty(l) \/ Notified(l)
    BY <2>1 DEF WakeUp, Poll, LeaveWait, DrainEmpty, Notified, tableVars,
                Contract!lvars
  <2>2. ASSUME NEW i \in Ids, StartRow(l, i) PROVE Contract!Next
    <3>1. cur[l] = 0 /\ Contract!Oldest(l, i)
      BY <2>2, PickIsOldest DEF StartRow, Draining
    <3>2. Contract!Claim(l, i)
      BY <2>2, <3>1 DEF StartRow, WriteStatus, Contract!Claim
    <3>3. QED
      BY <3>2 DEF Contract!Next
  <2>3. ASSUME NEW i \in Ids, RejectRow(l, i)
        PROVE  [Contract!Next]_Contract!lvars
    <3>1. cur[l] = 0 /\ Contract!Oldest(l, i)
      BY <2>3, PickIsOldest DEF RejectRow, Draining
    <3>2. CASE UNCHANGED status
      BY <2>3, <3>2 DEF RejectRow, Contract!lvars
    <3>3. CASE status' = WriteStatus(status, i, "failed")
      <4>1. Contract!Refuse(l, i)
        BY <2>3, <3>1, <3>3 DEF RejectRow, WriteStatus, Contract!Refuse
      <4>2. QED
        BY <4>1 DEF Contract!Next
    <3>4. QED
      BY <2>3, <3>2, <3>3 DEF RejectRow
  <2>4. ASSUME NEW s \in {"success", "failed"}, Finish(l, s) PROVE Contract!Next
    BY <2>4, LaneSettles DEF Finish, Terminal
  <2>5. QED
    BY <1>6, <2>1, <2>2, <2>3, <2>4 DEF WorkerStep
<1>7. ASSUME NEW l \in Lanes, LaneExits(l) \/ QueryFails(l) \/ ReportProgress(l)
      PROVE  UNCHANGED Contract!lvars
  BY <1>7 DEF LaneExits, QueryFails, ReportProgress, tableVars, laneVars,
              Contract!lvars
<1>8. ASSUME NEW l \in Lanes, NEW i \in Ids, StartFails(l, i)
      PROVE  UNCHANGED Contract!lvars
  BY <1>8 DEF StartFails, tableVars, Contract!lvars
<1>9. ASSUME NEW l \in Lanes, FinishFails(l) PROVE Contract!Next
  <2>1. cur' = [m \in Lanes |-> IF m \in {l} THEN 0 ELSE cur[m]]
    BY <1>9 DEF IndInv, TypeOK, FinishFails
  <2>2. QED
    BY <1>9, <2>1, ReleaseAbandons DEF FinishFails, tableVars
<1>10. ASSUME NEW l \in Lanes, LaneCancelled(l) PROVE Contract!Next
  <2>1. CASE status' = WriteStatus(status, cur[l], "interrupted")
    BY <1>10, <2>1, LaneSettles DEF LaneCancelled, Terminal
  <2>2. CASE UNCHANGED status
    <3>1. cur' = [m \in Lanes |-> IF m \in {l} THEN 0 ELSE cur[m]]
      BY <1>10 DEF IndInv, TypeOK, LaneCancelled
    <3>2. QED
      BY <1>10, <2>2, <3>1, ReleaseAbandons DEF LaneCancelled
  <2>3. QED
    BY <1>10, <2>1, <2>2 DEF LaneCancelled
<1>11. ASSUME NEW i \in Ids, ApplyProgress(i) PROVE UNCHANGED Contract!lvars
  BY <1>11 DEF ApplyProgress, WriteProgress, laneVars, Contract!lvars
<1>12. CASE UNCHANGED vars
  BY <1>12 DEF vars, tableVars, laneVars, Contract!lvars
<1>13. QED
  BY <1>1, <1>2, <1>3, <1>4, <1>5, <1>6, <1>7, <1>8, <1>9, <1>10, <1>11, <1>12
     DEF Next, FaultStep, ShutdownStep

\* The kernel keeps the promise of TaskLifecycle.
THEOREM Refinement == Spec => ImplementsLifecycle
<1>1. Init => Contract!Init
  BY DEF Init, Contract!Init, LaneOf
<1>2. IndInv /\ [Next]_vars => [Contract!Next]_Contract!lvars
  BY StepImplements
<1>3. QED
  BY <1>1, <1>2, Invariance, PTL DEF Spec, Contract!Spec, ImplementsLifecycle

----------------------------------------------------------------------------
(* What a step may never do *)

\* A settled row is never rewritten (update_task_sync, recover_stale): the
\* contract only ever changes rows that wait or run.
THEOREM SettledIsFinal == Spec => TerminalIsFinal
<1>1. ASSUME IndInv, [Next]_vars, NEW i \in Ids, status[i] \in Terminal
      PROVE  status'[i] = status[i]
  <2>1. CASE UNCHANGED Contract!lvars
    BY <2>1 DEF Contract!lvars
  <2>2. ASSUME NEW j \in Ids, NEW l \in Lanes \cup {"none"}, Contract!Submit(j, l)
        PROVE  status'[i] = status[i]
    BY <1>1, <2>2 DEF IndInv, TypeOK, Contract!Submit, Terminal
  <2>3. ASSUME NEW l \in Lanes, NEW j \in Ids,
               Contract!Claim(l, j) \/ Contract!Refuse(l, j)
        PROVE  status'[i] = status[i]
    BY <1>1, <2>3 DEF IndInv, TypeOK, Contract!Claim, Contract!Refuse,
                      Contract!Oldest, Terminal
  <2>4. ASSUME NEW l \in Lanes, NEW s \in Contract!Settled, Contract!Settle(l, s)
        PROVE  status'[i] = status[i]
    BY <1>1, <2>4 DEF IndInv, TypeOK, LanesSound, Contract!Settle, Terminal
  <2>5. ASSUME NEW L \in SUBSET Lanes, Contract!Abandon(L)
        PROVE  status'[i] = status[i]
    BY <2>5 DEF Contract!Abandon
  <2>6. ASSUME NEW S \in SUBSET Ids, Contract!Interrupt(S)
        PROVE  status'[i] = status[i]
    BY <1>1, <2>6 DEF Contract!Interrupt, Terminal
  <2>7. [Contract!Next]_Contract!lvars
    BY <1>1, StepImplements
  <2>8. QED
    BY <2>1, <2>2, <2>3, <2>4, <2>5, <2>6, <2>7 DEF Contract!Next
<1>2. IndInv /\ [Next]_vars
      => [\A i \in Ids : status[i] \in Terminal => status'[i] = status[i]]_vars
  BY <1>1
<1>3. QED
  BY <1>2, Invariance, PTL DEF Spec, TerminalIsFinal

\* Only an earlier life's waiting rows are written off (_live_pending).
THEOREM LiveRowsSpared == Spec => RecoverSparesLive
<1> DEFINE Spared == \A i \in Ids :
               status[i] = "pending" /\ status'[i] = "interrupted"
               => owner[i] < session
<1>1. ASSUME IndInv, Start PROVE Spared
  BY <1>1 DEF IndInv, TypeOK, OwnersSound, Start, Stale
<1>2. ASSUME IndInv, NEW k \in Enqueued \cup Foreign, Insert(k) PROVE Spared
  BY <1>2 DEF IndInv, TypeOK, Insert
<1>3. ASSUME IndInv, NEW l \in Lanes, LaneCancelled(l) PROVE Spared
  <2>1. cur[l] \in Ids /\ status[cur[l]] = "running"
    BY <1>3 DEF IndInv, TypeOK, LanesSound, LaneCancelled
  <2>2. QED
    BY <1>3, <2>1 DEF IndInv, TypeOK, LaneCancelled, WriteStatus
<1>4. ASSUME IndInv, NEW l \in Lanes, WorkerStep(l) PROVE Spared
  <2>1. ASSUME NEW i \in Ids, NEW s \in {"running", "success", "failed"},
               status' = WriteStatus(status, i, s)
        PROVE  Spared
    BY <1>4, <2>1 DEF IndInv, TypeOK, WriteStatus
  <2>2. ASSUME NEW s \in {"success", "failed"}, Finish(l, s) PROVE Spared
    BY <1>4, <2>1, <2>2 DEF IndInv, TypeOK, LanesSound, Finish
  <2>3. ASSUME NEW i \in Ids, RejectRow(l, i) \/ StartRow(l, i) PROVE Spared
    BY <2>1, <2>3 DEF RejectRow, StartRow
  <2>4. QED
    BY <1>4, <2>2, <2>3 DEF WorkerStep, WakeUp, Poll, LeaveWait, DrainEmpty,
                             Notified, tableVars
<1>5. ASSUME IndInv, [Next]_vars PROVE Spared
  BY <1>1, <1>2, <1>3, <1>4, <1>5 DEF Next, Enqueue, ForeignInsert, StopBegin,
     StopFinish, Crash, FaultStep, QueryFails, FinishFails, StartFails,
     ShutdownStep, LaneExits, ReportProgress, ApplyProgress, WriteProgress,
     vars, tableVars
<1>6. IndInv /\ [Next]_vars => [Spared]_vars
  BY <1>5
<1>7. QED
  BY <1>6, Invariance, PTL DEF Spec, RecoverSparesLive
=============================================================================
