----------------------------- MODULE TaskQueue -----------------------------
(***************************************************************************)
(* The background-task kernel of copixiv (tasks/kernel.py) over its queue, *)
(* the task_history table (tasks/history_repo.py).                         *)
(*                                                                         *)
(* Every entry point inserts a "pending" row and wakes the workers.  Two   *)
(* worker coroutines, the fetch lane and the general lane, drain disjoint  *)
(* parts of the same table, oldest row first.  The table survives a crash; *)
(* the set of live ids, the specs of ad-hoc runs, the wake event and the   *)
(* workers do not.                                                         *)
(*                                                                         *)
(* Grain of atomicity.  Everything here runs on one event loop, and the    *)
(* database calls are synchronous, so the code between two suspension      *)
(* points is one step.  A worker suspends while it waits for the wake      *)
(* event, while the task function runs and while the notifier sends.  The  *)
(* model also lets others act between two rows of one drain pass (pc =     *)
(* "drain"), which only adds behaviours.                                   *)
(***************************************************************************)
EXTENDS Integers

CONSTANTS MaxTasks,     \* bound: rows ever inserted
          MaxSessions,  \* bound: lives of the manager (stops and crashes + 1)
          MaxFaults     \* bound: database calls that fail

ASSUME BoundsAreNaturals ==
    MaxTasks \in Nat /\ MaxSessions \in Nat \ {0} /\ MaxFaults \in Nat

Ids   == 1..MaxTasks
Lanes == {"fetch", "general"}

\* What a row's task_func and arguments resolve to when a worker reads them:
\* a registered Pixiv-fetching task, any other registered task, an ad-hoc
\* function known only to this process, a name nobody registered, arguments
\* that are not a JSON object, and a NULL task_func of an old schema.
Enqueued == {"fetch", "general", "adhoc"}
Foreign  == {"unknown", "badargs", "null"}
Kinds    == Enqueued \cup Foreign \cup {"none"}

Terminal == {"success", "failed", "interrupted"}
Statuses == {"absent", "pending", "running"} \cup Terminal

VARIABLES
    status,      \* task_history.status; "absent" until the row is inserted
    kind,        \* what the row's columns resolve to
    rows,        \* rows inserted so far, the table's id sequence
    live,        \* TaskHistoryRecorder._live_pending
    adhoc,       \* keys of TaskManagerSystem._adhoc_specs
    mgr,         \* "down", "up" or "stopping": _started and _stopping
    wake,        \* the wake event is set
    pc,          \* where each lane's worker is
    cur,         \* the row an executing lane works on, else 0
    woken,       \* the worker's wait on the event has been resolved
    late,        \* progress writes handed to the loop and not yet applied
    session,     \* number of the manager's current life
    faults,      \* failed database calls so far
    owner,       \* history: the session that enqueued a row, 0 = none
    starts,      \* history: how often a row's task function was started
    unsignalled, \* history: pending rows no wake-up was sent for
    recovered    \* history: the current life's recover_stale succeeded

tableVars   == <<status, kind, rows>>
memoryVars  == <<live, adhoc>>
laneVars    == <<pc, cur>>
wakeVars    == <<wake, woken>>
lifeVars    == <<mgr, session>>
historyVars == <<owner, starts, unsignalled, recovered>>
vars == <<tableVars, memoryVars, laneVars, wakeVars, lifeVars, late, faults,
          historyVars>>

----------------------------------------------------------------------------
(* Reading and writing the table *)

\* The lane whose query selects a row.  The fetch lane asks for task_func IN
\* (...), the general lane for task_func NOT IN (...), and neither holds of
\* a NULL.
LaneOf(k) == CASE k = "fetch" -> "fetch"
               [] k \in {"general", "adhoc", "unknown", "badargs"} -> "general"
               [] OTHER -> "none"

PendingOf(l) == {i \in Ids : status[i] = "pending" /\ LaneOf(kind[i]) = l}
\* Slip: ORDER BY id DESC.
NewestPending(l, i) == i \in PendingOf(l) /\ \A j \in PendingOf(l) : j <= i
NextPending(l, i) == i \in PendingOf(l) /\ \A j \in PendingOf(l) : i <= j

\* update_task_sync: a status write, and a progress-only write (status=None)
\* that leaves the status alone.
\* Slip: a progress write sends "running" along, as it once did.
ProgressRewrites(st, i) == [st EXCEPT ![i] = "running"]
WriteProgress(st, i) == st
WriteStatus(st, i, s) == [st EXCEPT ![i] = s]

Fault == faults < MaxFaults /\ faults' = faults + 1
NoFault == UNCHANGED faults

----------------------------------------------------------------------------
Init == /\ status = [i \in Ids |-> "absent"]
        /\ kind   = [i \in Ids |-> "none"]
        /\ rows   = 0
        /\ live   = {}
        /\ adhoc  = {}
        /\ mgr    = "down"
        /\ wake   = FALSE
        /\ pc     = [l \in Lanes |-> "off"]
        /\ cur    = [l \in Lanes |-> 0]
        /\ woken  = [l \in Lanes |-> FALSE]
        /\ late   = {}
        /\ session = 1
        /\ faults = 0
        /\ owner  = [i \in Ids |-> 0]
        /\ starts = [i \in Ids |-> 0]
        /\ unsignalled = {}
        /\ recovered = TRUE

----------------------------------------------------------------------------
(* Enqueueing *)

\* INSERT of the next row.
Insert(k) == /\ rows < MaxTasks
             /\ rows'   = rows + 1
             /\ status' = [status EXCEPT ![rows + 1] = "pending"]
             /\ kind'   = [kind EXCEPT ![rows + 1] = k]

\* Slip: the wake-up is handed to one waiting worker, not to both.
SetWakeOne == /\ wake'  = TRUE
              /\ woken' = IF pc["fetch"] = "waiting"
                          THEN [woken EXCEPT !["fetch"] = TRUE]
                          ELSE [woken EXCEPT !["general"] = @ \/ pc["general"] = "waiting"]
\* _wake_worker: Event.set resolves the wait of every worker that waits now.
SetWake == /\ wake'  = TRUE
           /\ woken' = [l \in Lanes |-> woken[l] \/ pc[l] = "waiting"]

\* run_task and run_scheduled, at any time: before start() and after stop()
\* too.
Enqueue(k) ==
    /\ Insert(k)
    /\ live'  = live \cup {rows + 1}
    /\ adhoc' = IF k = "adhoc" THEN adhoc \cup {rows + 1} ELSE adhoc
    /\ SetWake
    /\ owner' = [owner EXCEPT ![rows + 1] = session]
    /\ UNCHANGED <<laneVars, lifeVars, late, faults, starts, unsignalled,
                   recovered>>

\* A row inserted by a path that does not wake the workers (the case the
\* worker's 1s poll exists for), with columns this process never writes.
ForeignInsert(k) ==
    /\ Insert(k)
    /\ unsignalled' = unsignalled \cup {rows + 1}
    /\ UNCHANGED <<memoryVars, laneVars, wakeVars, lifeVars, late, faults,
                   owner, starts, recovered>>

----------------------------------------------------------------------------
(* The manager's life *)

\* Slip: forgets that a row enqueued before start() is this process's own.
StaleByStatus(i) == status[i] \in {"pending", "running"}
\* Slip: only rows that were running count as crash leftovers.
StaleRunning(i) == status[i] = "running"
Stale(i) == status[i] \in {"pending", "running"} /\ i \notin live

\* start(): recover_stale, a new wake event, two workers that begin by
\* waiting.  recover_stale swallows a database error, and then nothing is
\* recovered.
Start ==
    /\ mgr = "down"
    /\ mgr' = "up"
    /\ live' = {i \in live : status[i] = "pending"}
    /\ \/ /\ status' = [i \in Ids |-> IF Stale(i) THEN "interrupted"
                                                  ELSE status[i]]
          /\ recovered' = TRUE
          /\ NoFault
       \/ /\ UNCHANGED status
          /\ recovered' = FALSE
          /\ Fault
    /\ pc' = [l \in Lanes |-> "waiting"]
    /\ wake' = FALSE
    /\ woken' = [l \in Lanes |-> FALSE]
    /\ unsignalled' = {i \in Ids : status'[i] = "pending"}
    /\ UNCHANGED <<kind, rows, adhoc, cur, late, session, owner, starts>>

\* stop() sets _stopping, then awaits the cron ticker: the workers may still
\* take steps before they are cancelled.
StopBegin ==
    /\ mgr = "up" /\ session < MaxSessions
    /\ mgr' = "stopping"
    /\ UNCHANGED <<tableVars, memoryVars, laneVars, wakeVars, late, session,
                   faults, historyVars>>

\* A worker that is not inside a task leaves its loop, or is cancelled where
\* it waits.
LaneExits(l) ==
    /\ mgr = "stopping"
    /\ pc[l] \in {"waiting", "drain", "notifying"}
    /\ pc' = [pc EXCEPT ![l] = "off"]
    /\ UNCHANGED <<tableVars, memoryVars, cur, wakeVars, lifeVars, late,
                   faults, historyVars>>

\* Cancellation inside the task function: _run_inner records "interrupted"
\* best-effort and re-raises.
LaneCancelled(l) ==
    /\ mgr = "stopping" /\ pc[l] = "executing"
    /\ \/ status' = WriteStatus(status, cur[l], "interrupted") /\ NoFault
       \/ UNCHANGED status /\ Fault
    /\ pc'  = [pc EXCEPT ![l] = "off"]
    /\ cur' = [cur EXCEPT ![l] = 0]
    /\ UNCHANGED <<kind, rows, memoryVars, wakeVars, lifeVars, late,
                   historyVars>>

StopFinish ==
    /\ mgr = "stopping"
    /\ \A l \in Lanes : pc[l] = "off"
    /\ mgr' = "down"
    /\ adhoc' = {}
    /\ live'  = {}
    /\ session' = session + 1
    /\ UNCHANGED <<tableVars, laneVars, wakeVars, late, faults, historyVars>>

\* The process dies: what it held in memory is gone, the table stays.
Crash ==
    /\ session < MaxSessions
    /\ session' = session + 1
    /\ mgr' = "down"
    /\ live'  = {}
    /\ adhoc' = {}
    /\ late'  = {}
    /\ wake'  = FALSE
    /\ woken' = [l \in Lanes |-> FALSE]
    /\ pc'    = [l \in Lanes |-> "off"]
    /\ cur'   = [l \in Lanes |-> 0]
    /\ UNCHANGED <<tableVars, faults, historyVars>>

----------------------------------------------------------------------------
(* One worker: _worker_loop, _run_pending, run_and_record *)

WaitAgain(l) == /\ pc' = [pc EXCEPT ![l] = "waiting"]
                /\ woken' = [woken EXCEPT ![l] = wake]
                /\ UNCHANGED wake

\* An exception ends the drain pass; the worker logs it and waits for the
\* next wake-up or poll.
PassFails(l) == /\ WaitAgain(l)
                /\ unsignalled' = unsignalled \cup PendingOf(l)
                /\ Fault

\* Both the event and the 1s timeout lead to clear() and a drain pass.
LeaveWait(l) ==
    /\ mgr = "up" /\ pc[l] = "waiting"
    /\ pc' = [pc EXCEPT ![l] = "drain"]
    /\ wake' = FALSE
    /\ woken' = [woken EXCEPT ![l] = FALSE]
    /\ UNCHANGED <<tableVars, memoryVars, cur, lifeVars, late, faults,
                   historyVars>>
WakeUp(l) == woken[l] /\ LeaveWait(l)
\* Slip: a worker without the 1s fallback.
PollNever(l) == FALSE
Poll(l) == ~woken[l] /\ LeaveWait(l)

Draining(l) == mgr = "up" /\ pc[l] = "drain"

DrainEmpty(l) ==
    /\ Draining(l) /\ PendingOf(l) = {}
    /\ WaitAgain(l)
    /\ UNCHANGED <<tableVars, memoryVars, cur, lifeVars, late, faults,
                   historyVars>>

\* _next_pending raises.
QueryFails(l) ==
    /\ Draining(l)
    /\ PassFails(l)
    /\ UNCHANGED <<tableVars, memoryVars, cur, lifeVars, late, owner, starts,
                   recovered>>

\* _run_pending pops the ad-hoc spec first, so an ad-hoc row has it once.
Resolvable(i) == kind[i] \in {"fetch", "general"} \/ i \in adhoc

\* Unknown function or unusable arguments: the row is failed, not run.
RejectRow(l, i) ==
    /\ Draining(l) /\ NextPending(l, i) /\ ~Resolvable(i)
    /\ adhoc' = adhoc \ {i}
    /\ \/ /\ status' = WriteStatus(status, i, "failed")
          /\ live' = live \ {i}
          /\ NoFault
          /\ UNCHANGED <<pc, wakeVars, unsignalled>>
       \/ /\ PassFails(l)
          /\ UNCHANGED <<status, live>>
    /\ UNCHANGED <<kind, rows, cur, lifeVars, late, owner, starts, recovered>>

\* Slip: a worker that runs the task first and records "running" later.
StartUnrecorded(l, i) ==
    /\ Draining(l) /\ NextPending(l, i) /\ Resolvable(i)
    /\ adhoc' = adhoc \ {i}
    /\ pc' = [pc EXCEPT ![l] = "executing"]
    /\ cur' = [cur EXCEPT ![l] = i]
    /\ starts' = [starts EXCEPT ![i] = @ + 1]
    /\ UNCHANGED <<tableVars, live, wakeVars, lifeVars, late, faults, owner,
                   unsignalled, recovered>>

\* The row is recorded "running" and its task function starts.
StartRow(l, i) ==
    /\ Draining(l) /\ NextPending(l, i) /\ Resolvable(i)
    /\ adhoc' = adhoc \ {i}
    /\ status' = WriteStatus(status, i, "running")
    /\ live' = live \ {i}
    /\ pc' = [pc EXCEPT ![l] = "executing"]
    /\ cur' = [cur EXCEPT ![l] = i]
    /\ starts' = [starts EXCEPT ![i] = @ + 1]
    /\ UNCHANGED <<kind, rows, wakeVars, lifeVars, late, faults, owner,
                   unsignalled, recovered>>

\* The write of "running" raises: the row stays pending, but an ad-hoc spec
\* has already been popped.
StartFails(l, i) ==
    /\ Draining(l) /\ NextPending(l, i) /\ Resolvable(i)
    /\ adhoc' = adhoc \ {i}
    /\ PassFails(l)
    /\ UNCHANGED <<tableVars, live, cur, lifeVars, late, owner, starts,
                   recovered>>

\* The task function returns, raises or hits the 30-minute timeout, and the
\* outcome is recorded.
Finish(l, s) ==
    /\ pc[l] = "executing"
    /\ status' = WriteStatus(status, cur[l], s)
    /\ pc'  = [pc EXCEPT ![l] = "notifying"]
    /\ cur' = [cur EXCEPT ![l] = 0]
    /\ UNCHANGED <<kind, rows, memoryVars, wakeVars, lifeVars, late, faults,
                   historyVars>>

\* Slip: the row goes back to the queue when its outcome cannot be written.
FinishRequeues(l) ==
    /\ pc[l] = "executing"
    /\ status' = WriteStatus(status, cur[l], "pending")
    /\ cur' = [cur EXCEPT ![l] = 0]
    /\ PassFails(l)
    /\ UNCHANGED <<kind, rows, memoryVars, lifeVars, late, owner, starts,
                   recovered>>

\* The write of the outcome raises: the row keeps its "running".
FinishFails(l) ==
    /\ pc[l] = "executing"
    /\ cur' = [cur EXCEPT ![l] = 0]
    /\ PassFails(l)
    /\ UNCHANGED <<tableVars, memoryVars, lifeVars, late, owner, starts,
                   recovered>>

\* The notifier has sent, and the lane looks for its next row.
Notified(l) ==
    /\ pc[l] = "notifying"
    /\ pc' = [pc EXCEPT ![l] = "drain"]
    /\ UNCHANGED <<tableVars, memoryVars, cur, wakeVars, lifeVars, late,
                   faults, historyVars>>

\* A batch task hands a progress write to the loop (tasks/batch.py) ...
ReportProgress(l) ==
    /\ pc[l] = "executing"
    /\ late' = late \cup {cur[l]}
    /\ UNCHANGED <<tableVars, memoryVars, laneVars, wakeVars, lifeVars,
                   faults, historyVars>>

\* ... which may apply it after the row was settled.
ApplyProgress(i) ==
    /\ i \in late
    /\ late' = late \ {i}
    /\ status' = WriteProgress(status, i)
    /\ UNCHANGED <<kind, rows, memoryVars, laneVars, wakeVars, lifeVars,
                   faults, historyVars>>

----------------------------------------------------------------------------
\* What the worker of one lane does by itself, given time.
WorkerStep(l) == \/ WakeUp(l) \/ Poll(l) \/ DrainEmpty(l)
                 \/ \E i \in Ids : RejectRow(l, i) \/ StartRow(l, i)
                 \/ \E s \in {"success", "failed"} : Finish(l, s)
                 \/ Notified(l)

FaultStep(l) == \/ QueryFails(l) \/ FinishFails(l)
                \/ \E i \in Ids : StartFails(l, i)

ShutdownStep(l) == LaneExits(l) \/ LaneCancelled(l)

Next == \/ \E k \in Enqueued : Enqueue(k)
        \/ \E k \in Foreign : ForeignInsert(k)
        \/ Start \/ StopBegin \/ StopFinish \/ Crash
        \/ \E l \in Lanes : \/ WorkerStep(l) \/ FaultStep(l)
                            \/ ShutdownStep(l) \/ ReportProgress(l)
        \/ \E i \in Ids : ApplyProgress(i)

Spec == Init /\ [][Next]_vars

\* The event loop keeps running ready coroutines, the poll fires, a task
\* function ends (its timeout sees to that), systemd restarts the process
\* and stop() is not abandoned half way.  Nobody has to enqueue, stop or
\* crash anything, and no database call has to fail.
Fairness == /\ \A l \in Lanes : WF_vars(WorkerStep(l)) /\ WF_vars(ShutdownStep(l))
            /\ WF_vars(Start) /\ WF_vars(StopFinish)

FairSpec == Spec /\ Fairness

----------------------------------------------------------------------------
(* Properties *)

\* The variables stay in their types.
TypeOK ==
    /\ status \in [Ids -> Statuses]
    /\ kind \in [Ids -> Kinds]
    /\ rows \in 0..MaxTasks
    /\ live \subseteq Ids
    /\ adhoc \subseteq Ids
    /\ mgr \in {"down", "up", "stopping"}
    /\ wake \in BOOLEAN
    /\ pc \in [Lanes -> {"off", "waiting", "drain", "executing", "notifying"}]
    /\ cur \in [Lanes -> Ids \cup {0}]
    /\ woken \in [Lanes -> BOOLEAN]
    /\ late \subseteq Ids
    /\ session \in Nat
    /\ faults \in 0..MaxFaults
    /\ owner \in [Ids -> Nat]
    /\ starts \in [Ids -> Nat]
    /\ unsignalled \subseteq Ids
    /\ recovered \in BOOLEAN

\* A task function is started at most once per row, over crashes, restarts,
\* failed writes and retried passes: a fetch is never silently repeated.
RunAtMostOnce == \A i \in Ids : starts[i] <= 1

\* Rows of one lane start in enqueue order: while a row waits, no younger row
\* of its lane has been started (kernel.py, "oldest first").
FifoPerLane ==
    \A i, j \in Ids :
        /\ i < j /\ status[i] = "pending"
        /\ LaneOf(kind[i]) = LaneOf(kind[j]) /\ LaneOf(kind[i]) # "none"
        => starts[j] = 0

\* What a lane works on is what the UI shows as running, and the two lanes
\* never work on the same row.
ExecutingRowIsRunning ==
    \A l \in Lanes : pc[l] = "executing" =>
        /\ cur[l] \in Ids /\ status[cur[l]] = "running"
        /\ \A m \in Lanes : cur[m] = cur[l] => m = l

\* The task a lane runs was enqueued in this life of the manager, unless this
\* life's recover_stale failed: crash leftovers are never resumed.
NeverResumed ==
    recovered => \A l \in Lanes :
        pc[l] = "executing" => owner[cur[l]] \in {0, session}

\* A worker that sleeps without a resolved wait has missed nothing: every row
\* of its lane that waits is one nobody signalled (inserted by another path
\* or before start(), or left by a failed pass), which the poll is there for.
NoLostWakeup ==
    \A l \in Lanes : mgr = "up" /\ pc[l] = "waiting" /\ ~woken[l]
                     => PendingOf(l) \subseteq unsignalled

\* A settled row is never rewritten, whatever arrives late: no retry, no
\* recovery and no progress write resurrects it.
TerminalIsFinal ==
    [][\A i \in Ids : status[i] \in Terminal => status'[i] = status[i]]_vars

\* Recovery interrupts a waiting row only if an earlier life enqueued it: a
\* row enqueued before start() is this process's live queue.
RecoverSparesLive ==
    [][\A i \in Ids : status[i] = "pending" /\ status'[i] = "interrupted"
                      => owner[i] < session]_vars

\* A row whose outcome could not be written: it says running and no lane
\* works on it.
Orphaned(i) == status[i] = "running" /\ \A l \in Lanes : cur[l] # i

\* Every row a lane's query can see is eventually settled, or loses its
\* outcome to a failed write.
EveryRowSettles ==
    \A i \in Ids : (status[i] = "pending" /\ LaneOf(kind[i]) # "none")
                   ~> (status[i] \in Terminal \/ Orphaned(i))

\* _worker_loop: the general lane takes "everything else, including ad-hoc runs
\* and legacy NULL rows". Refuted: NOT IN is not true of NULL, and such a row
\* waits until a later process interrupts it.
LegacyRowsAreServed ==
    \A i \in Ids : (status[i] = "pending" /\ LaneOf(kind[i]) = "none")
                   ~> (status[i] \in Terminal \/ Orphaned(i))

\* _worker_loop on an exception: "the row, if any, stays pending for that
\* retry" - while the manager is up, a row that no lane works on is not left
\* as running.
FailedPassLeavesPending ==
    mgr = "up" /\ recovered => \A i \in Ids : ~Orphaned(i)

----------------------------------------------------------------------------
(* Refinement *)

Contract == INSTANCE TaskLifecycle WITH
    phase <- status,
    lane  <- [i \in Ids |-> LaneOf(kind[i])],
    claim <- cur

\* The queue implements the contract of TaskLifecycle.
ImplementsLifecycle == Contract!Spec
=============================================================================
