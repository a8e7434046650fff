------------------------ MODULE EventScriptScheduler ------------------------
(***************************************************************************)
(* scripting/event/worker/EventScriptScheduler.java: the delayed script    *)
(* calls of one event (EventManager.schedule) or of one running instance   *)
(* of it (EventInstanceManager.schedule).                                  *)
(*                                                                         *)
(* The same table and monitor as BaseScheduler with two differences: each  *)
(* Runnable is its own key and is registered by one call; and              *)
(* registerEntry, cancelEntry and dispose do nothing themselves: each      *)
(* hands its locked section to the ThreadManager pool, whose threads may   *)
(* take two tasks of one caller in either order.                           *)
(***************************************************************************)
EXTENDS Naturals, FiniteSets

CONSTANTS
    Actions,      \* the Runnables
    MaxTask,      \* bound: monitor tasks ever started
    MonitorLife,  \* MOB_STATUS_MONITOR_LIFE, 84 in ServerConstants
    MayThrow,     \* the Runnables that may end in an exception
    MayDispose    \* is the event ever disposed?

ASSUME BoundsAssumption ==
    /\ MaxTask \in Nat /\ MonitorLife \in Nat \ {0}
    /\ MayThrow \subseteq Actions
    /\ MayDispose \in BOOLEAN

VARIABLES
    disposed,
    idleProcs,
    registeredEntries,  \* the set of Runnables in the table
    schedulerTask,      \* the live monitor, NoTask for null
    pool,               \* tasks handed to ThreadManager and not yet taken
    submitted,          \* history: every task ever handed to it
    due,                \* actions whose delay has elapsed
    tasks,              \* monitors started so far
    mon,                \* where each monitor's current run is
    runs,               \* history: calls of each action that no exception undid
    called,             \* history: actions that were ever called
    dropped             \* history: actions a cancellation took out of the table

table == <<disposed, idleProcs, registeredEntries, schedulerTask>>
vars  == <<disposed, idleProcs, registeredEntries, schedulerTask, pool, submitted,
           due, tasks, mon, runs, called, dropped>>
past  == <<runs, called, dropped>>

NoTask  == 0
Tasks   == 1..MaxTask
IdleRun == [pc |-> "idle", copy |-> {}, toRemove |-> {}]

PoolTasks == [op : {"register", "cancel"}, args : {{a} : a \in Actions}]
                \union [op : {"dispose"}, args : {{}}]
Task(op, args) == [op |-> op, args |-> args]

Init ==
    /\ disposed = FALSE
    /\ idleProcs = 0
    /\ registeredEntries = {}
    /\ schedulerTask = NoTask
    /\ pool = {}
    /\ submitted = {}
    /\ due = {}
    /\ tasks = 0
    /\ mon = [t \in Tasks |-> IdleRun]
    /\ runs = [a \in Actions |-> 0]
    /\ called = {}
    /\ dropped = {}

-----------------------------------------------------------------------------
(* The callers: each call only submits a task.                             *)

Submit(task) ==
    /\ task \notin submitted
    /\ submitted' = submitted \union {task}
    /\ pool' = pool \union {task}
    /\ UNCHANGED <<table, due, tasks, mon, past>>

CallRegister(a) == Submit(Task("register", {a}))

\* EventScheduledFuture.cancel: the future exists once schedule() has returned.
CallCancel(a) == Task("register", {a}) \in submitted /\ Submit(Task("cancel", {a}))

CallDispose == MayDispose /\ Submit(Task("dispose", {}))

-----------------------------------------------------------------------------
(* The pool threads: each task is one section under schedulerLock.         *)

\* Seeded defect: a disposed scheduler starts no task but keeps the entry.
PoolRegister_Orphan(a) ==
    /\ Task("register", {a}) \in pool
    /\ pool' = pool \ {Task("register", {a})}
    /\ idleProcs' = 0
    /\ registeredEntries' = registeredEntries \union {a}
    /\ IF schedulerTask = NoTask /\ ~disposed
         THEN tasks < MaxTask /\ tasks' = tasks + 1 /\ schedulerTask' = tasks + 1
         ELSE UNCHANGED <<schedulerTask, tasks>>
    /\ UNCHANGED <<disposed, submitted, due, mon, past>>

\* Seeded defect: the disposed flag is ignored.
PoolRegister_Disposed(a) ==
    /\ Task("register", {a}) \in pool
    /\ pool' = pool \ {Task("register", {a})}
    /\ idleProcs' = 0
    /\ registeredEntries' = registeredEntries \union {a}
    /\ IF schedulerTask = NoTask
         THEN tasks < MaxTask /\ tasks' = tasks + 1 /\ schedulerTask' = tasks + 1
         ELSE UNCHANGED <<schedulerTask, tasks>>
    /\ UNCHANGED <<disposed, submitted, due, mon, past>>

\* Seeded defect: a monitor that has stopped is not started again.
PoolRegister_NoRevival(a) ==
    /\ Task("register", {a}) \in pool
    /\ pool' = pool \ {Task("register", {a})}
    /\ idleProcs' = 0
    /\ registeredEntries' = registeredEntries \union {a}
    /\ IF tasks = 0 /\ MaxTask > 0
         THEN tasks' = 1 /\ schedulerTask' = 1
         ELSE UNCHANGED <<schedulerTask, tasks>>
    /\ UNCHANGED <<disposed, submitted, due, mon, past>>

\* The disposed flag is looked at only when there is no live task.
PoolRegister(a) ==
    /\ Task("register", {a}) \in pool
    /\ pool' = pool \ {Task("register", {a})}
    /\ idleProcs' = 0
    /\ IF schedulerTask = NoTask /\ disposed
         THEN UNCHANGED <<schedulerTask, tasks, registeredEntries>>
         ELSE /\ registeredEntries' = registeredEntries \union {a}
              /\ IF schedulerTask = NoTask
                   THEN tasks < MaxTask /\ tasks' = tasks + 1 /\ schedulerTask' = tasks + 1
                   ELSE UNCHANGED <<schedulerTask, tasks>>
    /\ UNCHANGED <<disposed, submitted, due, mon, past>>

PoolCancel(a) ==
    /\ Task("cancel", {a}) \in pool
    /\ pool' = pool \ {Task("cancel", {a})}
    /\ registeredEntries' = registeredEntries \ {a}
    /\ dropped' = dropped \union ({a} \intersect registeredEntries)
    /\ UNCHANGED <<disposed, idleProcs, schedulerTask, submitted, due, tasks, mon, runs, called>>

\* Seeded defect: dispose leaves the table as it is.
PoolDispose_KeepsEntries ==
    /\ Task("dispose", {}) \in pool
    /\ pool' = pool \ {Task("dispose", {})}
    /\ schedulerTask' = NoTask
    /\ disposed' = TRUE
    /\ UNCHANGED <<idleProcs, registeredEntries, submitted, due, tasks, mon, past>>

PoolDispose ==
    /\ Task("dispose", {}) \in pool
    /\ pool' = pool \ {Task("dispose", {})}
    /\ schedulerTask' = NoTask
    /\ registeredEntries' = {}
    /\ disposed' = TRUE
    /\ UNCHANGED <<idleProcs, submitted, due, tasks, mon, past>>

Pool == (\E a \in Actions : PoolRegister(a) \/ PoolCancel(a)) \/ PoolDispose

-----------------------------------------------------------------------------
(* The monitor: runBaseSchedule.  An action is a script call that catches  *)
(* ScriptException and NoSuchMethodException (EventInstanceManager         *)
(* .schedule, EventManager.schedule), or the code of a disposal, which     *)
(* catches nothing: what else it throws ends the run of the monitor.       *)

MonitorBegin(t) ==
    /\ schedulerTask = t
    /\ mon[t].pc = "idle"
    /\ mon' = [mon EXCEPT ![t].pc = "lock"]
    /\ UNCHANGED <<table, pool, submitted, due, tasks, past>>

\* Seeded defect: the countdown is compared with > instead of >=.
MonitorIdle_Late(t) ==
    /\ mon[t].pc = "lock"
    /\ registeredEntries = {}
    /\ idleProcs' = IF idleProcs <= MonitorLife THEN idleProcs + 1 ELSE idleProcs
    /\ schedulerTask' = IF idleProcs' > MonitorLife THEN NoTask ELSE schedulerTask
    /\ mon' = [mon EXCEPT ![t] = IdleRun]
    /\ UNCHANGED <<disposed, registeredEntries, pool, submitted, due, tasks, past>>

MonitorIdle(t) ==
    /\ mon[t].pc = "lock"
    /\ registeredEntries = {}
    /\ idleProcs' = IF idleProcs < MonitorLife THEN idleProcs + 1 ELSE idleProcs
    /\ schedulerTask' = IF idleProcs' >= MonitorLife THEN NoTask ELSE schedulerTask
    /\ mon' = [mon EXCEPT ![t] = IdleRun]
    /\ UNCHANGED <<disposed, registeredEntries, pool, submitted, due, tasks, past>>

MonitorSnapshot(t) ==
    /\ mon[t].pc = "lock"
    /\ registeredEntries # {}
    /\ idleProcs' = 0
    /\ mon' = [mon EXCEPT ![t] = [pc |-> "clock", copy |-> registeredEntries, toRemove |-> {}]]
    /\ UNCHANGED <<disposed, registeredEntries, schedulerTask, pool, submitted, due, tasks, past>>

MonitorClock(t) ==
    /\ mon[t].pc = "clock"
    /\ mon' = [mon EXCEPT ![t].pc = "run", ![t].copy = @ \intersect due]
    /\ UNCHANGED <<table, pool, submitted, due, tasks, past>>

\* Runs are counted up to 2: more than once is all that matters.
MonitorRun(t) ==
    /\ mon[t].pc = "run"
    /\ \E a \in mon[t].copy :
          /\ runs' = [runs EXCEPT ![a] = IF @ < 2 THEN @ + 1 ELSE @]
          /\ called' = called \union {a}
          /\ mon' = [mon EXCEPT ![t].copy = @ \ {a}, ![t].toRemove = @ \union {a}]
    /\ UNCHANGED <<table, pool, submitted, due, tasks, dropped>>

\* One call of each of these is taken back: it will have to be made again.
TakeBack(again) == [a \in Actions |-> IF a \in again /\ runs[a] > 0 THEN runs[a] - 1 ELSE runs[a]]

\* The action throws: the exception ends the run (TimerManager's
\* LoggingSaveRunnable swallows it) before anything is removed, so what this
\* run has called is still in the table, with what it has yet to call.
MonitorRunThrows(t) ==
    /\ mon[t].pc = "run"
    /\ \E a \in mon[t].copy \intersect MayThrow : called' = called \union {a}
    /\ runs' = TakeBack(mon[t].toRemove)
    /\ mon' = [mon EXCEPT ![t] = IdleRun]
    /\ UNCHANGED <<table, pool, submitted, due, tasks, dropped>>

\* Seeded defect: what was run stays in the table.
MonitorRemove_Nothing(t) ==
    /\ mon[t].pc = "run"
    /\ mon[t].copy = {}
    /\ mon' = [mon EXCEPT ![t] = IdleRun]
    /\ UNCHANGED <<table, pool, submitted, due, tasks, past>>

MonitorRemove(t) ==
    /\ mon[t].pc = "run"
    /\ mon[t].copy = {}
    /\ registeredEntries' = registeredEntries \ mon[t].toRemove
    /\ mon' = [mon EXCEPT ![t] = IdleRun]
    /\ UNCHANGED <<disposed, idleProcs, schedulerTask, pool, submitted, due, tasks, past>>

Monitor(t) ==
    \/ MonitorBegin(t) \/ MonitorIdle(t) \/ MonitorSnapshot(t)
    \/ MonitorClock(t) \/ MonitorRun(t) \/ MonitorRunThrows(t) \/ MonitorRemove(t)

\* The delay of an action elapses once it is in the table.
Elapse(a) ==
    /\ Task("register", {a}) \in submitted \ pool
    /\ a \notin due
    /\ due' = due \union {a}
    /\ UNCHANGED <<table, pool, submitted, tasks, mon, past>>

Next ==
    \/ \E a \in Actions : CallRegister(a) \/ CallCancel(a) \/ Elapse(a)
    \/ CallDispose
    \/ Pool
    \/ \E t \in Tasks : Monitor(t)

\* The pool takes every task in the end, the timer gives the monitor its turn
\* and time passes; nobody is obliged to schedule, to cancel or to dispose.
Fairness ==
    /\ \A a \in Actions : WF_vars(PoolRegister(a)) /\ WF_vars(PoolCancel(a)) /\ WF_vars(Elapse(a))
    /\ WF_vars(PoolDispose)
    /\ \A t \in Tasks : WF_vars(Monitor(t))

Spec == Init /\ [][Next]_vars
FairSpec == Spec /\ Fairness

-----------------------------------------------------------------------------
MonitorRecord == [pc : {"idle", "lock", "clock", "run"},
                  copy : SUBSET Actions, toRemove : SUBSET Actions]

\* The type invariant.
TypeOK ==
    /\ disposed \in BOOLEAN
    /\ idleProcs \in 0..MonitorLife
    /\ registeredEntries \subseteq Actions
    /\ schedulerTask \in {NoTask} \union Tasks
    /\ pool \subseteq submitted /\ submitted \subseteq PoolTasks
    /\ due \subseteq Actions
    /\ tasks \in 0..MaxTask
    /\ mon \in [Tasks -> MonitorRecord]
    /\ runs \in [Actions -> 0..2]
    /\ called \subseteq Actions /\ dropped \subseteq Actions

\* A scheduled script call always has a live monitor to make it.
EntriesHaveMonitor == registeredEntries # {} => schedulerTask # NoTask

\* A disposed event stays quiet: whatever is still in the pool, and in whatever
\* order the pool takes it, no call is scheduled and no task started again.
DisposedIsQuiet == disposed => registeredEntries = {} /\ schedulerTask = NoTask

\* A script call that was made is made again only after an exception ended the
\* run of the monitor that made it, although it stays in the table while it
\* runs, and cancel and dispose may intervene.
AgainOnlyAfterException == \A a \in Actions : runs[a] <= 1

\* Unless the calls of the event throw for ever, which keeps those behind them
\* from being made, every scheduled call is made that no cancellation took out
\* of the table in time, until the event is disposed.
EventuallyRun ==
    \/ []<><<\E t \in Tasks : MonitorRunThrows(t)>>_vars
    \/ \A a \in Actions : Task("register", {a}) \in submitted
           ~> a \in called \/ a \in dropped \/ disposed
=============================================================================
