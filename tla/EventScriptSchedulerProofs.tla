---------------------- MODULE EventScriptSchedulerProofs ----------------------
(***************************************************************************)
(* Proofs about EventScriptScheduler, for any number of script calls and   *)
(* any order in which the pool takes what it was given.                    *)
(***************************************************************************)
EXTENDS EventScriptScheduler, TLAPS

\* The scheduler starts in a state of the right type.
LEMMA TypeInit == Init => TypeOK
<1> SUFFICES ASSUME Init PROVE TypeOK
  OBVIOUS
<1>1. idleProcs \in 0..MonitorLife /\ tasks \in 0..MaxTask
  BY BoundsAssumption DEF Init
<1>2. mon \in [Tasks -> MonitorRecord] /\ runs \in [Actions -> 0..2]
  BY DEF Init, IdleRun, MonitorRecord
<1> QED
  BY <1>1, <1>2 DEF Init, TypeOK, NoTask

\* What a run of the monitor keeps of its place is of the right type.
LEMMA MonitorPlaces ==
  ASSUME NEW m \in MonitorRecord, NEW copy \in SUBSET Actions, NEW done \in SUBSET Actions
  PROVE  /\ [m EXCEPT !.pc = "run", !.copy = copy] \in MonitorRecord
         /\ [m EXCEPT !.copy = copy, !.toRemove = done] \in MonitorRecord
BY DEF MonitorRecord

\* Every step of a caller, the pool, the monitor or the clock keeps the types.
LEMMA TypeStep == TypeOK /\ [Next]_vars => TypeOK'
<1> SUFFICES ASSUME TypeOK, [Next]_vars PROVE TypeOK'
  OBVIOUS
<1> USE BoundsAssumption DEF TypeOK, NoTask, Tasks, MonitorRecord, IdleRun, table, past
<1>1. ASSUME NEW task \in PoolTasks, Submit(task) PROVE TypeOK'
  BY <1>1 DEF Submit
<1>2. ASSUME NEW a \in Actions PROVE Task("register", {a}) \in PoolTasks /\ Task("cancel", {a}) \in PoolTasks
  BY DEF Task, PoolTasks
<1>3. Task("dispose", {}) \in PoolTasks
  BY DEF Task, PoolTasks
<1>4. ASSUME NEW a \in Actions, CallRegister(a) \/ CallCancel(a) PROVE TypeOK'
  BY <1>1, <1>2, <1>4 DEF CallRegister, CallCancel
<1>5. ASSUME CallDispose PROVE TypeOK'
  BY <1>1, <1>3, <1>5 DEF CallDispose
<1>6. ASSUME NEW a \in Actions, PoolRegister(a) PROVE TypeOK'
  BY <1>6 DEF PoolRegister
<1>7. ASSUME NEW a \in Actions, PoolCancel(a) PROVE TypeOK'
  BY <1>7 DEF PoolCancel
<1>8. ASSUME PoolDispose PROVE TypeOK'
  BY <1>8 DEF PoolDispose
<1>9. ASSUME NEW t \in Tasks, MonitorBegin(t) PROVE TypeOK'
  BY <1>9 DEF MonitorBegin
<1>10. ASSUME NEW t \in Tasks, MonitorIdle(t) PROVE TypeOK'
  BY <1>10 DEF MonitorIdle
<1>11. ASSUME NEW t \in Tasks, MonitorSnapshot(t) PROVE TypeOK'
  BY <1>11 DEF MonitorSnapshot
<1>12. ASSUME NEW t \in Tasks, MonitorClock(t) PROVE TypeOK'
  <2> DEFINE copy == mon[t].copy \intersect due
             next == [mon[t] EXCEPT !.pc = "run", !.copy = copy]
  <2>1. mon' = [mon EXCEPT ![t] = next]
    BY <1>12 DEF MonitorClock
  <2>2. next \in MonitorRecord
    <3>1. mon[t] \in MonitorRecord /\ copy \in SUBSET Actions
      OBVIOUS
    <3> HIDE DEF copy
    <3> QED BY <3>1, MonitorPlaces
  <2> HIDE DEF next
  <2>3. mon' \in [Tasks -> MonitorRecord]
    BY <2>1, <2>2
  <2> QED
    BY <1>12, <2>3 DEF MonitorClock
<1>13. ASSUME NEW t \in Tasks, MonitorRun(t) PROVE TypeOK'
  <2>1. PICK a \in mon[t].copy :
           /\ runs' = [runs EXCEPT ![a] = IF @ < 2 THEN @ + 1 ELSE @]
           /\ called' = called \union {a}
           /\ mon' = [mon EXCEPT ![t].copy = @ \ {a}, ![t].toRemove = @ \union {a}]
    BY <1>13 DEF MonitorRun
  <2>2. a \in Actions /\ called' \subseteq Actions
    BY <2>1
  <2>3. runs' \in [Actions -> 0..2]
    BY <2>1, <2>2
  <2> DEFINE next == [mon[t] EXCEPT !.copy = @ \ {a}, !.toRemove = @ \union {a}]
  <2>4. next \in MonitorRecord
    <3>1. /\ mon[t] \in MonitorRecord
          /\ mon[t].copy \ {a} \in SUBSET Actions
          /\ mon[t].toRemove \union {a} \in SUBSET Actions
      OBVIOUS
    <3> QED BY <3>1, MonitorPlaces
  <2>5. mon' = [mon EXCEPT ![t] = next]
    BY <2>1
  <2> HIDE DEF next
  <2>6. mon' \in [Tasks -> MonitorRecord]
    BY <2>4, <2>5
  <2> QED
    BY <1>13, <2>2, <2>3, <2>6 DEF MonitorRun
<1>14. ASSUME NEW t \in Tasks, MonitorRemove(t) PROVE TypeOK'
  BY <1>14 DEF MonitorRemove
<1>15. ASSUME NEW a \in Actions, Elapse(a) PROVE TypeOK'
  BY <1>15 DEF Elapse
<1>16. ASSUME NEW t \in Tasks, MonitorRunThrows(t) PROVE TypeOK'
  <2>1. runs' \in [Actions -> 0..2]
    BY <1>16 DEF MonitorRunThrows, TakeBack
  <2>2. called' \subseteq Actions
    BY <1>16 DEF MonitorRunThrows
  <2> QED
    BY <1>16, <2>1, <2>2 DEF MonitorRunThrows
<1>17. CASE UNCHANGED vars
  BY <1>17 DEF vars
<1> QED
  BY <1>4, <1>5, <1>6, <1>7, <1>8, <1>9, <1>10, <1>11, <1>12, <1>13, <1>14, <1>15, <1>16, <1>17
     DEF Next, Pool, Monitor

\* No step of a caller, the pool, the monitor or the clock takes the scheduler
\* out of the states its variables are meant for.
THEOREM TypeCorrect == Spec => []TypeOK
<1>1. Init => TypeOK
  BY TypeInit
<1>2. TypeOK /\ [Next]_vars => TypeOK'
  BY TypeStep
<1> QED
  BY <1>1, <1>2, PTL DEF Spec

-----------------------------------------------------------------------------
TableInv == EntriesHaveMonitor /\ DisposedIsQuiet

\* The table and the task agree after every step, before and after disposal.
LEMMA TableStep == TypeOK /\ TableInv /\ [Next]_vars => TableInv'
<1> SUFFICES ASSUME TypeOK, TableInv, [Next]_vars PROVE TableInv'
  OBVIOUS
<1> USE DEF TableInv, EntriesHaveMonitor, DisposedIsQuiet
<1>1. ASSUME registeredEntries' \subseteq registeredEntries, UNCHANGED <<schedulerTask, disposed>>
      PROVE  TableInv'
  BY <1>1
<1>2. ASSUME NEW a \in Actions, PoolRegister(a) PROVE TableInv'
  BY <1>2, BoundsAssumption DEF PoolRegister, TypeOK, NoTask, Tasks
<1>3. ASSUME NEW a \in Actions, PoolCancel(a) PROVE TableInv'
  BY <1>3, <1>1 DEF PoolCancel
<1>4. ASSUME PoolDispose PROVE TableInv'
  BY <1>4 DEF PoolDispose
<1>5. ASSUME NEW t \in Tasks, MonitorIdle(t) PROVE TableInv'
  BY <1>5 DEF MonitorIdle
<1>6. ASSUME NEW t \in Tasks,
             \/ MonitorBegin(t) \/ MonitorSnapshot(t) \/ MonitorClock(t)
             \/ MonitorRun(t) \/ MonitorRunThrows(t) \/ MonitorRemove(t)
      PROVE  TableInv'
  BY <1>6, <1>1 DEF MonitorBegin, MonitorSnapshot, MonitorClock, MonitorRun, MonitorRunThrows,
     MonitorRemove, table
<1>7. ASSUME NEW a \in Actions, CallRegister(a) \/ CallCancel(a) \/ Elapse(a) PROVE TableInv'
  BY <1>7, <1>1 DEF CallRegister, CallCancel, Submit, Elapse, table
<1>8. CASE CallDispose \/ UNCHANGED vars
  BY <1>8, <1>1 DEF CallDispose, Submit, table, vars
<1> QED
  BY <1>2, <1>3, <1>4, <1>5, <1>6, <1>7, <1>8 DEF Next, Pool, Monitor

\* Whatever order the pool chooses, a scheduled call has a live task to make it
\* and a disposed event schedules and starts nothing any more.
THEOREM TableCorrect == Spec => [](EntriesHaveMonitor /\ DisposedIsQuiet)
<1>1. Init => TableInv
  BY DEF Init, TableInv, EntriesHaveMonitor, DisposedIsQuiet
<1>2. TypeOK /\ TableInv /\ [Next]_vars => TableInv'
  BY TableStep
<1>3. TableInv => EntriesHaveMonitor /\ DisposedIsQuiet
  BY DEF TableInv
<1> QED
  BY <1>1, <1>2, <1>3, TypeCorrect, PTL DEF Spec

-----------------------------------------------------------------------------
(* A call is registered once, one run at a time is under way (through a    *)
(* disposal as well), and what a run has called is on its removal list     *)
(* until it leaves the table or an exception ends the run.                 *)

Taken(a) == Task("register", {a}) \in submitted \ pool

OnlyTaken ==
    /\ \A a \in Actions : a \in registeredEntries \/ runs[a] > 0 => Taken(a)
    /\ \A t \in Tasks : \A a \in mon[t].copy : Taken(a)

BusyTask ==
    \A t \in Tasks : mon[t].pc # "idle" => schedulerTask = t \/ (schedulerTask = NoTask /\ disposed)

OneBusy == \A s, t \in Tasks : mon[s].pc # "idle" /\ mon[t].pc # "idle" => s = t

FreshCopies ==
    \A t \in Tasks : mon[t].pc \in {"clock", "run"} => \A a \in mon[t].copy : runs[a] = 0

RunIsBeingRemoved ==
    \A a \in registeredEntries : runs[a] > 0 =>
        \E t \in Tasks : mon[t].pc = "run" /\ a \in mon[t].toRemove

OnceInv == OnlyTaken /\ BusyTask /\ OneBusy /\ FreshCopies /\ RunIsBeingRemoved /\ AgainOnlyAfterException

\* A task of the pool is taken once: what was taken is never in it again.
LEMMA TakenStays == [Next]_vars => \A a \in Actions : Taken(a) => Taken(a)'
<1> SUFFICES ASSUME [Next]_vars, NEW a \in Actions, Taken(a) PROVE Taken(a)'
  OBVIOUS
<1>1. ASSUME NEW task, Submit(task) PROVE Taken(a)'
  BY <1>1 DEF Submit, Taken
<1>2. ASSUME UNCHANGED submitted, pool' \subseteq pool PROVE Taken(a)'
  BY <1>2 DEF Taken
<1> QED
  BY <1>1, <1>2 DEF Next, CallRegister, CallCancel, CallDispose, Pool, PoolRegister, PoolCancel,
     PoolDispose, Elapse, Monitor, MonitorBegin, MonitorIdle, MonitorSnapshot, MonitorClock,
     MonitorRun, MonitorRunThrows, MonitorRemove, vars

\* The parts of the invariant hold together after every step.
LEMMA OnceStep == TypeOK /\ TableInv /\ OnceInv /\ [Next]_vars => OnceInv'
<1> SUFFICES ASSUME TypeOK, TableInv, OnceInv, [Next]_vars PROVE OnceInv'
  OBVIOUS
<1> USE DEF OnceInv, past
<1>0. registeredEntries \subseteq Actions /\ \A t \in Tasks : mon[t].copy \subseteq Actions
  BY DEF TypeOK, MonitorRecord
\* Steps that register nothing, run nothing and start no task.
<1>1. ASSUME registeredEntries' \subseteq registeredEntries, UNCHANGED <<schedulerTask, disposed, mon, runs>>
      PROVE  OnceInv'
  <2>1. OnlyTaken'
    BY <1>0, <1>1, TakenStays DEF OnlyTaken
  <2> QED
    BY <1>1, <2>1 DEF BusyTask, OneBusy, FreshCopies, RunIsBeingRemoved, AgainOnlyAfterException
<1>2. ASSUME NEW a \in Actions, PoolRegister(a) PROVE OnceInv'
  <2>1. ~Taken(a) /\ Taken(a)'
    BY <1>2 DEF PoolRegister, Taken, TypeOK
  <2>2. ~(runs[a] > 0)
    BY <2>1 DEF OnlyTaken
  <2>3. UNCHANGED <<mon, runs, disposed>> /\ registeredEntries' \subseteq registeredEntries \union {a}
    BY <1>2 DEF PoolRegister
  <2>4. OnlyTaken'
    BY <1>0, <2>1, <2>3, TakenStays DEF OnlyTaken
  <2>5. BusyTask'
    BY <1>2, <2>3, BoundsAssumption DEF BusyTask, PoolRegister, NoTask, Tasks
  <2>6. RunIsBeingRemoved'
    BY <2>2, <2>3 DEF RunIsBeingRemoved
  <2> QED
    BY <2>3, <2>4, <2>5, <2>6 DEF OneBusy, FreshCopies, AgainOnlyAfterException
<1>3. ASSUME PoolDispose PROVE OnceInv'
  <2>1. UNCHANGED <<mon, runs>> /\ registeredEntries' = {} /\ schedulerTask' = NoTask /\ disposed'
    BY <1>3 DEF PoolDispose
  <2>2. OnlyTaken'
    BY <1>0, <2>1, TakenStays DEF OnlyTaken
  <2> QED
    BY <2>1, <2>2 DEF BusyTask, OneBusy, FreshCopies, RunIsBeingRemoved, AgainOnlyAfterException
\* A step of the monitor t: no other run is under way, before and after it.
<1>4. ASSUME NEW t \in Tasks, Monitor(t) PROVE OnceInv'
  <2>1. UNCHANGED <<pool, submitted, disposed>> /\ \A a \in Actions : Taken(a)' = Taken(a)
    BY <1>4 DEF Monitor, MonitorBegin, MonitorIdle, MonitorSnapshot, MonitorClock, MonitorRun,
       MonitorRunThrows, MonitorRemove, table, Taken
  <2>2. \A s \in Tasks : s # t => mon[s].pc = "idle"
    <3>1. CASE MonitorBegin(t)
      BY <3>1 DEF MonitorBegin, BusyTask, NoTask, Tasks
    <3>2. CASE ~MonitorBegin(t)
      BY <1>4, <3>2 DEF Monitor, MonitorIdle, MonitorSnapshot, MonitorClock, MonitorRun,
         MonitorRunThrows, MonitorRemove, OneBusy
    <3> QED
      BY <3>1, <3>2
  <2>3. \A s \in Tasks : s # t => mon'[s] = mon[s]
    BY <1>4 DEF Monitor, MonitorBegin, MonitorIdle, MonitorSnapshot, MonitorClock, MonitorRun,
       MonitorRunThrows, MonitorRemove, TypeOK
  <2>4. OneBusy'
    BY <2>2, <2>3 DEF OneBusy
  <2>5. BusyTask'
    <3>1. CASE MonitorBegin(t)
      BY <2>2, <2>3, <3>1 DEF MonitorBegin, BusyTask, table
    <3>2. CASE MonitorIdle(t)
      BY <2>2, <2>3, <3>2 DEF MonitorIdle, BusyTask, TypeOK, IdleRun
    <3>3. CASE \/ MonitorSnapshot(t) \/ MonitorClock(t)
               \/ MonitorRun(t) \/ MonitorRunThrows(t) \/ MonitorRemove(t)
      BY <2>1, <2>2, <2>3, <3>3 DEF MonitorSnapshot, MonitorClock, MonitorRun, MonitorRunThrows,
         MonitorRemove, BusyTask, table
    <3> QED
      BY <1>4, <3>1, <3>2, <3>3 DEF Monitor
  \* Between two runs nothing in the table has been called.
  <2>6. ASSUME mon[t].pc # "run", NEW a \in registeredEntries PROVE runs[a] = 0
    <3>1. a \in Actions /\ runs[a] \in 0..2
      BY DEF TypeOK
    <3>2. ~(runs[a] > 0)
      BY <2>2, <2>6 DEF RunIsBeingRemoved
    <3> QED
      BY <3>1, <3>2
  <2>7. CASE MonitorBegin(t) \/ MonitorIdle(t)
    <3>1. UNCHANGED <<registeredEntries, runs>> /\ mon[t].pc # "run"
      BY <2>7 DEF MonitorBegin, MonitorIdle, table
    <3>2. mon'[t].pc \notin {"clock", "run"} /\ mon'[t].copy \subseteq mon[t].copy
      <4>1. CASE MonitorBegin(t)
        BY <4>1 DEF MonitorBegin, TypeOK, MonitorRecord
      <4>2. CASE MonitorIdle(t)
        BY <4>2 DEF MonitorIdle, TypeOK, IdleRun
      <4> QED
        BY <2>7, <4>1, <4>2
    <3>3. FreshCopies' /\ AgainOnlyAfterException'
      BY <2>2, <2>3, <3>1, <3>2 DEF FreshCopies, AgainOnlyAfterException
    <3>4. RunIsBeingRemoved'
      BY <2>6, <3>1 DEF RunIsBeingRemoved
    <3>5. OnlyTaken'
      BY <2>1, <2>3, <3>1, <3>2 DEF OnlyTaken, TypeOK, MonitorRecord
    <3> QED
      BY <2>4, <2>5, <3>3, <3>4, <3>5
  <2>8. CASE MonitorSnapshot(t)
    <3>1. UNCHANGED <<registeredEntries, runs>> /\ mon[t].pc # "run" /\ mon'[t].copy = registeredEntries
      BY <2>8 DEF MonitorSnapshot, TypeOK
    <3>2. FreshCopies' /\ AgainOnlyAfterException'
      BY <2>2, <2>3, <2>6, <3>1 DEF FreshCopies, AgainOnlyAfterException
    <3>3. RunIsBeingRemoved'
      BY <2>6, <3>1 DEF RunIsBeingRemoved
    <3>4. OnlyTaken'
      BY <2>1, <2>3, <3>1 DEF OnlyTaken, TypeOK, MonitorRecord
    <3> QED
      BY <2>4, <2>5, <3>2, <3>3, <3>4
  <2>9. CASE MonitorClock(t)
    <3>1. UNCHANGED <<registeredEntries, runs>> /\ mon[t].pc = "clock"
      BY <2>9 DEF MonitorClock, table
    <3>2. mon'[t].copy \subseteq mon[t].copy
      BY <2>9 DEF MonitorClock, TypeOK, MonitorRecord
    <3>3. FreshCopies' /\ AgainOnlyAfterException'
      BY <2>2, <2>3, <3>1, <3>2 DEF FreshCopies, AgainOnlyAfterException
    <3>4. RunIsBeingRemoved'
      BY <2>6, <3>1 DEF RunIsBeingRemoved
    <3>5. OnlyTaken'
      BY <2>1, <2>3, <3>1, <3>2 DEF OnlyTaken, TypeOK, MonitorRecord
    <3> QED
      BY <2>4, <2>5, <3>3, <3>4, <3>5
  <2>10. CASE MonitorRun(t)
    <3>1. PICK a \in mon[t].copy :
             /\ runs' = [runs EXCEPT ![a] = IF @ < 2 THEN @ + 1 ELSE @]
             /\ mon' = [mon EXCEPT ![t].copy = @ \ {a}, ![t].toRemove = @ \union {a}]
      BY <2>10 DEF MonitorRun
    <3>2. a \in Actions /\ runs[a] = 0 /\ mon[t].pc = "run" /\ Taken(a)
      BY <2>10 DEF MonitorRun, FreshCopies, OnlyTaken, TypeOK, MonitorRecord
    <3>3. runs' = [runs EXCEPT ![a] = 1]
      BY <3>1, <3>2
    <3>4. /\ mon'[t].pc = "run" /\ mon'[t].copy = mon[t].copy \ {a}
          /\ mon'[t].toRemove = mon[t].toRemove \union {a}
      BY <3>1, <3>2 DEF TypeOK, MonitorRecord
    <3>5. UNCHANGED registeredEntries
      BY <2>10 DEF MonitorRun, table
    <3>6. AgainOnlyAfterException'
      BY <3>2, <3>3 DEF AgainOnlyAfterException, TypeOK
    <3>7. FreshCopies'
      BY <2>2, <2>3, <3>2, <3>3, <3>4 DEF FreshCopies, TypeOK, MonitorRecord
    <3>8. RunIsBeingRemoved'
      BY <2>2, <3>2, <3>3, <3>4, <3>5 DEF RunIsBeingRemoved, TypeOK
    <3>9. OnlyTaken'
      BY <2>1, <2>3, <3>2, <3>3, <3>4, <3>5 DEF OnlyTaken, TypeOK, MonitorRecord
    <3> QED
      BY <2>4, <2>5, <3>6, <3>7, <3>8, <3>9
  <2>11. CASE MonitorRemove(t)
    <3>1. UNCHANGED runs /\ registeredEntries' = registeredEntries \ mon[t].toRemove
      BY <2>11 DEF MonitorRemove
    <3>2. mon'[t].pc = "idle" /\ mon'[t].copy = {}
      BY <2>11 DEF MonitorRemove, TypeOK, IdleRun
    <3>3. RunIsBeingRemoved'
      BY <2>2, <3>1 DEF RunIsBeingRemoved
    <3>4. FreshCopies' /\ AgainOnlyAfterException'
      BY <2>2, <2>3, <3>1, <3>2 DEF FreshCopies, AgainOnlyAfterException
    <3>5. OnlyTaken'
      BY <1>0, <2>1, <2>3, <3>1, <3>2 DEF OnlyTaken
    <3> QED
      BY <2>4, <2>5, <3>3, <3>4, <3>5
  \* What this run had called, and only that, is called again.
  <2>12. CASE MonitorRunThrows(t)
    <3>1. runs' = TakeBack(mon[t].toRemove) /\ UNCHANGED registeredEntries
      BY <2>12 DEF MonitorRunThrows, table
    <3>2. mon'[t].pc = "idle" /\ mon'[t].copy = {}
      BY <2>12 DEF MonitorRunThrows, TypeOK, IdleRun
    <3>3. ASSUME NEW a \in Actions
          PROVE  /\ runs[a] \in 0..1 /\ runs'[a] \in 0..1 /\ runs'[a] <= runs[a]
                 /\ a \in mon[t].toRemove => runs'[a] = 0
      BY <3>1 DEF TakeBack, TypeOK, AgainOnlyAfterException
    <3>4. RunIsBeingRemoved'
      BY <1>0, <2>2, <3>1, <3>3 DEF RunIsBeingRemoved
    <3>5. FreshCopies' /\ AgainOnlyAfterException'
      BY <2>2, <2>3, <3>2, <3>3 DEF FreshCopies, AgainOnlyAfterException
    <3>6. OnlyTaken'
      BY <1>0, <2>1, <2>3, <3>1, <3>2, <3>3 DEF OnlyTaken
    <3> QED
      BY <2>4, <2>5, <3>4, <3>5, <3>6
  <2> QED
    BY <1>4, <2>7, <2>8, <2>9, <2>10, <2>11, <2>12 DEF Monitor
<1>5. ASSUME NEW a \in Actions, PoolCancel(a) PROVE OnceInv'
  BY <1>5, <1>1 DEF PoolCancel
<1>6. ASSUME NEW a \in Actions, CallRegister(a) \/ CallCancel(a) \/ Elapse(a) PROVE OnceInv'
  BY <1>6, <1>1 DEF CallRegister, CallCancel, Submit, Elapse, table
<1>7. CASE CallDispose \/ UNCHANGED vars
  BY <1>7, <1>1 DEF CallDispose, Submit, table, vars
<1> QED
  BY <1>2, <1>3, <1>4, <1>5, <1>6, <1>7 DEF Next, Pool

\* A scheduled script call that was made is made again only after an exception
\* ended the run of the monitor that made it, whatever cancellations and
\* disposals the pool carries out meanwhile and in whatever order, and
\* whichever of the calls throw.
THEOREM CalledAgain == Spec => []AgainOnlyAfterException
<1>1. Init => TableInv /\ OnceInv
  BY DEF Init, TableInv, EntriesHaveMonitor, DisposedIsQuiet, OnceInv, OnlyTaken, BusyTask,
     OneBusy, FreshCopies, RunIsBeingRemoved, AgainOnlyAfterException, IdleRun
<1>2. TypeOK /\ TableInv /\ OnceInv /\ [Next]_vars => TableInv' /\ OnceInv'
  BY TableStep, OnceStep
<1>3. OnceInv => AgainOnlyAfterException
  BY DEF OnceInv
<1> QED
  BY <1>1, <1>2, <1>3, TypeCorrect, PTL DEF Spec
=============================================================================
