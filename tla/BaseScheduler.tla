---------------------------- MODULE BaseScheduler ----------------------------
(***************************************************************************)
(* net/server/channel/worker/BaseScheduler.java: the delayed-action table  *)
(* behind every channel scheduler (mob status, mob animation, mists,       *)
(* clear-skill, face expressions, channel and map events).                 *)
(*                                                                         *)
(* Handler threads register an action under a key, or interrupt it (take   *)
(* it out and run it at once); a periodic task of the TimerManager pool    *)
(* scans the table and runs what is due.  schedulerLock is never held      *)
(* while an action or a listener runs, so every locked section is one      *)
(* action here and everything between two sections interleaves.            *)
(*                                                                         *)
(* A registration is the number of the registerEntry call that made it:    *)
(* `calls' records the key of each call.  Time is abstract: a registration *)
(* becomes `due' when its duration has elapsed.  A monitor is one          *)
(* ScheduledFuture; scheduleAtFixedRate never runs one future twice at the *)
(* same time, but cancel(false) lets a run in progress finish.             *)
(***************************************************************************)
EXTENDS Naturals, Sequences, FiniteSets

CONSTANTS
    Keys,          \* what entries are registered under
    Callers,       \* handler threads
    MaxReg,        \* bound: calls of registerEntry
    MaxTask,       \* bound: monitor tasks ever started
    MonitorLife,   \* MOB_STATUS_MONITOR_LIFE, 84 in ServerConstants
    ReuseKeys,     \* may a key be registered again?  FALSE where the key is the
                   \* Runnable itself (OverallScheduler, MobMistScheduler, ...)
    MayThrow,      \* may an action throw?
    MayDispose     \* may the channel be shut down while handlers run?

ASSUME BoundsAssumption ==
    /\ MaxReg \in Nat /\ MaxTask \in Nat
    /\ MaxTask >= MaxReg     \* the bound on tasks stops no registration
    /\ MonitorLife \in Nat \ {0}
    /\ {ReuseKeys, MayThrow, MayDispose} \subseteq BOOLEAN

VARIABLES
    registeredEntries, \* key -> the registration it holds, NoReg when absent
    idleProcs,
    schedulerTask,     \* the live monitor, NoTask for null
    listening,         \* FALSE once dispose has cleared the listeners
    calls,             \* history: key of each registerEntry call
    due,               \* registrations whose duration has elapsed
    tasks,             \* monitors started so far
    mon,               \* where each monitor's current run is
    caller,            \* where each handler thread is
    monitorRuns,       \* history: runs of each action by a monitor
    interruptRuns      \* history: runs of each action by interruptEntry

table == <<registeredEntries, idleProcs, schedulerTask, listening>>
clock == <<calls, due>>
runs  == <<monitorRuns, interruptRuns>>
vars  == <<registeredEntries, idleProcs, schedulerTask, listening, calls, due,
           tasks, mon, caller, monitorRuns, interruptRuns>>

NoReg  == 0
NoTask == 0
Regs   == 1..MaxReg
Tasks  == 1..MaxTask

\* Runs of one action are counted up to 2: more than once is all that matters.
Tally(n) == IF n < 2 THEN n + 1 ELSE n

Pairs      == Keys \X Regs
IdleRun    == [pc |-> "idle", copy |-> {}, toRemove |-> {}]
IdleCaller == [pc |-> "idle", entry |-> {}]

\* The entries of the map, as the pairs a snapshot of it holds.
Entries == {e \in Pairs : registeredEntries[e[1]] = e[2]}

Init ==
    /\ registeredEntries = [k \in Keys |-> NoReg]
    /\ idleProcs = 0
    /\ schedulerTask = NoTask
    /\ listening = TRUE
    /\ calls = <<>>
    /\ due = {}
    /\ tasks = 0
    /\ mon = [t \in Tasks |-> IdleRun]
    /\ caller = [c \in Callers |-> IdleCaller]
    /\ monitorRuns = [r \in Regs |-> 0]
    /\ interruptRuns = [r \in Regs |-> 0]

-----------------------------------------------------------------------------
(* The monitor: runBaseSchedule.                                           *)

\* The pool starts a run of the live task; it has yet to take schedulerLock.
MonitorBegin(t) ==
    /\ schedulerTask = t
    /\ mon[t].pc = "idle"
    /\ mon' = [mon EXCEPT ![t].pc = "lock"]
    /\ UNCHANGED <<table, clock, tasks, caller, runs>>

\* Seeded defect: the table is not looked at under the lock of the countdown.
MonitorIdle_Unchecked(t) ==
    /\ mon[t].pc = "lock"
    /\ idleProcs' = IF idleProcs < MonitorLife THEN idleProcs + 1 ELSE idleProcs
    /\ schedulerTask' = IF idleProcs' >= MonitorLife THEN NoTask ELSE schedulerTask
    /\ mon' = [mon EXCEPT ![t] = IdleRun]
    /\ UNCHANGED <<registeredEntries, listening, clock, tasks, caller, runs>>

\* First locked section, nothing registered: count the idle run, and after
\* MonitorLife of them in a row cancel whichever task the field holds.
MonitorIdle(t) ==
    /\ mon[t].pc = "lock"
    /\ Entries = {}
    /\ idleProcs' = IF idleProcs < MonitorLife THEN idleProcs + 1 ELSE idleProcs
    /\ schedulerTask' = IF idleProcs' >= MonitorLife THEN NoTask ELSE schedulerTask
    /\ mon' = [mon EXCEPT ![t] = IdleRun]
    /\ UNCHANGED <<registeredEntries, listening, clock, tasks, caller, runs>>

\* Seeded defect: everything copied is marked for removal, due or not.
MonitorSnapshot_RemovesAll(t) ==
    /\ mon[t].pc = "lock"
    /\ Entries # {}
    /\ idleProcs' = 0
    /\ mon' = [mon EXCEPT ![t] =
          [pc |-> "clock", copy |-> Entries, toRemove |-> {e[1] : e \in Entries}]]
    /\ UNCHANGED <<registeredEntries, schedulerTask, listening, clock, tasks, caller, runs>>

\* First locked section, something registered: copy the table.
MonitorSnapshot(t) ==
    /\ mon[t].pc = "lock"
    /\ Entries # {}
    /\ idleProcs' = 0
    /\ mon' = [mon EXCEPT ![t] = [pc |-> "clock", copy |-> Entries, toRemove |-> {}]]
    /\ UNCHANGED <<registeredEntries, schedulerTask, listening, clock, tasks, caller, runs>>

\* Seeded defect: the deadlines are not compared with the time.
MonitorClock_Eager(t) ==
    /\ mon[t].pc = "clock"
    /\ mon' = [mon EXCEPT ![t].pc = "run"]
    /\ UNCHANGED <<table, clock, tasks, caller, runs>>

\* timeNow is read once, after the unlock: only what is due by then is run.
MonitorClock(t) ==
    /\ mon[t].pc = "clock"
    /\ mon' = [mon EXCEPT ![t].pc = "run", ![t].copy = {e \in @ : e[2] \in due}]
    /\ UNCHANGED <<table, clock, tasks, caller, runs>>

\* One due entry of the copy is run, without any lock.
MonitorRun(t) ==
    /\ mon[t].pc = "run"
    /\ \E e \in mon[t].copy :
          /\ monitorRuns' = [monitorRuns EXCEPT ![e[2]] = Tally(@)]
          /\ mon' = [mon EXCEPT ![t].copy = @ \ {e}, ![t].toRemove = @ \union {e[1]}]
    /\ UNCHANGED <<table, clock, tasks, caller, interruptRuns>>

\* The action throws: the exception ends the run (TimerManager's
\* LoggingSaveRunnable swallows it) before anything is removed.
MonitorRunThrows(t) ==
    /\ MayThrow
    /\ mon[t].pc = "run"
    /\ \E e \in mon[t].copy :
          monitorRuns' = [monitorRuns EXCEPT ![e[2]] = Tally(@)]
    /\ mon' = [mon EXCEPT ![t] = IdleRun]
    /\ UNCHANGED <<table, clock, tasks, caller, interruptRuns>>

\* Seeded defect: what was run stays in the table.
MonitorRemove_Nothing(t) ==
    /\ mon[t].pc = "run"
    /\ mon[t].copy = {}
    /\ mon' = [mon EXCEPT ![t].pc = "dispatch"]
    /\ UNCHANGED <<table, clock, tasks, caller, runs>>

\* Second locked section: the keys of what was run leave the table, whatever
\* they hold by now.  It is skipped when nothing was run.
MonitorRemove(t) ==
    /\ mon[t].pc = "run"
    /\ mon[t].copy = {}
    /\ registeredEntries' =
          [k \in Keys |-> IF k \in mon[t].toRemove THEN NoReg ELSE registeredEntries[k]]
    /\ mon' = [mon EXCEPT ![t].pc = "dispatch"]
    /\ UNCHANGED <<idleProcs, schedulerTask, listening, clock, tasks, caller, runs>>

\* dispatchRemovedEntries(toRemove, true) reads the list of listeners ...
MonitorDispatch(t) ==
    /\ mon[t].pc = "dispatch"
    /\ mon' = [mon EXCEPT ![t] = IF listening THEN [@ EXCEPT !.pc = "notify"] ELSE IdleRun]
    /\ UNCHANGED <<table, clock, tasks, caller, runs>>

\* ... and calls them: what they do is for the module of the scheduler that
\* has one.  The run is over.
MonitorNotify(t) ==
    /\ mon[t].pc = "notify"
    /\ mon' = [mon EXCEPT ![t] = IdleRun]
    /\ UNCHANGED <<table, clock, tasks, caller, runs>>

-----------------------------------------------------------------------------
(* The handler threads: registerEntry, interruptEntry, dispose.            *)

CanRegister(k) == ReuseKeys \/ \A i \in DOMAIN calls : calls[i] # k

\* The locked section of registerEntry: the monitor is started when there is
\* none, and an entry already under the key is replaced.
PutEntry(k) ==
    /\ Len(calls) < MaxReg
    /\ CanRegister(k)
    /\ idleProcs' = 0
    /\ IF schedulerTask = NoTask
         THEN /\ tasks < MaxTask
              /\ tasks' = tasks + 1
              /\ schedulerTask' = tasks + 1
         ELSE UNCHANGED <<tasks, schedulerTask>>
    /\ calls' = Append(calls, k)
    /\ registeredEntries' = [registeredEntries EXCEPT ![k] = Len(calls) + 1]
    /\ UNCHANGED <<listening, due, mon, runs>>

RegisterEntry(c, k) ==
    /\ caller[c].pc = "idle"
    /\ PutEntry(k)
    /\ UNCHANGED caller

\* Seeded defect: the entry is looked up and stays in the table.
InterruptEntry_Get(c, k) ==
    /\ caller[c].pc = "idle"
    /\ caller' = [caller EXCEPT ![c] = [pc |-> "run", entry |-> {e \in Entries : e[1] = k}]]
    /\ UNCHANGED <<table, clock, tasks, mon, runs>>

\* interruptEntry takes the entry out under the lock ...
InterruptEntry(c, k) ==
    /\ caller[c].pc = "idle"
    /\ caller' = [caller EXCEPT ![c] = [pc |-> "run", entry |-> {e \in Entries : e[1] = k}]]
    /\ registeredEntries' = [registeredEntries EXCEPT ![k] = NoReg]
    /\ UNCHANGED <<idleProcs, schedulerTask, listening, clock, tasks, mon, runs>>

\* ... and runs its action, if there was one, after the unlock.  When the
\* action throws, the listeners are not told.
InterruptRun(c) ==
    /\ caller[c].pc = "run"
    /\ interruptRuns' = [r \in Regs |->
          IF \E e \in caller[c].entry : e[2] = r
            THEN Tally(interruptRuns[r]) ELSE interruptRuns[r]]
    /\ \/ caller' = [caller EXCEPT ![c].pc = "dispatch"]
       \/ /\ MayThrow /\ caller[c].entry # {}
          /\ caller' = [caller EXCEPT ![c] = IdleCaller]
    /\ UNCHANGED <<table, clock, tasks, mon, monitorRuns>>

\* dispatchRemovedEntries([key], false).
InterruptDispatch(c) ==
    /\ caller[c].pc = "dispatch"
    /\ caller' = [caller EXCEPT ![c] = IdleCaller]
    /\ UNCHANGED <<table, clock, tasks, mon, runs>>

\* Channel shutdown.  Nothing marks the scheduler as disposed: a later
\* registerEntry starts a new task.
Dispose ==
    /\ MayDispose
    /\ schedulerTask' = NoTask
    /\ listening' = FALSE
    /\ registeredEntries' = [k \in Keys |-> NoReg]
    /\ UNCHANGED <<idleProcs, clock, tasks, mon, caller, runs>>

\* The duration of a registration elapses.
Elapse(r) ==
    /\ r \in DOMAIN calls
    /\ r \notin due
    /\ due' = due \union {r}
    /\ UNCHANGED <<table, calls, tasks, mon, caller, runs>>

\* A run up to the point where the listeners are called.
MonitorScan(t) ==
    \/ MonitorBegin(t) \/ MonitorIdle(t) \/ MonitorSnapshot(t) \/ MonitorClock(t)
    \/ MonitorRun(t) \/ MonitorRunThrows(t) \/ MonitorRemove(t) \/ MonitorDispatch(t)

Monitor(t) == MonitorScan(t) \/ MonitorNotify(t)

Finish(c) == InterruptRun(c) \/ InterruptDispatch(c)

Next ==
    \/ \E t \in Tasks : Monitor(t)
    \/ \E c \in Callers : Finish(c)
    \/ \E c \in Callers, k \in Keys : RegisterEntry(c, k) \/ InterruptEntry(c, k)
    \/ Dispose
    \/ \E r \in Regs : Elapse(r)

Spec == Init /\ [][Next]_vars

-----------------------------------------------------------------------------
MonitorRecord == [pc : {"idle", "lock", "clock", "run", "dispatch", "notify"},
                  copy : SUBSET Pairs, toRemove : SUBSET Keys]
CallerRecord  == [pc : {"idle", "run", "dispatch"}, entry : SUBSET Pairs]

\* The type invariant.
TypeOK ==
    /\ registeredEntries \in [Keys -> {NoReg} \union Regs]
    /\ idleProcs \in 0..MonitorLife
    /\ schedulerTask \in {NoTask} \union Tasks
    /\ listening \in BOOLEAN
    /\ calls \in Seq(Keys) /\ Len(calls) \in 0..MaxReg
    /\ due \subseteq Regs
    /\ tasks \in 0..MaxTask
    /\ mon \in [Tasks -> MonitorRecord]
    /\ caller \in [Callers -> CallerRecord]
    /\ monitorRuns \in [Regs -> 0..2]
    /\ interruptRuns \in [Regs -> 0..2]

\* As long as anything is registered there is a live monitor task to run it:
\* the idle countdown and dispose never cancel the task under a registered
\* entry, whichever monitor's run does it, and registerEntry revives it.
EntriesHaveMonitor == Entries # {} => schedulerTask # NoTask

\* An entry that handlers interrupt at the same time is run by one of them only.
InterruptedOnce == \A r \in Regs : interruptRuns[r] <= 1

\* Where no action throws, and before a shutdown, no action is run twice by the
\* monitors, even though it stays in the table while it runs and every run works
\* on a stale copy.  (Once by a monitor and once by a handler is possible:
\* interruptEntry may take out an entry that a run has already copied.)
MonitoredOnce == listening => \A r \in Regs : monitorRuns[r] <= 1

\* Someone has run, or has undertaken to run, the action of registration r.
Served(r) ==
    \/ monitorRuns[r] > 0 \/ interruptRuns[r] > 0
    \/ \E c \in Callers : caller[c].pc = "run" /\ \E e \in caller[c].entry : e[2] = r

\* Before a shutdown a registration whose key was registered once leaves the table
\* only because its action was run or is about to be, even where other keys are
\* registered again and actions throw: the key-wise removal at the end of a monitor
\* run drops nothing else.  (A registration that replaces an entry a run has copied
\* can be removed with it, and one that is replaced is never run.)
SoleRegistrationServed ==
    listening => \A r \in DOMAIN calls :
        (\A s \in DOMAIN calls : calls[s] = calls[r] => s = r)
            => registeredEntries[calls[r]] = r \/ Served(r)
=============================================================================
