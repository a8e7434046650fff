-------------------------- MODULE SchedulerProofs --------------------------
(***************************************************************************)
(* Proofs about the two schedulers of delayed actions: BaseScheduler, for  *)
(* any keys, threads and bounds, and then MobAnimationScheduler, which     *)
(* extends it, for any mobs, with actions that throw and a shutdown at any *)
(* moment.                                                                 *)
(***************************************************************************)
EXTENDS MobAnimationScheduler, TLAPS, SequenceTheorems

\* The scheduler starts in a state of the right type.
LEMMA TypeInit == Init => TypeOK
  BY BoundsAssumption DEF Init, TypeOK, NoReg, NoTask, Regs, Tasks, IdleRun, IdleCaller,
     MonitorRecord, CallerRecord

\* What a monitor and a handler keep of their place is of the right type.
LEMMA MonitorPlaces ==
  ASSUME NEW m \in MonitorRecord, NEW copy \in SUBSET Pairs, NEW keys \in SUBSET Keys
  PROVE  /\ [m EXCEPT !.pc = "run", !.copy = copy] \in MonitorRecord
         /\ [m EXCEPT !.copy = copy, !.toRemove = keys] \in MonitorRecord
BY DEF MonitorRecord

LEMMA CallerPlaces ==
  ASSUME NEW r \in CallerRecord
  PROVE  [r EXCEPT !.pc = "dispatch"] \in CallerRecord /\ IdleCaller \in CallerRecord
BY DEF CallerRecord, IdleCaller

\* Every step of a monitor, a handler or the clock keeps the types.
LEMMA TypeStep == TypeOK /\ [Next]_vars => TypeOK'
<1> SUFFICES ASSUME TypeOK, [Next]_vars PROVE TypeOK'
  OBVIOUS
<1> USE BoundsAssumption DEF TypeOK, NoReg, NoTask, Regs, Tasks, MonitorRecord, IdleRun, table, clock, runs
<1>1. ASSUME NEW t \in Tasks, MonitorBegin(t) PROVE TypeOK'
  BY <1>1 DEF MonitorBegin
<1>2. ASSUME NEW t \in Tasks, MonitorIdle(t) PROVE TypeOK'
  BY <1>2 DEF MonitorIdle
<1>3. ASSUME NEW t \in Tasks, MonitorSnapshot(t) PROVE TypeOK'
  BY <1>3 DEF MonitorSnapshot, Entries
<1>4. ASSUME NEW t \in Tasks, MonitorClock(t) PROVE TypeOK'
  <2> DEFINE copy == {e \in mon[t].copy : e[2] \in due}
             next == [mon[t] EXCEPT !.pc = "run", !.copy = copy]
  <2>1. mon' = [mon EXCEPT ![t] = next]
    BY <1>4 DEF MonitorClock
  <2>2. next \in MonitorRecord
    <3>1. mon[t] \in MonitorRecord /\ copy \in SUBSET Pairs
      OBVIOUS
    <3> HIDE DEF copy
    <3> QED BY <3>1, MonitorPlaces
  <2> HIDE DEF next
  <2>3. mon' \in [Tasks -> MonitorRecord]
    BY <2>1, <2>2
  <2> QED
    BY <1>4, <2>3 DEF MonitorClock
<1>5. ASSUME NEW t \in Tasks, MonitorRun(t) PROVE TypeOK'
  <2>1. PICK e \in mon[t].copy :
           /\ monitorRuns' = [monitorRuns EXCEPT ![e[2]] = Tally(@)]
           /\ mon' = [mon EXCEPT ![t].copy = @ \ {e}, ![t].toRemove = @ \union {e[1]}]
    BY <1>5 DEF MonitorRun
  <2>2. e \in Pairs /\ e[1] \in Keys /\ e[2] \in Regs
    BY DEF Pairs
  <2>3. monitorRuns' \in [Regs -> 0..2]
    BY <2>1, <2>2 DEF Tally
  <2> DEFINE next == [mon[t] EXCEPT !.copy = @ \ {e}, !.toRemove = @ \union {e[1]}]
  <2>4. next \in MonitorRecord
    <3>1. /\ mon[t] \in MonitorRecord
          /\ mon[t].copy \ {e} \in SUBSET Pairs
          /\ mon[t].toRemove \union {e[1]} \in SUBSET Keys
      BY <2>2
    <3> QED BY <3>1, MonitorPlaces
  <2>5. mon' = [mon EXCEPT ![t] = next]
    BY <2>1
  <2> HIDE DEF next
  <2>6. mon' \in [Tasks -> MonitorRecord]
    BY <2>4, <2>5
  <2> QED
    BY <1>5, <2>3, <2>6 DEF MonitorRun
<1>6. ASSUME NEW t \in Tasks, MonitorRunThrows(t) PROVE TypeOK'
  <2>1. PICK e \in mon[t].copy : monitorRuns' = [monitorRuns EXCEPT ![e[2]] = Tally(@)]
    BY <1>6 DEF MonitorRunThrows
  <2>2. e[2] \in Regs
    BY DEF Pairs
  <2>3. monitorRuns' \in [Regs -> 0..2]
    BY <2>1, <2>2 DEF Tally
  <2> QED
    BY <1>6, <2>3 DEF MonitorRunThrows
<1>7. ASSUME NEW t \in Tasks, MonitorRemove(t) PROVE TypeOK'
  BY <1>7 DEF MonitorRemove
<1>8. ASSUME NEW t \in Tasks, MonitorDispatch(t) PROVE TypeOK'
  BY <1>8 DEF MonitorDispatch
<1>9. ASSUME NEW t \in Tasks, MonitorNotify(t) PROVE TypeOK'
  BY <1>9 DEF MonitorNotify
<1>10. ASSUME NEW c \in Callers, NEW k \in Keys, RegisterEntry(c, k) PROVE TypeOK'
  BY <1>10, AppendProperties DEF RegisterEntry, PutEntry
<1>11. ASSUME NEW c \in Callers, NEW k \in Keys, InterruptEntry(c, k) PROVE TypeOK'
  BY <1>11 DEF InterruptEntry, CallerRecord, Entries
<1>12. ASSUME NEW c \in Callers, InterruptRun(c) PROVE TypeOK'
  <2>1. interruptRuns' \in [Regs -> 0..2]
    <3>1. \A r \in Regs : interruptRuns[r] \in 0..2 /\ Tally(interruptRuns[r]) \in 0..2
      BY DEF Tally
    <3> QED
      BY <1>12, <3>1 DEF InterruptRun, Tally
  <2>2. PICK next \in CallerRecord : caller' = [caller EXCEPT ![c] = next]
    <3>1. caller[c] \in CallerRecord
      OBVIOUS
    <3> QED BY <1>12, <3>1, CallerPlaces DEF InterruptRun
  <2>3. caller' \in [Callers -> CallerRecord]
    BY <2>2
  <2> QED
    BY <1>12, <2>1, <2>3 DEF InterruptRun
<1>13. ASSUME NEW c \in Callers, InterruptDispatch(c) PROVE TypeOK'
  BY <1>13 DEF InterruptDispatch, CallerRecord, IdleCaller
<1>14. ASSUME Dispose PROVE TypeOK'
  BY <1>14 DEF Dispose
<1>15. ASSUME NEW r \in Regs, Elapse(r) PROVE TypeOK'
  BY <1>15 DEF Elapse
<1>16. CASE UNCHANGED vars
  BY <1>16 DEF vars
<1> QED
  BY <1>1, <1>2, <1>3, <1>4, <1>5, <1>6, <1>7, <1>8, <1>9, <1>10, <1>11, <1>12, <1>13, <1>14,
     <1>15, <1>16 DEF Next, Monitor, MonitorScan, Finish

\* No step of a monitor, a handler or the clock takes the scheduler out of the
\* states its variables are meant for, whatever the number of keys and threads.
THEOREM TypeCorrect == Spec => []TypeOK
<1>1. Init => TypeOK
  BY TypeInit
<1>2. TypeOK /\ [Next]_vars => TypeOK'
  BY TypeStep
<1> QED
  BY <1>1, <1>2, PTL DEF Spec

-----------------------------------------------------------------------------
(* A table with entries has a live monitor.                                *)

\* No step leaves an entry in the table without a live monitor task.
LEMMA HaveMonitorStep ==
    TypeOK /\ TypeOK' /\ EntriesHaveMonitor /\ [Next]_vars => EntriesHaveMonitor'
<1> SUFFICES ASSUME TypeOK, EntriesHaveMonitor, [Next]_vars PROVE EntriesHaveMonitor'
  OBVIOUS
<1> USE BoundsAssumption DEF EntriesHaveMonitor
\* Nothing new in the table and the task not cancelled.
<1>1. ASSUME Entries' \subseteq Entries, schedulerTask' = schedulerTask PROVE EntriesHaveMonitor'
  BY <1>1
<1>2. ASSUME UNCHANGED registeredEntries PROVE Entries' = Entries
  BY <1>2 DEF Entries
<1>3. ASSUME NEW t \in Tasks, Monitor(t) PROVE EntriesHaveMonitor'
  <2>1. CASE MonitorIdle(t)
    BY <2>1, <1>2 DEF MonitorIdle
  <2>2. CASE MonitorRemove(t)
    <3>1. Entries' \subseteq Entries
      BY <2>2 DEF MonitorRemove, Entries, Pairs, Regs, NoReg
    <3> QED
      BY <2>2, <3>1, <1>1 DEF MonitorRemove
  <2>3. CASE MonitorBegin(t) \/ MonitorSnapshot(t) \/ MonitorClock(t) \/ MonitorRun(t)
               \/ MonitorRunThrows(t) \/ MonitorDispatch(t) \/ MonitorNotify(t)
    BY <2>3, <1>1, <1>2 DEF MonitorBegin, MonitorSnapshot, MonitorClock, MonitorRun,
       MonitorRunThrows, MonitorDispatch, MonitorNotify, table
  <2> QED
    BY <1>3, <2>1, <2>2, <2>3 DEF Monitor, MonitorScan
<1>4. ASSUME NEW c \in Callers, NEW k \in Keys, RegisterEntry(c, k) PROVE EntriesHaveMonitor'
  BY <1>4 DEF RegisterEntry, PutEntry, TypeOK, Tasks, NoTask
<1>5. ASSUME NEW c \in Callers, NEW k \in Keys, InterruptEntry(c, k) PROVE EntriesHaveMonitor'
  <2>1. Entries' \subseteq Entries
    BY <1>5 DEF InterruptEntry, Entries, Pairs, Regs, NoReg, TypeOK
  <2> QED
    BY <1>5, <2>1, <1>1 DEF InterruptEntry
<1>6. ASSUME NEW c \in Callers, Finish(c) PROVE EntriesHaveMonitor'
  BY <1>6, <1>1, <1>2 DEF Finish, InterruptRun, InterruptDispatch, table
<1>7. ASSUME Dispose PROVE EntriesHaveMonitor'
  BY <1>7 DEF Dispose, Entries, Pairs, Regs, NoReg
<1>8. ASSUME NEW r \in Regs, Elapse(r) PROVE EntriesHaveMonitor'
  BY <1>8, <1>1, <1>2 DEF Elapse, table
<1>9. CASE UNCHANGED vars
  BY <1>9, <1>1, <1>2 DEF vars
<1> QED
  BY <1>3, <1>4, <1>5, <1>6, <1>7, <1>8, <1>9 DEF Next

\* As long as anything is registered there is a live task to run it: neither
\* the idle countdown nor a shutdown strands an entry, with keys registered
\* again, actions that throw and a shutdown at any moment.
THEOREM AlwaysMonitored == Spec => []EntriesHaveMonitor
<1>1. Init => EntriesHaveMonitor
  BY BoundsAssumption DEF Init, EntriesHaveMonitor, Entries, Pairs, NoReg, Regs
<1>2. TypeOK /\ TypeOK' /\ EntriesHaveMonitor /\ [Next]_vars => EntriesHaveMonitor'
  BY HaveMonitorStep
<1> QED
  BY <1>1, <1>2, TypeCorrect, PTL DEF Spec

-----------------------------------------------------------------------------
(***************************************************************************)
(* Nothing is dropped unserved.                                            *)
(*                                                                         *)
(* The removal at the end of a run goes by key and ignores what the key    *)
(* holds by then.  What makes it right is not local to it: the list of     *)
(* keys was filled while actions were run (RunBeforeRemoved), copies and   *)
(* table only ever pair a registration with its own key (KnownCopies,      *)
(* KnownEntries), and a key registered once names one registration.        *)
(***************************************************************************)

KnownEntries ==
    \A k \in Keys : registeredEntries[k] # NoReg =>
        registeredEntries[k] \in DOMAIN calls /\ calls[registeredEntries[k]] = k

KnownCopies ==
    \A t \in Tasks : \A e \in mon[t].copy : e[2] \in DOMAIN calls /\ calls[e[2]] = e[1]

RunBeforeRemoved ==
    \A t \in Tasks : \A k \in mon[t].toRemove :
        \E r \in DOMAIN calls : calls[r] = k /\ monitorRuns[r] > 0

Sole(r) == \A s \in DOMAIN calls : calls[s] = calls[r] => s = r

ServedInv == KnownEntries /\ KnownCopies /\ RunBeforeRemoved /\ SoleRegistrationServed

-----------------------------------------------------------------------------
\* A call of registerEntry is one registration more, under its key.
LEMMA PutCalls ==
  ASSUME TypeOK, NEW k \in Keys, PutEntry(k)
  PROVE  /\ Len(calls) + 1 \in Regs
         /\ DOMAIN calls = 1..Len(calls)
         /\ DOMAIN calls' = DOMAIN calls \union {Len(calls) + 1}
         /\ calls'[Len(calls) + 1] = k
         /\ \A r \in DOMAIN calls : calls'[r] = calls[r]
         /\ Len(calls) + 1 \notin DOMAIN calls
<1>1. Len(calls) \in Nat /\ Len(calls) < MaxReg /\ calls' = Append(calls, k) /\ calls \in Seq(Keys)
  BY BoundsAssumption DEF TypeOK, PutEntry
<1>2. DOMAIN calls = 1..Len(calls)
  BY <1>1
<1>3. Len(calls') = Len(calls) + 1 /\ calls' \in Seq(Keys)
  BY <1>1, AppendProperties
<1>4. DOMAIN calls' = 1..(Len(calls) + 1)
  BY <1>3
<1>5. calls'[Len(calls) + 1] = k /\ \A r \in 1..Len(calls) : calls'[r] = calls[r]
  BY <1>1, AppendProperties
<1> QED
  BY <1>1, <1>2, <1>4, <1>5, BoundsAssumption DEF Regs

\* A registration is a number from 1 to the number of calls.
LEMMA CallsAreRegs == TypeOK => DOMAIN calls \subseteq Regs
  BY BoundsAssumption DEF TypeOK, Regs

\* The table, the copies and the removal lists start empty.
LEMMA ServedInit == Init => ServedInv
  BY DEF Init, ServedInv, KnownEntries, KnownCopies, RunBeforeRemoved, SoleRegistrationServed,
     IdleRun, Tasks, NoReg

\* Every pair of the table or of a copy is a registration under its own key.
LEMMA KnownStep ==
    TypeOK /\ KnownEntries /\ KnownCopies /\ [Next]_vars => KnownEntries' /\ KnownCopies'
<1> SUFFICES ASSUME TypeOK, KnownEntries, KnownCopies, [Next]_vars
             PROVE  KnownEntries' /\ KnownCopies'
  OBVIOUS
<1> USE DEF KnownEntries, KnownCopies
\* Steps that register nothing and copy nothing new.
<1>0. ASSUME UNCHANGED calls,
             \A k \in Keys : registeredEntries'[k] \in {NoReg, registeredEntries[k]},
             \A t \in Tasks : mon'[t].copy \subseteq mon[t].copy
      PROVE  KnownEntries' /\ KnownCopies'
  BY <1>0
<1>1. ASSUME NEW t \in Tasks, MonitorSnapshot(t) PROVE KnownEntries' /\ KnownCopies'
  <2>1. UNCHANGED <<calls, registeredEntries>>
    BY <1>1 DEF MonitorSnapshot, clock
  <2>2. ASSUME NEW s \in Tasks, NEW e \in mon'[s].copy PROVE e[2] \in DOMAIN calls /\ calls[e[2]] = e[1]
    <3>1. CASE s = t
      <4>1. e \in Entries
        BY <1>1, <2>2, <3>1 DEF MonitorSnapshot, TypeOK
      <4> QED
        BY <4>1 DEF Entries, Pairs, Regs, NoReg
    <3>2. CASE s # t
      BY <1>1, <2>2, <3>2 DEF MonitorSnapshot, TypeOK
    <3> QED
      BY <3>1, <3>2
  <2> QED
    BY <2>1, <2>2
<1>2. ASSUME NEW t \in Tasks,
             MonitorBegin(t) \/ MonitorIdle(t) \/ MonitorClock(t) \/ MonitorRun(t)
               \/ MonitorRunThrows(t) \/ MonitorRemove(t) \/ MonitorDispatch(t) \/ MonitorNotify(t)
      PROVE  KnownEntries' /\ KnownCopies'
  <2>1. UNCHANGED calls
    BY <1>2 DEF MonitorBegin, MonitorIdle, MonitorClock, MonitorRun, MonitorRunThrows,
       MonitorRemove, MonitorDispatch, MonitorNotify, clock
  <2>2. \A k \in Keys : registeredEntries'[k] \in {NoReg, registeredEntries[k]}
    BY <1>2 DEF MonitorBegin, MonitorIdle, MonitorClock, MonitorRun, MonitorRunThrows,
       MonitorRemove, MonitorDispatch, MonitorNotify, table
  <2>3. \A s \in Tasks : mon'[s].copy \subseteq mon[s].copy
    <3> USE DEF TypeOK, MonitorRecord, IdleRun
    <3>1. CASE MonitorBegin(t) \/ MonitorIdle(t) \/ MonitorRunThrows(t) \/ MonitorRemove(t)
                 \/ MonitorDispatch(t) \/ MonitorNotify(t)
      BY <3>1 DEF MonitorBegin, MonitorIdle, MonitorRunThrows, MonitorRemove, MonitorDispatch,
         MonitorNotify
    <3>2. CASE MonitorClock(t)
      BY <3>2 DEF MonitorClock
    <3>3. CASE MonitorRun(t)
      BY <3>3 DEF MonitorRun
    <3> QED
      BY <1>2, <3>1, <3>2, <3>3
  <2> QED
    BY <2>1, <2>2, <2>3, <1>0
<1>3. ASSUME NEW c \in Callers, NEW k \in Keys, RegisterEntry(c, k)
      PROVE  KnownEntries' /\ KnownCopies'
  <2>1. PutEntry(k) /\ UNCHANGED mon
    BY <1>3 DEF RegisterEntry, PutEntry
  <2>2. registeredEntries' = [registeredEntries EXCEPT ![k] = Len(calls) + 1]
    BY <2>1 DEF PutEntry
  <2> QED
    BY <2>1, <2>2, PutCalls DEF TypeOK
<1>4. ASSUME NEW c \in Callers, NEW k \in Keys, InterruptEntry(c, k)
      PROVE  KnownEntries' /\ KnownCopies'
  BY <1>4, <1>0 DEF InterruptEntry, TypeOK, clock
<1>5. ASSUME NEW c \in Callers, Finish(c) PROVE KnownEntries' /\ KnownCopies'
  BY <1>5, <1>0 DEF Finish, InterruptRun, InterruptDispatch, clock, table
<1>6. ASSUME Dispose PROVE KnownEntries' /\ KnownCopies'
  BY <1>6, <1>0 DEF Dispose, clock
<1>7. ASSUME NEW r \in Regs, Elapse(r) PROVE KnownEntries' /\ KnownCopies'
  BY <1>7, <1>0 DEF Elapse, table
<1>8. CASE UNCHANGED vars
  BY <1>8, <1>0 DEF vars
<1> QED
  BY <1>1, <1>2, <1>3, <1>4, <1>5, <1>6, <1>7, <1>8 DEF Next, Monitor, MonitorScan

\* What was registered stays registered under its key, what was run stays run.
LEMMA HistoryGrows ==
  ASSUME TypeOK, [Next]_vars, NEW r \in DOMAIN calls
  PROVE  /\ r \in DOMAIN calls' /\ calls'[r] = calls[r]
         /\ monitorRuns[r] > 0 => monitorRuns'[r] > 0
         /\ interruptRuns[r] > 0 => interruptRuns'[r] > 0
<1>0. r \in Regs /\ monitorRuns[r] \in Nat /\ interruptRuns[r] \in Nat
  BY CallsAreRegs DEF TypeOK
<1>1. ASSUME NEW t \in Tasks, MonitorRun(t) \/ MonitorRunThrows(t)
      PROVE  (monitorRuns[r] > 0 => monitorRuns'[r] > 0) /\ UNCHANGED <<calls, interruptRuns>>
  <2>1. PICK e \in mon[t].copy : monitorRuns' = [monitorRuns EXCEPT ![e[2]] = Tally(@)]
    BY <1>1 DEF MonitorRun, MonitorRunThrows
  <2>2. monitorRuns'[r] = monitorRuns[r] \/ monitorRuns'[r] = Tally(monitorRuns[r])
    BY <2>1, <1>0 DEF TypeOK
  <2> QED
    BY <1>0, <1>1, <2>2 DEF Tally, MonitorRun, MonitorRunThrows, clock
<1>2. ASSUME NEW c \in Callers, InterruptRun(c)
      PROVE  (interruptRuns[r] > 0 => interruptRuns'[r] > 0) /\ UNCHANGED <<calls, monitorRuns>>
  <2>1. interruptRuns'[r] \in {interruptRuns[r], Tally(interruptRuns[r])}
    BY <1>0, <1>2 DEF InterruptRun
  <2> QED
    BY <1>0, <1>2, <2>1 DEF Tally, InterruptRun, clock
<1>3. ASSUME NEW c \in Callers, NEW k \in Keys, RegisterEntry(c, k)
      PROVE  r \in DOMAIN calls' /\ calls'[r] = calls[r] /\ UNCHANGED <<monitorRuns, interruptRuns>>
  <2>1. PutEntry(k)
    BY <1>3 DEF RegisterEntry
  <2> QED
    BY <2>1, PutCalls DEF PutEntry, runs
<1>4. ASSUME NEW t \in Tasks,
             MonitorBegin(t) \/ MonitorIdle(t) \/ MonitorSnapshot(t) \/ MonitorClock(t)
               \/ MonitorRemove(t) \/ MonitorDispatch(t) \/ MonitorNotify(t)
      PROVE  UNCHANGED <<calls, monitorRuns, interruptRuns>>
  BY <1>4 DEF MonitorBegin, MonitorIdle, MonitorSnapshot, MonitorClock, MonitorRemove,
     MonitorDispatch, MonitorNotify, clock, runs
<1>5. ASSUME NEW c \in Callers, NEW k \in Keys, InterruptEntry(c, k)
      PROVE  UNCHANGED <<calls, monitorRuns, interruptRuns>>
  BY <1>5 DEF InterruptEntry, clock, runs
<1>6. ASSUME NEW c \in Callers, InterruptDispatch(c)
      PROVE  UNCHANGED <<calls, monitorRuns, interruptRuns>>
  BY <1>6 DEF InterruptDispatch, clock, runs
<1>7. ASSUME Dispose \/ (\E s \in Regs : Elapse(s)) \/ UNCHANGED vars
      PROVE  UNCHANGED <<calls, monitorRuns, interruptRuns>>
  BY <1>7 DEF Dispose, Elapse, vars, clock, runs
<1> QED
  BY <1>1, <1>2, <1>3, <1>4, <1>5, <1>6, <1>7 DEF Next, Monitor, MonitorScan, Finish

\* A key enters the removal list of a run when the action of one of its
\* registrations has just been run.
LEMMA RemovedStep ==
    TypeOK /\ KnownCopies /\ RunBeforeRemoved /\ [Next]_vars => RunBeforeRemoved'
<1> SUFFICES ASSUME TypeOK, KnownCopies, RunBeforeRemoved, [Next]_vars,
                    NEW t \in Tasks, NEW k \in mon'[t].toRemove
             PROVE  \E r \in DOMAIN calls' : calls'[r] = k /\ monitorRuns'[r] > 0
  BY DEF RunBeforeRemoved
<1>1. CASE k \in mon[t].toRemove
  <2>1. PICK r \in DOMAIN calls : calls[r] = k /\ monitorRuns[r] > 0
    BY <1>1 DEF RunBeforeRemoved
  <2> QED
    BY <2>1, HistoryGrows
<1>2. CASE k \notin mon[t].toRemove
  <2>1. MonitorRun(t)
    <3>1. ASSUME NEW s \in Tasks,
                 MonitorBegin(s) \/ MonitorIdle(s) \/ MonitorSnapshot(s) \/ MonitorRunThrows(s)
                   \/ MonitorRemove(s) \/ MonitorDispatch(s) \/ MonitorNotify(s)
          PROVE  FALSE
      <4> USE DEF TypeOK, MonitorRecord, IdleRun
      <4>1. CASE MonitorBegin(s)
        BY <1>2, <4>1 DEF MonitorBegin
      <4>2. CASE MonitorIdle(s) \/ MonitorSnapshot(s) \/ MonitorRunThrows(s)
        BY <1>2, <4>2 DEF MonitorIdle, MonitorSnapshot, MonitorRunThrows
      <4>3. CASE MonitorRemove(s)
        BY <1>2, <4>3 DEF MonitorRemove
      <4>4. CASE MonitorDispatch(s)
        BY <1>2, <4>4 DEF MonitorDispatch
      <4>5. CASE MonitorNotify(s)
        BY <1>2, <4>5 DEF MonitorNotify
      <4> QED
        BY <3>1, <4>1, <4>2, <4>3, <4>4, <4>5
    <3>2. ASSUME NEW s \in Tasks, MonitorClock(s) PROVE FALSE
      BY <1>2, <3>2 DEF MonitorClock, TypeOK, MonitorRecord
    <3>3. ASSUME NEW s \in Tasks, s # t, MonitorRun(s) PROVE FALSE
      BY <1>2, <3>3 DEF MonitorRun, TypeOK, MonitorRecord
    <3>4. ASSUME UNCHANGED mon PROVE FALSE
      BY <1>2, <3>4
    <3>5. \/ \E s \in Tasks : Monitor(s)
          \/ UNCHANGED mon
      BY DEF Next, Finish, RegisterEntry, PutEntry, InterruptEntry, InterruptRun,
         InterruptDispatch, Dispose, Elapse, vars
    <3> QED
      BY <3>1, <3>2, <3>3, <3>4, <3>5 DEF Monitor, MonitorScan
  <2>2. PICK e \in mon[t].copy :
           /\ monitorRuns' = [monitorRuns EXCEPT ![e[2]] = Tally(@)]
           /\ mon' = [mon EXCEPT ![t].copy = @ \ {e}, ![t].toRemove = @ \union {e[1]}]
    BY <2>1 DEF MonitorRun
  <2>3. k = e[1]
    BY <1>2, <2>2 DEF TypeOK, MonitorRecord
  <2>4. e[2] \in DOMAIN calls /\ calls[e[2]] = k
    BY <2>3 DEF KnownCopies
  <2>5. e[2] \in Regs /\ monitorRuns[e[2]] \in Nat
    BY <2>4, CallsAreRegs DEF TypeOK
  <2>6. monitorRuns'[e[2]] > 0
    BY <2>2, <2>5 DEF TypeOK, Tally
  <2> QED
    BY <2>4, <2>6, HistoryGrows
<1> QED
  BY <1>1, <1>2

\* Who has served a registration, or undertaken to, stays so.
LEMMA ServedStays ==
  ASSUME TypeOK, [Next]_vars, NEW r \in DOMAIN calls, Served(r)
  PROVE  Served(r)'
<1>0. r \in Regs /\ interruptRuns[r] \in Nat
  BY CallsAreRegs DEF TypeOK
<1>1. CASE monitorRuns[r] > 0 \/ interruptRuns[r] > 0
  BY <1>1, HistoryGrows DEF Served
<1>2. ASSUME NEW c \in Callers, caller[c].pc = "run", NEW e \in caller[c].entry, e[2] = r
      PROVE  Served(r)'
  <2>1. CASE caller'[c] = caller[c]
    BY <1>2, <2>1 DEF Served
  <2>2. CASE InterruptRun(c)
    <3>1. interruptRuns'[r] = Tally(interruptRuns[r])
      BY <1>0, <1>2, <2>2 DEF InterruptRun
    <3> QED
      BY <1>0, <3>1 DEF Tally, Served
  <2>3. caller'[c] = caller[c] \/ InterruptRun(c)
    <3>1. ASSUME NEW d \in Callers, d # c, InterruptRun(d) PROVE caller'[c] = caller[c]
      BY <3>1 DEF InterruptRun, TypeOK
    <3>2. ASSUME NEW d \in Callers, NEW k \in Keys, InterruptEntry(d, k) PROVE caller'[c] = caller[c]
      BY <1>2, <3>2 DEF InterruptEntry, TypeOK
    <3>3. ASSUME NEW d \in Callers, InterruptDispatch(d) PROVE caller'[c] = caller[c]
      BY <1>2, <3>3 DEF InterruptDispatch, TypeOK
    <3>4. ASSUME NEW t \in Tasks, Monitor(t) PROVE caller' = caller
      BY <3>4 DEF Monitor, MonitorScan, MonitorBegin, MonitorIdle, MonitorSnapshot, MonitorClock,
         MonitorRun, MonitorRunThrows, MonitorRemove, MonitorDispatch, MonitorNotify
    <3>5. ASSUME NEW d \in Callers, NEW k \in Keys, RegisterEntry(d, k) PROVE caller' = caller
      BY <3>5 DEF RegisterEntry
    <3>6. ASSUME Dispose \/ (\E s \in Regs : Elapse(s)) \/ UNCHANGED vars PROVE caller' = caller
      BY <3>6 DEF Dispose, Elapse, vars
    <3> QED
      BY <3>1, <3>2, <3>3, <3>4, <3>5, <3>6 DEF Next, Finish
  <2> QED
    BY <2>1, <2>2, <2>3
<1> QED
  BY <1>1, <1>2 DEF Served

\* A registration whose key is used once leaves the table only once it is
\* served: in particular the removal by key takes away nothing else.
LEMMA SoleStep == TypeOK /\ ServedInv /\ [Next]_vars => SoleRegistrationServed'
<1> SUFFICES ASSUME TypeOK, ServedInv, [Next]_vars, listening',
                    NEW r \in DOMAIN calls',
                    \A s \in DOMAIN calls' : calls'[s] = calls'[r] => s = r
             PROVE  registeredEntries'[calls'[r]] = r \/ Served(r)'
  BY DEF SoleRegistrationServed
<1>1. CASE r \notin DOMAIN calls
  <2>1. PICK c \in Callers, k \in Keys : RegisterEntry(c, k)
    <3>1. calls' # calls
      BY <1>1
    <3> QED
      BY <3>1 DEF Next, Finish, Monitor, MonitorScan, MonitorBegin, MonitorIdle, MonitorSnapshot,
         MonitorClock, MonitorRun, MonitorRunThrows, MonitorRemove, MonitorDispatch, MonitorNotify,
         InterruptEntry, InterruptRun, InterruptDispatch, Dispose, Elapse, vars, clock
  <2>2. r = Len(calls) + 1 /\ calls'[r] = k
    BY <1>1, <2>1, PutCalls DEF RegisterEntry
  <2> QED
    BY <2>1, <2>2 DEF RegisterEntry, PutEntry, TypeOK
<1>2. CASE r \in DOMAIN calls
  <2>0. r \in Regs /\ calls[r] \in Keys /\ calls'[r] = calls[r]
    BY <1>2, CallsAreRegs, HistoryGrows DEF TypeOK
  <2>1. listening
    BY DEF Next, Finish, Monitor, MonitorScan, MonitorBegin, MonitorIdle, MonitorSnapshot,
       MonitorClock, MonitorRun, MonitorRunThrows, MonitorRemove, MonitorDispatch, MonitorNotify,
       RegisterEntry, PutEntry, InterruptEntry, InterruptRun, InterruptDispatch, Dispose, Elapse,
       vars, table
  <2>2. \A s \in DOMAIN calls : calls[s] = calls[r] => s = r
    BY <1>2, HistoryGrows
  <2>3. registeredEntries[calls[r]] = r \/ Served(r)
    BY <1>2, <2>1, <2>2 DEF ServedInv, SoleRegistrationServed
  <2>4. CASE Served(r)
    BY <1>2, <2>4, ServedStays
  <2>5. CASE registeredEntries[calls[r]] = r /\ registeredEntries'[calls[r]] # r
    <3>1. ASSUME NEW t \in Tasks, MonitorRemove(t) PROVE Served(r)
      <4>1. calls[r] \in mon[t].toRemove
        BY <2>0, <2>5, <3>1 DEF MonitorRemove
      <4>2. PICK s \in DOMAIN calls : calls[s] = calls[r] /\ monitorRuns[s] > 0
        BY <4>1 DEF ServedInv, RunBeforeRemoved
      <4> QED
        BY <2>2, <4>2 DEF Served
    <3>2. ASSUME NEW c \in Callers, NEW k \in Keys, InterruptEntry(c, k) PROVE Served(r)'
      <4>1. k = calls[r]
        BY <2>5, <3>2 DEF InterruptEntry, TypeOK
      <4>2. <<k, r>> \in Entries
        BY <2>0, <2>5, <4>1 DEF Entries, Pairs
      <4>3. caller'[c].pc = "run" /\ <<k, r>> \in caller'[c].entry
        BY <3>2, <4>2 DEF InterruptEntry, TypeOK
      <4> QED
        BY <4>3 DEF Served
    <3>3. ASSUME NEW c \in Callers, NEW k \in Keys, RegisterEntry(c, k) PROVE FALSE
      <4>1. k = calls[r]
        BY <2>5, <3>3 DEF RegisterEntry, PutEntry, TypeOK
      <4> QED
        BY <1>2, <2>0, <3>3, <4>1, PutCalls DEF RegisterEntry
    <3>4. ASSUME NEW t \in Tasks,
                 MonitorBegin(t) \/ MonitorIdle(t) \/ MonitorSnapshot(t) \/ MonitorClock(t)
                   \/ MonitorRun(t) \/ MonitorRunThrows(t) \/ MonitorDispatch(t) \/ MonitorNotify(t)
          PROVE  UNCHANGED registeredEntries
      BY <3>4 DEF MonitorBegin, MonitorIdle, MonitorSnapshot, MonitorClock, MonitorRun,
         MonitorRunThrows, MonitorDispatch, MonitorNotify, table
    <3>5. ASSUME NEW c \in Callers, Finish(c) PROVE UNCHANGED registeredEntries
      BY <3>5 DEF Finish, InterruptRun, InterruptDispatch, table
    <3>6. ASSUME (\E s \in Regs : Elapse(s)) \/ UNCHANGED vars PROVE UNCHANGED registeredEntries
      BY <3>6 DEF Elapse, vars, table
    <3>7. ~Dispose
      BY DEF Dispose
    <3> QED
      BY <1>2, <2>5, <3>1, <3>2, <3>3, <3>4, <3>5, <3>6, <3>7, ServedStays
         DEF Next, Monitor, MonitorScan
  <2> QED
    BY <2>0, <2>3, <2>4, <2>5
<1> QED
  BY <1>1, <1>2

\* Whatever is registered again, throws or is shut down meanwhile: a
\* registration whose key is used once is in the table until somebody has run
\* its action or undertaken to.
THEOREM NoneDropped == Spec => []SoleRegistrationServed
<1>1. Init => ServedInv
  BY ServedInit
<1>2. TypeOK /\ ServedInv /\ [Next]_vars => ServedInv'
  BY KnownStep, RemovedStep, SoleStep DEF ServedInv
<1>3. ServedInv => SoleRegistrationServed
  BY DEF ServedInv
<1> QED
  BY <1>1, <1>2, <1>3, TypeCorrect, PTL DEF Spec

-----------------------------------------------------------------------------
(***************************************************************************)
(* No action is run twice by the same side.                                *)
(*                                                                         *)
(* For handlers this is the lock: an entry taken out of the table belongs  *)
(* to the one handler that took it (TakenOut, OneTaker), through anything. *)
(*                                                                         *)
(* For monitors it is not: an action that was run stays in the table until *)
(* its run ends.  What makes it right before a shutdown is that one run at *)
(* a time is under way (OneRun), the idle countdown being the only one to  *)
(* cancel a task, so that an entry already run is on the removal list of   *)
(* the only run there is (RunIsBeingRemoved) and is in no other copy       *)
(* (FreshCopies).  A throwing action breaks this: the list is lost.        *)
(***************************************************************************)

Pending(c, r) == caller[c].pc = "run" /\ \E e \in caller[c].entry : e[2] = r

NewNotInterrupted == \A r \in Regs \ DOMAIN calls : interruptRuns[r] = 0

TakenOut ==
    \A c \in Callers, r \in Regs : Pending(c, r) =>
        r \in DOMAIN calls /\ interruptRuns[r] = 0 /\ \A k \in Keys : registeredEntries[k] # r

OneTaker == \A c, d \in Callers, r \in Regs : Pending(c, r) /\ Pending(d, r) => c = d

FreshEntries == \A k \in Keys : registeredEntries[k] # NoReg => interruptRuns[registeredEntries[k]] = 0

InterruptInv == NewNotInterrupted /\ TakenOut /\ OneTaker /\ FreshEntries /\ InterruptedOnce

-----------------------------------------------------------------------------
\* No handler has taken anything out at the start.
LEMMA InterruptInit == Init => InterruptInv
  BY BoundsAssumption DEF Init, InterruptInv, NewNotInterrupted, TakenOut, OneTaker, FreshEntries,
     InterruptedOnce, Pending, IdleCaller, NoReg, Regs

\* An entry belongs to the handler that took it out, which runs it once.
LEMMA InterruptStep == TypeOK /\ KnownEntries /\ InterruptInv /\ [Next]_vars => InterruptInv'
<1> SUFFICES ASSUME TypeOK, KnownEntries, InterruptInv, [Next]_vars
             PROVE  InterruptInv'
  OBVIOUS
<1> USE DEF InterruptInv
\* Steps that take nothing out and run nothing for a handler.
<1>0. ASSUME UNCHANGED <<calls, caller, interruptRuns>>,
             \A k \in Keys : registeredEntries'[k] \in {NoReg, registeredEntries[k]}
      PROVE  InterruptInv'
  BY <1>0 DEF NewNotInterrupted, TakenOut, OneTaker, FreshEntries, InterruptedOnce, Pending,
     NoReg, Regs, KnownEntries
<1>1. ASSUME NEW t \in Tasks, Monitor(t) PROVE InterruptInv'
  <2>1. UNCHANGED <<calls, caller, interruptRuns>>
    BY <1>1 DEF Monitor, MonitorScan, MonitorBegin, MonitorIdle, MonitorSnapshot, MonitorClock,
       MonitorRun, MonitorRunThrows, MonitorRemove, MonitorDispatch, MonitorNotify, clock, runs
  <2>2. \A k \in Keys : registeredEntries'[k] \in {NoReg, registeredEntries[k]}
    BY <1>1 DEF Monitor, MonitorScan, MonitorBegin, MonitorIdle, MonitorSnapshot, MonitorClock,
       MonitorRun, MonitorRunThrows, MonitorRemove, MonitorDispatch, MonitorNotify, table
  <2> QED
    BY <2>1, <2>2, <1>0
<1>2. ASSUME NEW c \in Callers, NEW k \in Keys, RegisterEntry(c, k) PROVE InterruptInv'
  <2>1. PutEntry(k) /\ UNCHANGED <<caller, interruptRuns>>
    BY <1>2 DEF RegisterEntry, PutEntry, runs
  <2>2. registeredEntries' = [registeredEntries EXCEPT ![k] = Len(calls) + 1]
    BY <2>1 DEF PutEntry
  <2>3. NewNotInterrupted' /\ OneTaker' /\ InterruptedOnce'
    BY <2>1, PutCalls DEF NewNotInterrupted, OneTaker, InterruptedOnce, Pending
  <2>4. TakenOut'
    BY <2>1, <2>2, PutCalls DEF TakenOut, Pending, TypeOK
  <2>5. FreshEntries'
    BY <2>1, <2>2, PutCalls DEF FreshEntries, NewNotInterrupted, TypeOK
  <2> QED
    BY <2>3, <2>4, <2>5
<1>3. ASSUME NEW c \in Callers, NEW k \in Keys, InterruptEntry(c, k) PROVE InterruptInv'
  <2>1. /\ UNCHANGED <<calls, interruptRuns>>
        /\ registeredEntries' = [registeredEntries EXCEPT ![k] = NoReg]
        /\ caller' = [caller EXCEPT ![c] = [pc |-> "run", entry |-> {e \in Entries : e[1] = k}]]
    BY <1>3 DEF InterruptEntry, clock, runs
  <2>2. NewNotInterrupted' /\ InterruptedOnce'
    BY <2>1 DEF NewNotInterrupted, InterruptedOnce
  <2>3. FreshEntries'
    BY <2>1 DEF FreshEntries, TypeOK
  <2>4. ASSUME NEW r \in Regs, Pending(c, r)'
        PROVE  r = registeredEntries[k] /\ r # NoReg
    BY <2>1, <2>4 DEF Pending, Entries, Pairs, TypeOK, Regs, NoReg
  <2>5. ASSUME NEW d \in Callers, d # c, NEW r \in Regs, Pending(d, r)'
        PROVE  Pending(d, r)
    BY <2>1, <2>5 DEF Pending, TypeOK
  <2>6. TakenOut'
    <3> SUFFICES ASSUME NEW d \in Callers, NEW r \in Regs, Pending(d, r)'
                 PROVE  /\ r \in DOMAIN calls' /\ interruptRuns'[r] = 0
                        /\ \A j \in Keys : registeredEntries'[j] # r
      BY DEF TakenOut
    <3>1. CASE d = c
      <4>1. r = registeredEntries[k] /\ r # NoReg
        BY <2>4, <3>1
      <4>2. r \in DOMAIN calls /\ calls[r] = k /\ interruptRuns[r] = 0
        BY <4>1 DEF KnownEntries, FreshEntries
      <4> QED
        BY <2>1, <4>1, <4>2 DEF KnownEntries, TypeOK
    <3>2. CASE d # c
      BY <2>1, <2>5, <3>2 DEF TakenOut, TypeOK, NoReg, Regs
    <3> QED
      BY <3>1, <3>2
  <2>7. OneTaker'
    <3> SUFFICES ASSUME NEW d \in Callers, NEW b \in Callers, NEW r \in Regs,
                        Pending(d, r)', Pending(b, r)', d # b
                 PROVE  FALSE
      BY DEF OneTaker
    <3>1. CASE d # c /\ b # c
      BY <2>5, <3>1 DEF OneTaker
    <3>2. ASSUME NEW a \in Callers, a # c, Pending(a, r)', Pending(c, r)' PROVE FALSE
      BY <2>4, <2>5, <3>2 DEF TakenOut
    <3> QED
      BY <3>1, <3>2
  <2> QED
    BY <2>2, <2>3, <2>6, <2>7
<1>4. ASSUME NEW c \in Callers, InterruptRun(c) PROVE InterruptInv'
  <2>1. /\ UNCHANGED <<calls, registeredEntries>>
        /\ caller[c].pc = "run"
        /\ \A r \in Regs : interruptRuns'[r] = IF Pending(c, r) THEN Tally(interruptRuns[r])
                                                               ELSE interruptRuns[r]
    BY <1>4 DEF InterruptRun, Pending, clock, table
  <2>2. ASSUME NEW r \in Regs PROVE ~Pending(c, r)'
    <3>1. caller'[c].pc # "run"
      <4>1. CASE caller' = [caller EXCEPT ![c].pc = "dispatch"]
        BY <4>1 DEF TypeOK, CallerRecord
      <4>2. CASE caller' = [caller EXCEPT ![c] = IdleCaller]
        BY <4>2 DEF TypeOK, IdleCaller
      <4> QED
        BY <1>4, <4>1, <4>2 DEF InterruptRun
    <3> QED
      BY <3>1 DEF Pending
  <2>3. ASSUME NEW d \in Callers, d # c, NEW r \in Regs PROVE Pending(d, r)' = Pending(d, r)
    BY <1>4, <2>3 DEF InterruptRun, Pending, TypeOK
  <2>4. NewNotInterrupted'
    BY <2>1 DEF NewNotInterrupted, TakenOut
  <2>5. TakenOut' /\ OneTaker'
    BY <2>1, <2>2, <2>3 DEF TakenOut, OneTaker
  <2>6. FreshEntries'
    BY <2>1 DEF FreshEntries, TakenOut, TypeOK
  <2>7. InterruptedOnce'
    BY <2>1 DEF InterruptedOnce, TakenOut, Tally
  <2> QED
    BY <2>4, <2>5, <2>6, <2>7
<1>5. ASSUME NEW c \in Callers, InterruptDispatch(c) PROVE InterruptInv'
  <2>1. UNCHANGED <<calls, registeredEntries, interruptRuns>>
    BY <1>5 DEF InterruptDispatch, clock, table, runs
  <2>2. \A d \in Callers, r \in Regs : Pending(d, r)' => Pending(d, r)
    BY <1>5 DEF InterruptDispatch, Pending, TypeOK, IdleCaller
  <2> QED
    BY <2>1, <2>2 DEF NewNotInterrupted, TakenOut, OneTaker, FreshEntries, InterruptedOnce
<1>6. ASSUME Dispose PROVE InterruptInv'
  BY <1>6, <1>0 DEF Dispose, clock, runs
<1>7. ASSUME NEW r \in Regs, Elapse(r) PROVE InterruptInv'
  BY <1>7, <1>0 DEF Elapse, table, runs
<1>8. CASE UNCHANGED vars
  BY <1>8, <1>0 DEF vars
<1> QED
  BY <1>1, <1>2, <1>3, <1>4, <1>5, <1>6, <1>7, <1>8 DEF Next, Finish

\* Handlers that interrupt the same key at the same time run its action once,
\* with keys registered again, actions that throw and a shutdown at any moment.
THEOREM InterruptedAtMostOnce == Spec => []InterruptedOnce
<1> DEFINE Inv == KnownEntries /\ KnownCopies /\ InterruptInv
<1>1. Init => Inv
  BY ServedInit, InterruptInit DEF ServedInv
<1>2. TypeOK /\ Inv /\ [Next]_vars => Inv'
  BY KnownStep, InterruptStep
<1>3. Inv => InterruptedOnce
  BY DEF InterruptInv
<1> QED
  BY <1>1, <1>2, <1>3, TypeCorrect, PTL DEF Spec

-----------------------------------------------------------------------------
NewNotRun == \A r \in Regs \ DOMAIN calls : monitorRuns[r] = 0

OneRun == \A t \in Tasks : mon[t].pc # "idle" => schedulerTask = t

FreshCopies ==
    \A t \in Tasks : mon[t].pc \in {"clock", "run"} =>
        \A e \in mon[t].copy : monitorRuns[e[2]] = 0

RunIsBeingRemoved ==
    \A k \in Keys : registeredEntries[k] # NoReg /\ monitorRuns[registeredEntries[k]] > 0 =>
        \E t \in Tasks : mon[t].pc = "run" /\ k \in mon[t].toRemove

RunOnce == \A r \in Regs : monitorRuns[r] <= 1

MonitorInv ==
    NewNotRun /\ (listening => OneRun /\ FreshCopies /\ RunIsBeingRemoved /\ RunOnce)

\* No monitor has run at the start.
LEMMA MonitorInit == Init => MonitorInv
  BY BoundsAssumption DEF Init, MonitorInv, NewNotRun, OneRun, FreshCopies, RunIsBeingRemoved,
     RunOnce, IdleRun, NoReg, Regs

\* What has not been registered has not been run.
LEMMA NewNotRunStep == TypeOK /\ KnownCopies /\ NewNotRun /\ [Next]_vars => NewNotRun'
<1> SUFFICES ASSUME TypeOK, KnownCopies, NewNotRun, [Next]_vars PROVE NewNotRun'
  OBVIOUS
<1> USE DEF NewNotRun
<1>1. ASSUME NEW t \in Tasks, MonitorRun(t) \/ MonitorRunThrows(t) PROVE NewNotRun'
  <2>1. PICK e \in mon[t].copy : monitorRuns' = [monitorRuns EXCEPT ![e[2]] = Tally(@)]
    BY <1>1 DEF MonitorRun, MonitorRunThrows
  <2>2. e[2] \in DOMAIN calls /\ UNCHANGED calls
    BY <1>1 DEF KnownCopies, MonitorRun, MonitorRunThrows, clock
  <2> QED
    BY <2>1, <2>2 DEF TypeOK
<1>2. ASSUME NEW c \in Callers, NEW k \in Keys, RegisterEntry(c, k) PROVE NewNotRun'
  <2>1. PutEntry(k) /\ UNCHANGED monitorRuns
    BY <1>2 DEF RegisterEntry, PutEntry, runs
  <2> QED
    BY <2>1, PutCalls
<1>3. ASSUME UNCHANGED <<calls, monitorRuns>> PROVE NewNotRun'
  BY <1>3
<1> QED
  BY <1>1, <1>2, <1>3 DEF Next, Monitor, MonitorScan, MonitorBegin, MonitorIdle, MonitorSnapshot,
     MonitorClock, MonitorRemove, MonitorDispatch, MonitorNotify, InterruptEntry, Finish,
     InterruptRun, InterruptDispatch, Dispose, Elapse, vars, clock, runs

\* One run is under way at a time, and an entry whose action it has run is on
\* its removal list: the next run copies only what has not been run.
LEMMA MonitorStep ==
  ASSUME MayThrow = FALSE, TypeOK, KnownEntries, KnownCopies, MonitorInv, [Next]_vars
  PROVE  MonitorInv'
<1> SUFFICES ASSUME listening'
             PROVE  OneRun' /\ FreshCopies' /\ RunIsBeingRemoved' /\ RunOnce'
  BY NewNotRunStep DEF MonitorInv
<1>0. listening
  BY DEF Next, Finish, Monitor, MonitorScan, MonitorBegin, MonitorIdle, MonitorSnapshot,
     MonitorClock, MonitorRun, MonitorRunThrows, MonitorRemove, MonitorDispatch, MonitorNotify,
     RegisterEntry, PutEntry, InterruptEntry, InterruptRun, InterruptDispatch, Dispose, Elapse,
     vars, table
<1>00. NewNotRun /\ OneRun /\ FreshCopies /\ RunIsBeingRemoved /\ RunOnce
  BY <1>0 DEF MonitorInv
<1> DEFINE Good == OneRun /\ FreshCopies /\ RunIsBeingRemoved /\ RunOnce
\* Steps of handlers and of the clock that add nothing to the table.
<1>1. ASSUME UNCHANGED <<mon, schedulerTask, monitorRuns>>,
             \A k \in Keys : registeredEntries'[k] \in {NoReg, registeredEntries[k]}
      PROVE  Good'
  BY <1>1, <1>00 DEF OneRun, FreshCopies, RunIsBeingRemoved, RunOnce
<1>2. ASSUME NEW c \in Callers, NEW k \in Keys, RegisterEntry(c, k) PROVE Good'
  <2>1. PutEntry(k) /\ UNCHANGED <<mon, monitorRuns>>
    BY <1>2 DEF RegisterEntry, PutEntry, runs
  <2>2. registeredEntries' = [registeredEntries EXCEPT ![k] = Len(calls) + 1]
    BY <2>1 DEF PutEntry
  <2>3. OneRun'
    BY <1>00, <2>1 DEF OneRun, PutEntry, NoTask, Tasks
  <2>4. RunIsBeingRemoved'
    <3>1. Len(calls) + 1 \in Regs \ DOMAIN calls
      BY <2>1, PutCalls
    <3>2. monitorRuns[Len(calls) + 1] = 0
      BY <1>00, <3>1 DEF NewNotRun
    <3> QED
      BY <1>00, <2>1, <2>2, <3>2 DEF RunIsBeingRemoved, TypeOK
  <2> QED
    BY <1>00, <2>1, <2>3, <2>4 DEF FreshCopies, RunOnce
\* A step of the monitor t: no other run is under way.
<1>3. ASSUME NEW t \in Tasks, Monitor(t) PROVE Good'
  <2>1. \A s \in Tasks : s # t => mon[s].pc = "idle"
    <3>1. schedulerTask = t
      BY <1>00, <1>3 DEF OneRun, Monitor, MonitorScan, MonitorBegin, MonitorIdle, MonitorSnapshot,
         MonitorClock, MonitorRun, MonitorRunThrows, MonitorRemove, MonitorDispatch, MonitorNotify
    <3> QED
      BY <1>00, <3>1 DEF OneRun
  <2>2. \A s \in Tasks : s # t => mon'[s].pc = "idle"
    BY <1>3, <2>1 DEF Monitor, MonitorScan, MonitorBegin, MonitorIdle, MonitorSnapshot,
       MonitorClock, MonitorRun, MonitorRunThrows, MonitorRemove, MonitorDispatch, MonitorNotify,
       TypeOK
  <2>3. schedulerTask = t
    BY <1>00, <1>3 DEF OneRun, Monitor, MonitorScan, MonitorBegin, MonitorIdle, MonitorSnapshot,
       MonitorClock, MonitorRun, MonitorRunThrows, MonitorRemove, MonitorDispatch, MonitorNotify
  <2>4. OneRun'
    <3>1. CASE MonitorIdle(t)
      BY <2>2, <3>1 DEF OneRun, MonitorIdle, TypeOK, IdleRun
    <3>2. CASE ~MonitorIdle(t)
      <4>1. UNCHANGED schedulerTask
        BY <1>3, <3>2 DEF Monitor, MonitorScan, MonitorBegin, MonitorSnapshot,
           MonitorClock, MonitorRun, MonitorRunThrows, MonitorRemove, MonitorDispatch,
           MonitorNotify, table
      <4> QED
        BY <2>2, <2>3, <4>1 DEF OneRun
    <3> QED
      BY <3>1, <3>2
  \* Between two runs nothing in the table has been run.
  <2>5. ASSUME mon[t].pc # "run", NEW k \in Keys, registeredEntries[k] # NoReg
        PROVE  monitorRuns[registeredEntries[k]] = 0
    <3>1. registeredEntries[k] \in Regs
      BY <2>5 DEF TypeOK
    <3>2. ~(monitorRuns[registeredEntries[k]] > 0)
      BY <1>00, <2>1, <2>5 DEF RunIsBeingRemoved
    <3>3. monitorRuns[registeredEntries[k]] \in 0..2
      BY <3>1 DEF TypeOK
    <3> QED
      BY <3>2, <3>3
  <2>6. CASE MonitorBegin(t) \/ MonitorIdle(t) \/ MonitorDispatch(t) \/ MonitorNotify(t)
    <3>1. UNCHANGED <<registeredEntries, monitorRuns>> /\ mon[t].pc # "run"
      BY <2>6 DEF MonitorBegin, MonitorIdle, MonitorDispatch, MonitorNotify, table, runs
    <3>2. mon'[t].pc \notin {"clock", "run"}
      <4> USE DEF TypeOK, MonitorRecord, IdleRun
      <4>1. CASE MonitorBegin(t)
        BY <4>1 DEF MonitorBegin
      <4>2. CASE MonitorIdle(t)
        BY <4>2 DEF MonitorIdle
      <4>3. CASE MonitorDispatch(t)
        BY <4>3 DEF MonitorDispatch
      <4>4. CASE MonitorNotify(t)
        BY <4>4 DEF MonitorNotify
      <4> QED
        BY <2>6, <4>1, <4>2, <4>3, <4>4
    <3>3. RunIsBeingRemoved'
      BY <2>5, <3>1 DEF RunIsBeingRemoved
    <3> QED
      BY <1>00, <2>2, <2>4, <3>1, <3>2, <3>3 DEF FreshCopies, RunOnce
  <2>7. CASE MonitorSnapshot(t)
    <3>1. UNCHANGED <<registeredEntries, monitorRuns>> /\ mon[t].pc # "run" /\ mon'[t].copy = Entries
      BY <2>7 DEF MonitorSnapshot, runs, TypeOK
    <3>2. \A e \in Entries : monitorRuns[e[2]] = 0
      BY <2>5, <3>1 DEF Entries, Pairs, Regs, NoReg
    <3>3. FreshCopies'
      BY <2>2, <3>1, <3>2 DEF FreshCopies
    <3>4. RunIsBeingRemoved'
      BY <2>5, <3>1 DEF RunIsBeingRemoved
    <3> QED
      BY <1>00, <2>4, <3>1, <3>3, <3>4 DEF RunOnce
  <2>8. CASE MonitorClock(t)
    <3>1. UNCHANGED <<registeredEntries, monitorRuns>> /\ mon[t].pc = "clock"
      BY <2>8 DEF MonitorClock, table, runs
    <3>2. mon'[t].copy \subseteq mon[t].copy
      BY <2>8 DEF MonitorClock, TypeOK, MonitorRecord
    <3>3. FreshCopies'
      BY <1>00, <2>2, <3>1, <3>2 DEF FreshCopies
    <3>4. RunIsBeingRemoved'
      BY <2>5, <3>1 DEF RunIsBeingRemoved
    <3> QED
      BY <1>00, <2>4, <3>1, <3>3, <3>4 DEF RunOnce
  <2>9. CASE MonitorRun(t)
    <3>1. PICK e \in mon[t].copy :
             /\ monitorRuns' = [monitorRuns EXCEPT ![e[2]] = Tally(@)]
             /\ mon' = [mon EXCEPT ![t].copy = @ \ {e}, ![t].toRemove = @ \union {e[1]}]
      BY <2>9 DEF MonitorRun
    <3>2. /\ e \in Pairs /\ e[2] \in DOMAIN calls /\ calls[e[2]] = e[1]
          /\ e[2] \in Regs /\ monitorRuns[e[2]] = 0 /\ mon[t].pc = "run"
      BY <1>00, <2>9, CallsAreRegs DEF KnownCopies, FreshCopies, MonitorRun, TypeOK, MonitorRecord
    <3>3. monitorRuns' = [monitorRuns EXCEPT ![e[2]] = 1]
      BY <3>1, <3>2 DEF Tally
    <3>4. RunOnce'
      BY <1>00, <3>2, <3>3 DEF RunOnce, TypeOK
    <3>5. /\ mon'[t].pc = "run" /\ mon'[t].copy = mon[t].copy \ {e}
          /\ mon'[t].toRemove = mon[t].toRemove \union {e[1]}
      BY <3>1, <3>2 DEF TypeOK, MonitorRecord
    <3>6. ASSUME NEW f \in mon'[t].copy PROVE monitorRuns'[f[2]] = 0
      <4>1. f \in mon[t].copy /\ f # e /\ f \in Pairs /\ f[2] \in Regs
        BY <3>5, <3>6 DEF TypeOK, MonitorRecord, Pairs
      <4>2. calls[f[2]] = f[1]
        BY <4>1 DEF KnownCopies
      <4>3. f[2] # e[2]
        BY <3>2, <4>1, <4>2 DEF Pairs
      <4> QED
        BY <1>00, <3>2, <3>3, <4>1, <4>3 DEF FreshCopies, TypeOK
    <3>7. FreshCopies'
      BY <2>2, <3>6 DEF FreshCopies
    <3>8. RunIsBeingRemoved'
      <4> SUFFICES ASSUME NEW k \in Keys, registeredEntries'[k] # NoReg,
                          monitorRuns'[registeredEntries'[k]] > 0
                   PROVE  k \in mon'[t].toRemove
        BY <3>5 DEF RunIsBeingRemoved
      <4>1. UNCHANGED registeredEntries /\ registeredEntries[k] \in Regs
        BY <2>9 DEF MonitorRun, table, TypeOK
      <4>2. CASE registeredEntries[k] = e[2]
        BY <3>2, <3>5, <4>1, <4>2 DEF KnownEntries
      <4>3. CASE registeredEntries[k] # e[2]
        <5>1. monitorRuns[registeredEntries[k]] > 0
          BY <3>3, <4>1, <4>3 DEF TypeOK
        <5> QED
          BY <1>00, <2>1, <3>5, <4>1, <5>1 DEF RunIsBeingRemoved
      <4> QED
        BY <4>2, <4>3
    <3> QED
      BY <2>4, <3>4, <3>7, <3>8
  <2>10. CASE MonitorRemove(t)
    <3>1. /\ UNCHANGED monitorRuns
          /\ \A k \in Keys : registeredEntries'[k] =
                                 IF k \in mon[t].toRemove THEN NoReg ELSE registeredEntries[k]
      BY <2>10 DEF MonitorRemove, runs
    <3>2. mon'[t].pc = "dispatch"
      BY <2>10 DEF MonitorRemove, TypeOK, MonitorRecord
    <3>3. RunIsBeingRemoved'
      BY <1>00, <2>1, <3>1 DEF RunIsBeingRemoved
    <3> QED
      BY <1>00, <2>2, <2>4, <3>1, <3>2, <3>3 DEF FreshCopies, RunOnce
  <2> QED
    BY <1>3, <2>6, <2>7, <2>8, <2>9, <2>10 DEF Monitor, MonitorScan, MonitorRunThrows
<1>4. ASSUME NEW c \in Callers, NEW k \in Keys, InterruptEntry(c, k) PROVE Good'
  BY <1>4, <1>1 DEF InterruptEntry, runs, TypeOK
<1>5. ASSUME NEW c \in Callers, Finish(c) PROVE Good'
  BY <1>5, <1>1 DEF Finish, InterruptRun, InterruptDispatch, table, runs
<1>6. ASSUME NEW r \in Regs, Elapse(r) PROVE Good'
  BY <1>6, <1>1 DEF Elapse, table, runs
<1>7. CASE UNCHANGED vars
  BY <1>7, <1>1 DEF vars
<1>8. ~Dispose
  BY DEF Dispose
<1> QED
  BY <1>2, <1>3, <1>4, <1>5, <1>6, <1>7, <1>8 DEF Next

\* Where no action throws, one that stays in the table while it runs is still
\* run once by the monitors at most, until a shutdown.
THEOREM MonitoredAtMostOnce ==
  ASSUME MayThrow = FALSE
  PROVE  Spec => []MonitoredOnce
<1> DEFINE Inv == KnownEntries /\ KnownCopies /\ MonitorInv
<1>1. Init => Inv
  BY ServedInit, MonitorInit DEF ServedInv
<1>2. TypeOK /\ Inv /\ [Next]_vars => Inv'
  BY KnownStep, MonitorStep
<1>3. Inv => MonitoredOnce
  BY DEF MonitorInv, RunOnce, MonitoredOnce
<1> QED
  BY <1>1, <1>2, <1>3, TypeCorrect, PTL DEF Spec

-----------------------------------------------------------------------------
(***************************************************************************)
(* The animation scheduler is used as BaseScheduler is meant to be         *)
(* (AnimIsBase), so what is proved above holds of it.  What is added is    *)
(* one lock and one set: a mob is held from its registration until a       *)
(* monitor that removed its entry tells the listener (HeldUntilReleased),  *)
(* and while it is held it is not registered again, so that whatever a     *)
(* monitor remembers of it is still so (CopiesInTable) and its time was    *)
(* over (ReleasesAreOver).                                                 *)
(***************************************************************************)
\* On animation, or about to be.
Held(m) == m \in onAnimationMobs \/ Adding(m)

-----------------------------------------------------------------------------
(* The inductive invariant.                                                *)

\* animationLock is held from the look at the set until the mob is in it.
Locking ==
    /\ onAnimationMobs \subseteq Keys /\ animationLock \subseteq Callers
    /\ \A c \in Callers :
          /\ caller[c].pc = "idle"
          /\ c \in animationLock <=> anim[c].pc # "idle"
          /\ anim[c].pc # "idle" => \E m \in Keys : anim[c].mobs = {m}
          /\ anim[c].pc = "register" => \A m \in anim[c].mobs : m \notin onAnimationMobs
    /\ anim \in [Callers -> [pc : {"idle", "register", "add"}, mobs : SUBSET Keys]]
    /\ \A c, d \in animationLock : c = d

\* What the table has of a mob is its latest registration.
LatestInTable == \A m \in Keys : registeredEntries[m] # NoReg => Latest(m) = {registeredEntries[m]}

\* Copies and removal lists are local to a run.
PlacesAt(t) ==
    /\ mon[t].pc \notin {"clock", "run"} => mon[t].copy = {}
    /\ mon[t].pc \notin {"run", "dispatch", "notify"} => mon[t].toRemove = {}

Places == \A t \in Tasks : PlacesAt(t)

\* Of several runs that a shutdown lets overlap one at most tells the listener.
OneNotifier == \A t, u \in Tasks : mon[t].pc = "notify" /\ mon[u].pc = "notify" => t = u

\* What the listener may still be told about is held and its time is over.
ReleasesAreOver ==
    \A t \in Tasks : listening \/ mon[t].pc = "notify" =>
        \A m \in mon[t].toRemove : Held(m) /\ Latest(m) \subseteq due

\* Before a shutdown: what a run remembers is what the table has.
CopiesAt(t) ==
    /\ \A e \in mon[t].copy : /\ registeredEntries[e[1]] = e[2]
                              /\ mon[t].pc = "run" => e[2] \in due
    /\ mon[t].pc = "run" => \A m \in mon[t].toRemove : registeredEntries[m] # NoReg

CopiesInTable == \A t \in Tasks : CopiesAt(t)

\* Before a shutdown: a mob is held as long as it is in the table or on the way
\* from there to the listener, in one of the two.
HeldUntilReleased ==
    \A m \in Keys : /\ Held(m) <=> registeredEntries[m] # NoReg \/ BeingReleased(m)
                    /\ ~(registeredEntries[m] # NoReg /\ BeingReleased(m))

AInv ==
    /\ TypeOK /\ KnownEntries /\ KnownCopies
    /\ Locking /\ LatestInTable /\ due \subseteq DOMAIN calls
    /\ Places /\ OneNotifier /\ ReleasesAreOver
    /\ listening => OneRun /\ CopiesInTable /\ HeldUntilReleased

-----------------------------------------------------------------------------
(* What the steps do to the parts.                                         *)

LEMMA HeldStays == UNCHANGED <<onAnimationMobs, anim>> => \A m : Held(m)' <=> Held(m)
BY DEF Held, Adding

LEMMA LatestStays == UNCHANGED calls => \A m : Latest(m)' = Latest(m)
BY DEF Latest

\* Every step here is one of BaseScheduler.
LEMMA AnimIsBase == Locking /\ [AnimNext]_allVars => [Next]_vars
<1> SUFFICES ASSUME Locking, [AnimNext]_allVars PROVE [Next]_vars
  OBVIOUS
<1>1. ASSUME NEW t \in Tasks, AnimMonitor(t) PROVE Next
  BY <1>1 DEF AnimMonitor, AnimNotify, Next, Monitor
<1>2. ASSUME NEW c \in Callers, AnimRegister(c) PROVE Next
  <2>1. PICK m \in anim[c].mobs : PutEntry(m)
    BY <1>2 DEF AnimRegister
  <2>2. m \in Keys /\ caller[c].pc = "idle"
    BY <2>1 DEF Locking
  <2>3. RegisterEntry(c, m)
    BY <1>2, <2>1, <2>2 DEF RegisterEntry, AnimRegister
  <2> QED BY <2>2, <2>3 DEF Next
<1>3. ASSUME NEW c \in Callers, AnimAdd(c) \/ \E m \in Keys : AnimLock(c, m) PROVE UNCHANGED vars
  BY <1>3 DEF AnimAdd, AnimLock
<1> QED BY <1>1, <1>2, <1>3 DEF AnimNext, AnimStep, Next, allVars

LEMMA BaseSteps ==
  ASSUME AInv, [AnimNext]_allVars
  PROVE  TypeOK' /\ KnownEntries' /\ KnownCopies'
BY AnimIsBase, TypeStep, KnownStep DEF AInv

\* The run of t goes on to pc.
RunMoves(t, pc, copy, toRemove) ==
    /\ mon'[t].pc = pc /\ mon'[t].copy = copy /\ mon'[t].toRemove = toRemove
    /\ \A u \in Tasks \ {t} : mon'[u] = mon[u]

LEMMA RunSteps ==
  ASSUME TypeOK, NEW t \in Tasks
  PROVE  /\ MonitorBegin(t)    => RunMoves(t, "lock", mon[t].copy, mon[t].toRemove)
         /\ MonitorIdle(t)     => RunMoves(t, "idle", {}, {})
         /\ MonitorSnapshot(t) => RunMoves(t, "clock", Entries, {})
         /\ MonitorClock(t) =>
               RunMoves(t, "run", {e \in mon[t].copy : e[2] \in due}, mon[t].toRemove)
         /\ MonitorRun(t) => \E e \in mon[t].copy :
               RunMoves(t, "run", mon[t].copy \ {e}, mon[t].toRemove \union {e[1]})
         /\ MonitorRunThrows(t) => RunMoves(t, "idle", {}, {})
         /\ MonitorRemove(t)   => RunMoves(t, "dispatch", {}, mon[t].toRemove)
         /\ MonitorDispatch(t) => IF listening
                                    THEN RunMoves(t, "notify", mon[t].copy, mon[t].toRemove)
                                    ELSE RunMoves(t, "idle", {}, {})
         /\ MonitorNotify(t)   => RunMoves(t, "idle", {}, {})
<1>0. mon[t] \in MonitorRecord /\ mon \in [Tasks -> MonitorRecord]
  BY DEF TypeOK
<1> USE <1>0 DEF RunMoves, MonitorRecord
<1>1. MonitorBegin(t) => RunMoves(t, "lock", mon[t].copy, mon[t].toRemove)
  BY DEF MonitorBegin
<1>2. ASSUME mon' = [mon EXCEPT ![t] = IdleRun] PROVE RunMoves(t, "idle", {}, {})
  BY <1>2 DEF IdleRun
<1>3. MonitorSnapshot(t) => RunMoves(t, "clock", Entries, {})
  BY DEF MonitorSnapshot
<1>4. MonitorClock(t) => RunMoves(t, "run", {e \in mon[t].copy : e[2] \in due}, mon[t].toRemove)
  BY DEF MonitorClock
<1>5. MonitorRun(t) => \E e \in mon[t].copy :
          RunMoves(t, "run", mon[t].copy \ {e}, mon[t].toRemove \union {e[1]})
  BY DEF MonitorRun
<1>6. MonitorRemove(t) => RunMoves(t, "dispatch", {}, mon[t].toRemove)
  BY DEF MonitorRemove
<1>7. ASSUME MonitorDispatch(t), listening
      PROVE  RunMoves(t, "notify", mon[t].copy, mon[t].toRemove)
  BY <1>7 DEF MonitorDispatch
<1>8. ASSUME MonitorDispatch(t), ~listening PROVE RunMoves(t, "idle", {}, {})
  BY <1>2, <1>8 DEF MonitorDispatch
<1> QED BY <1>1, <1>2, <1>3, <1>4, <1>5, <1>6, <1>7, <1>8
           DEF MonitorIdle, MonitorRunThrows, MonitorNotify

\* Before a shutdown the run of t is the only one.
LEMMA RunsAlone ==
  ASSUME AInv, listening, NEW t \in Tasks, schedulerTask = t \/ mon[t].pc # "idle"
  PROVE  /\ schedulerTask = t
         /\ \A u \in Tasks \ {t} : mon[u].pc = "idle" /\ mon[u].copy = {} /\ mon[u].toRemove = {}
<1>1. schedulerTask = t
  BY DEF AInv, OneRun
<1>2. \A u \in Tasks \ {t} : mon[u].pc = "idle"
  BY <1>1 DEF AInv, OneRun
<1> QED BY <1>1, <1>2 DEF AInv, Places, PlacesAt

\* The removal list of t is on its way to the listener.
Releasing(t, m) == mon[t].pc \in {"dispatch", "notify"} /\ m \in mon[t].toRemove

\* A step of a run that the listener is not told about.
LEMMA ScanFrame ==
  ASSUME AInv, TypeOK', KnownEntries', KnownCopies', NEW t \in Tasks,
         \A u \in Tasks \ {t} : mon'[u] = mon[u],
         UNCHANGED <<animation, calls, due, caller, listening>>,
         \A k \in Keys : registeredEntries'[k] \in {NoReg, registeredEntries[k]},
         schedulerTask = t \/ mon[t].pc # "idle",
         PlacesAt(t)',
         mon'[t].pc = "notify" => listening,
         listening =>
            /\ schedulerTask' = schedulerTask \/ mon'[t].pc = "idle"
            /\ CopiesAt(t)'
            /\ \A m \in mon'[t].toRemove : Held(m) /\ Latest(m) \subseteq due
            /\ \A m \in Keys :
                  /\ registeredEntries'[m] # NoReg \/ Releasing(t, m)'
                        <=> registeredEntries[m] # NoReg \/ Releasing(t, m)
                  /\ ~(registeredEntries'[m] # NoReg /\ Releasing(t, m)')
  PROVE  AInv'
<1>1. \A m : (Held(m)' <=> Held(m)) /\ Latest(m)' = Latest(m)
  BY HeldStays, LatestStays DEF animation
<1>2. Locking' /\ due' \subseteq DOMAIN calls'
  BY DEF AInv, Locking, animation
<1>3. LatestInTable'
  BY <1>1 DEF AInv, LatestInTable
<1>4. Places'
  BY DEF AInv, Places, PlacesAt
<1>5. CASE ~listening
  <2>1. OneNotifier' /\ ReleasesAreOver'
    BY <1>1, <1>5 DEF AInv, OneNotifier, ReleasesAreOver
  <2> QED BY <1>2, <1>3, <1>4, <1>5, <2>1 DEF AInv
<1>6. CASE listening
  <2>1. \A u \in Tasks \ {t} : mon'[u].pc = "idle" /\ mon'[u].copy = {} /\ mon'[u].toRemove = {}
    BY <1>6, RunsAlone
  <2>2. OneNotifier' /\ ReleasesAreOver' /\ CopiesInTable'
    BY <1>1, <1>6, <2>1 DEF OneNotifier, ReleasesAreOver, CopiesInTable, CopiesAt
  <2>3. OneRun'
    BY <1>6, <2>1, RunsAlone DEF OneRun
  <2>4. \A m : (BeingReleased(m) <=> Releasing(t, m)) /\ (BeingReleased(m)' <=> Releasing(t, m)')
    <3>1. \A m : BeingReleased(m) <=> Releasing(t, m)
      BY <1>6, RunsAlone DEF BeingReleased, Releasing
    <3>2. \A m : BeingReleased(m)' <=> Releasing(t, m)'
      BY <2>1 DEF BeingReleased, Releasing
    <3> QED BY <3>1, <3>2
  <2>5. HeldUntilReleased'
    BY <1>1, <1>6, <2>4 DEF AInv, HeldUntilReleased
  <2> QED BY <1>2, <1>3, <1>4, <1>6, <2>2, <2>3, <2>5 DEF AInv
<1> QED BY <1>5, <1>6

-----------------------------------------------------------------------------
(* The steps of a monitor.                                                 *)

LEMMA ScanKeeps ==
  ASSUME AInv, [AnimNext]_allVars, NEW t \in Tasks, MonitorScan(t), UNCHANGED animation
  PROVE  AInv'
<1>0. TypeOK' /\ KnownEntries' /\ KnownCopies' /\ TypeOK /\ PlacesAt(t)
  BY BaseSteps DEF AInv, Places
<1>1. UNCHANGED <<calls, due, caller, listening>>
  BY DEF MonitorScan, MonitorBegin, MonitorIdle, MonitorSnapshot, MonitorClock, MonitorRun,
     MonitorRunThrows, MonitorRemove, MonitorDispatch, table, clock
<1>2. schedulerTask = t \/ mon[t].pc # "idle"
  BY DEF MonitorScan, MonitorBegin, MonitorIdle, MonitorSnapshot, MonitorClock, MonitorRun,
     MonitorRunThrows, MonitorRemove, MonitorDispatch
<1>3. listening => CopiesAt(t)
  BY DEF AInv, CopiesInTable
<1>4. listening => \A m \in mon[t].toRemove : Held(m) /\ Latest(m) \subseteq due
  BY DEF AInv, ReleasesAreOver
<1>5. listening => \A m \in Keys : /\ ~(registeredEntries[m] # NoReg /\ Releasing(t, m))
                                   /\ registeredEntries[m] # NoReg => Held(m)
  BY DEF AInv, HeldUntilReleased, BeingReleased, Releasing
\* Nothing is taken out of the table, and nothing is on its way to the listener.
<1>6. ASSUME UNCHANGED registeredEntries, schedulerTask' = schedulerTask \/ mon'[t].pc = "idle",
             \A u \in Tasks \ {t} : mon'[u] = mon[u],
             mon[t].pc \notin {"dispatch", "notify"}, mon'[t].pc \notin {"dispatch", "notify"},
             PlacesAt(t)', listening => CopiesAt(t)',
             listening => \A m \in mon'[t].toRemove : Held(m) /\ Latest(m) \subseteq due
      PROVE  AInv'
  BY <1>0, <1>1, <1>2, <1>6, ScanFrame DEF Releasing
<1>7. CASE MonitorBegin(t)
  <2>1. RunMoves(t, "lock", mon[t].copy, mon[t].toRemove) /\ mon[t].pc = "idle"
        /\ UNCHANGED <<registeredEntries, schedulerTask>>
    BY <1>0, <1>7, RunSteps DEF MonitorBegin, table
  <2> QED BY <1>0, <1>3, <1>4, <1>6, <2>1 DEF RunMoves, PlacesAt, CopiesAt
<1>8. CASE MonitorIdle(t)
  <2>1. RunMoves(t, "idle", {}, {}) /\ mon[t].pc = "lock" /\ UNCHANGED registeredEntries
    BY <1>0, <1>8, RunSteps DEF MonitorIdle
  <2> QED BY <1>6, <2>1 DEF RunMoves, PlacesAt, CopiesAt
<1>9. CASE MonitorSnapshot(t)
  <2>1. RunMoves(t, "clock", Entries, {}) /\ mon[t].pc = "lock"
        /\ UNCHANGED <<registeredEntries, schedulerTask>>
    BY <1>0, <1>9, RunSteps DEF MonitorSnapshot
  <2>2. \A e \in Entries : registeredEntries[e[1]] = e[2]
    BY DEF Entries
  <2> QED BY <1>6, <2>1, <2>2 DEF RunMoves, PlacesAt, CopiesAt
<1>10. CASE MonitorClock(t)
  <2>1. RunMoves(t, "run", {e \in mon[t].copy : e[2] \in due}, mon[t].toRemove)
        /\ mon[t].pc = "clock" /\ UNCHANGED <<registeredEntries, schedulerTask>>
    BY <1>0, <1>10, RunSteps DEF MonitorClock, table
  <2>2. mon[t].toRemove = {}
    BY <1>0, <2>1 DEF PlacesAt
  <2> QED BY <1>1, <1>3, <1>6, <2>1, <2>2 DEF RunMoves, PlacesAt, CopiesAt
<1>11. CASE MonitorRun(t)
  <2>1. PICK e \in mon[t].copy :
           RunMoves(t, "run", mon[t].copy \ {e}, mon[t].toRemove \union {e[1]})
    BY <1>0, <1>11, RunSteps
  <2>2. mon[t].pc = "run" /\ UNCHANGED <<registeredEntries, schedulerTask>>
    BY <1>11 DEF MonitorRun, table
  <2>3. e[1] \in Keys /\ e[2] \in Regs /\ e[2] # NoReg
    BY <1>0 DEF TypeOK, MonitorRecord, Pairs, Regs, NoReg
  <2>4. listening => registeredEntries[e[1]] = e[2] /\ e[2] \in due
    BY <1>3, <2>2 DEF CopiesAt
  <2>5. listening => Held(e[1]) /\ Latest(e[1]) \subseteq due
    BY <1>5, <2>3, <2>4 DEF AInv, LatestInTable
  <2> QED BY <1>1, <1>3, <1>4, <1>6, <2>1, <2>2, <2>3, <2>4, <2>5 DEF RunMoves, PlacesAt, CopiesAt
<1>12. CASE MonitorRunThrows(t)
  <2>1. RunMoves(t, "idle", {}, {}) /\ mon[t].pc = "run" /\ UNCHANGED registeredEntries
    BY <1>0, <1>12, RunSteps DEF MonitorRunThrows, table
  <2> QED BY <1>6, <2>1 DEF RunMoves, PlacesAt, CopiesAt
<1>13. CASE MonitorRemove(t)
  <2>1. RunMoves(t, "dispatch", {}, mon[t].toRemove) /\ mon[t].pc = "run"
        /\ UNCHANGED schedulerTask
    BY <1>0, <1>13, RunSteps DEF MonitorRemove
  <2>2. \A k \in Keys : registeredEntries'[k] =
                           IF k \in mon[t].toRemove THEN NoReg ELSE registeredEntries[k]
    BY <1>13 DEF MonitorRemove
  <2>3. PlacesAt(t)' /\ CopiesAt(t)'
    BY <2>1 DEF RunMoves, PlacesAt, CopiesAt
  <2>4. listening => \A m \in mon[t].toRemove : registeredEntries[m] # NoReg
    BY <1>3, <2>1 DEF CopiesAt
  <2>5. \A m : ~Releasing(t, m) /\ (Releasing(t, m)' <=> m \in mon[t].toRemove)
    BY <2>1 DEF Releasing, RunMoves
  <2>6. \A m \in mon'[t].toRemove : m \in mon[t].toRemove
    BY <2>1 DEF RunMoves
  <2> QED BY <1>0, <1>1, <1>2, <1>4, <2>1, <2>2, <2>3, <2>4, <2>5, <2>6, ScanFrame DEF RunMoves
<1>14. CASE MonitorDispatch(t)
  <2>1. mon[t].pc = "dispatch" /\ mon[t].copy = {} /\ UNCHANGED <<registeredEntries, schedulerTask>>
    BY <1>0, <1>14 DEF MonitorDispatch, table, PlacesAt
  <2>2. CASE listening
    <3>1. RunMoves(t, "notify", mon[t].copy, mon[t].toRemove)
      BY <1>0, <1>14, <2>2, RunSteps
    <3>2. PlacesAt(t)' /\ CopiesAt(t)'
      BY <2>1, <3>1 DEF RunMoves, PlacesAt, CopiesAt
    <3>3. \A m : Releasing(t, m)' <=> Releasing(t, m)
      BY <2>1, <3>1 DEF RunMoves, Releasing
    <3> QED BY <1>0, <1>1, <1>2, <1>4, <1>5, <2>1, <2>2, <3>1, <3>2, <3>3, ScanFrame DEF RunMoves
  <2>3. CASE ~listening
    <3>1. RunMoves(t, "idle", {}, {})
      BY <1>0, <1>14, <2>3, RunSteps
    <3>2. PlacesAt(t)'
      BY <3>1 DEF RunMoves, PlacesAt
    <3> QED BY <1>0, <1>1, <1>2, <2>1, <2>3, <3>1, <3>2, ScanFrame DEF RunMoves
  <2> QED BY <2>2, <2>3
<1> QED BY <1>7, <1>8, <1>9, <1>10, <1>11, <1>12, <1>13, <1>14 DEF MonitorScan

\* The listener releases what was removed, with nobody about to join the set.
LEMMA NotifyKeeps ==
  ASSUME AInv, [AnimNext]_allVars, NEW t \in Tasks, AnimNotify(t)
  PROVE  AInv'
<1>0. TypeOK' /\ KnownEntries' /\ KnownCopies' /\ TypeOK
  BY BaseSteps DEF AInv
<1>1. /\ RunMoves(t, "idle", {}, {}) /\ mon[t].pc = "notify"
      /\ UNCHANGED <<registeredEntries, schedulerTask, listening, calls, due, caller>>
  BY <1>0, RunSteps DEF AnimNotify, MonitorNotify, table, clock
<1>2. /\ onAnimationMobs' = onAnimationMobs \ mon[t].toRemove /\ UNCHANGED <<animationLock, anim>>
      /\ animationLock = {}
  BY DEF AnimNotify, Free
<1>3. \A m : Latest(m)' = Latest(m)
  BY <1>1, LatestStays
<1>4. \A m : ~Adding(m) /\ ~Adding(m)'
  <2>1. \A c \in Callers : anim[c].pc = "idle"
    BY <1>2 DEF AInv, Locking
  <2> QED BY <1>2, <2>1 DEF Adding
<1>5. \A m : Held(m)' <=> Held(m) /\ m \notin mon[t].toRemove
  BY <1>2, <1>4 DEF Held
<1>6. Locking' /\ LatestInTable' /\ due' \subseteq DOMAIN calls'
  BY <1>1, <1>2, <1>3 DEF AInv, Locking, LatestInTable
<1>7. Places' /\ OneNotifier'
  BY <1>1 DEF AInv, Places, PlacesAt, OneNotifier, RunMoves
<1>8. CASE ~listening
  <2>1. ReleasesAreOver'
    <3>1. \A u \in Tasks : mon'[u].pc # "notify"
      BY <1>1 DEF RunMoves, AInv, OneNotifier
    <3> QED BY <1>1, <1>8, <3>1 DEF ReleasesAreOver
  <2> QED BY <1>0, <1>1, <1>6, <1>7, <1>8, <2>1 DEF AInv
<1>9. CASE listening
  <2>1. \A u \in Tasks : mon'[u].pc = "idle" /\ mon'[u].copy = {} /\ mon'[u].toRemove = {}
    BY <1>1, <1>9, RunsAlone DEF RunMoves
  <2>2. ReleasesAreOver' /\ CopiesInTable' /\ OneRun'
    BY <2>1 DEF ReleasesAreOver, CopiesInTable, CopiesAt, OneRun
  <2>3. \A m : BeingReleased(m) <=> m \in mon[t].toRemove
    BY <1>1, <1>9, RunsAlone DEF BeingReleased
  <2>4. \A m : ~BeingReleased(m)'
    BY <2>1 DEF BeingReleased
  <2>5. HeldUntilReleased'
    BY <1>1, <1>5, <1>9, <2>3, <2>4 DEF AInv, HeldUntilReleased
  <2> QED BY <1>0, <1>1, <1>6, <1>7, <1>9, <2>2, <2>5 DEF AInv
<1> QED BY <1>8, <1>9

-----------------------------------------------------------------------------
(* registerAnimationMode, the clock and the shutdown.                      *)

LEMMA LatestAfter ==
  ASSUME TypeOK, NEW k \in Keys, PutEntry(k)
  PROVE  /\ Latest(k)' = {Len(calls) + 1}
         /\ \A n \in Keys \ {k} : Latest(n)' = Latest(n)
<1>1. /\ DOMAIN calls' = DOMAIN calls \union {Len(calls) + 1}
      /\ calls'[Len(calls) + 1] = k /\ \A r \in DOMAIN calls : calls'[r] = calls[r]
      /\ DOMAIN calls = 1..Len(calls)
  BY PutCalls
<1>2. \A r \in DOMAIN calls : r <= Len(calls) + 1 /\ ~(Len(calls) + 1 <= r)
  <2>1. Len(calls) \in Nat
    BY BoundsAssumption DEF TypeOK
  <2> QED BY <1>1, <2>1
<1>3. Latest(k)' = {Len(calls) + 1}
  BY <1>1, <1>2 DEF Latest
<1>4. ASSUME NEW n \in Keys \ {k} PROVE Latest(n)' = Latest(n)
  <2>1. \A r : (r \in DOMAIN calls' /\ calls'[r] = n) <=> (r \in DOMAIN calls /\ calls[r] = n)
    BY <1>1
  <2> QED BY <2>1 DEF Latest
<1> QED BY <1>3, <1>4

\* The handler that looked at the set has the lock: nobody has held the mob since.
LEMMA RegisterKeeps ==
  ASSUME AInv, [AnimNext]_allVars, NEW c \in Callers, AnimRegister(c)
  PROVE  AInv'
<1>0. TypeOK' /\ KnownEntries' /\ KnownCopies' /\ TypeOK
  BY BaseSteps DEF AInv
<1>1. PICK m \in Keys : anim[c].mobs = {m} /\ PutEntry(m)
  BY DEF AnimRegister, AInv, Locking
<1>2. /\ UNCHANGED <<due, mon, listening, caller, onAnimationMobs, animationLock>>
      /\ registeredEntries' = [registeredEntries EXCEPT ![m] = Len(calls) + 1]
      /\ anim' = [anim EXCEPT ![c].pc = "add"] /\ anim[c].pc = "register"
  BY <1>1 DEF AnimRegister, PutEntry
<1>3. anim'[c].pc = "add" /\ anim'[c].mobs = {m} /\ \A d \in Callers \ {c} : anim'[d] = anim[d]
  BY <1>1, <1>2 DEF AInv, Locking
<1>4. c \in animationLock /\ m \notin onAnimationMobs
      /\ \A d \in Callers \ {c} : anim[d].pc = "idle"
  BY <1>1, <1>2 DEF AInv, Locking
<1>5. \A n \in Keys : ~Adding(n) /\ (Adding(n)' <=> n = m)
  BY <1>2, <1>3, <1>4 DEF Adding
<1>6. ~Held(m) /\ \A n \in Keys : Held(n)' <=> Held(n) \/ n = m
  BY <1>2, <1>4, <1>5 DEF Held
<1>7. /\ Latest(m)' = {Len(calls) + 1} /\ \A n \in Keys \ {m} : Latest(n)' = Latest(n)
      /\ Len(calls) + 1 \in Regs /\ DOMAIN calls \subseteq DOMAIN calls'
  BY <1>0, <1>1, LatestAfter, PutCalls
<1>8. registeredEntries \in [Keys -> {NoReg} \union Regs] /\ Len(calls) + 1 # NoReg
  BY <1>0, <1>7 DEF TypeOK, Regs, NoReg
<1>9. Locking'
  BY <1>2, <1>3, <1>4 DEF AInv, Locking
<1>10. LatestInTable' /\ due' \subseteq DOMAIN calls'
  BY <1>2, <1>7, <1>8 DEF AInv, LatestInTable
<1>11. Places' /\ OneNotifier'
  BY <1>2 DEF AInv, Places, PlacesAt, OneNotifier
<1>12. ReleasesAreOver'
  <2> SUFFICES ASSUME NEW t \in Tasks, listening \/ mon[t].pc = "notify", NEW n \in mon[t].toRemove
               PROVE  Held(n)' /\ Latest(n)' \subseteq due
    BY <1>2 DEF ReleasesAreOver
  <2>1. Held(n) /\ Latest(n) \subseteq due /\ n \in Keys
    BY <1>0 DEF AInv, ReleasesAreOver, TypeOK, MonitorRecord
  <2> QED BY <1>6, <1>7, <2>1
<1>13. ASSUME listening PROVE OneRun' /\ CopiesInTable' /\ HeldUntilReleased'
  <2>1. OneRun /\ CopiesInTable /\ HeldUntilReleased
    BY <1>13 DEF AInv
  <2>2. OneRun'
    BY <1>1, <1>2, <2>1 DEF OneRun, PutEntry, NoTask, Tasks
  <2>3. registeredEntries[m] = NoReg /\ ~BeingReleased(m)
    BY <1>6, <2>1 DEF HeldUntilReleased
  <2>4. CopiesInTable'
    <3>1. \A t \in Tasks : \A e \in mon[t].copy : e[1] \in Keys /\ e[2] # NoReg
      BY <1>0 DEF TypeOK, MonitorRecord, Pairs, Regs, NoReg
    <3>2. \A t \in Tasks : mon[t].toRemove \subseteq Keys
      BY <1>0 DEF TypeOK, MonitorRecord
    <3>3. ASSUME NEW t \in Tasks PROVE CopiesAt(t)'
      <4>1. CopiesAt(t)
        BY <2>1 DEF CopiesInTable
      <4>2. \A e \in mon[t].copy : e[1] # m
        BY <2>3, <3>1, <4>1 DEF CopiesAt
      <4> QED BY <1>2, <1>8, <3>1, <3>2, <4>1, <4>2 DEF CopiesAt
    <3> QED BY <3>3 DEF CopiesInTable
  <2>5. \A n : BeingReleased(n)' <=> BeingReleased(n)
    BY <1>2 DEF BeingReleased
  <2>6. HeldUntilReleased'
    BY <1>2, <1>6, <1>8, <2>1, <2>3, <2>5 DEF HeldUntilReleased
  <2> QED BY <2>2, <2>4, <2>6
<1> QED BY <1>0, <1>2, <1>9, <1>10, <1>11, <1>12, <1>13 DEF AInv

\* A step that leaves the scheduler alone, and who is held.
LEMMA SetFrame ==
  ASSUME AInv, Locking', UNCHANGED vars, \A m \in Keys : Held(m)' <=> Held(m)
  PROVE  AInv'
<1> USE DEF vars
<1>1. TypeOK' /\ KnownEntries' /\ KnownCopies'
  BY DEF AInv, TypeOK, KnownEntries, KnownCopies
<1>2. \A m : Latest(m)' = Latest(m)
  BY LatestStays
<1>3. LatestInTable' /\ due' \subseteq DOMAIN calls' /\ Places' /\ OneNotifier'
  BY <1>2 DEF AInv, LatestInTable, Places, PlacesAt, OneNotifier
<1>4. ReleasesAreOver'
  <2>1. \A t \in Tasks : mon[t].toRemove \subseteq Keys
    BY DEF AInv, TypeOK, MonitorRecord
  <2> QED BY <1>2, <2>1 DEF AInv, ReleasesAreOver
<1>5. listening => OneRun' /\ CopiesInTable' /\ HeldUntilReleased'
  BY DEF AInv, OneRun, CopiesInTable, CopiesAt, HeldUntilReleased, BeingReleased
<1> QED BY <1>1, <1>3, <1>4, <1>5 DEF AInv

LEMMA LockKeeps ==
  ASSUME AInv, NEW c \in Callers, NEW m \in Keys, AnimLock(c, m)
  PROVE  AInv'
<1>1. /\ UNCHANGED vars /\ UNCHANGED onAnimationMobs /\ animationLock' = {c} /\ animationLock = {}
      /\ anim' = [anim EXCEPT ![c] = [pc |-> "register", mobs |-> {m}]]
      /\ m \notin onAnimationMobs
  BY DEF AnimLock, Free
<1>2. /\ anim'[c] = [pc |-> "register", mobs |-> {m}] /\ \A d \in Callers \ {c} : anim'[d] = anim[d]
      /\ anim' \in [Callers -> [pc : {"idle", "register", "add"}, mobs : SUBSET Keys]]
      /\ \A d \in Callers : anim[d].pc = "idle"
  BY <1>1 DEF AInv, Locking
<1>3. Locking'
  BY <1>1, <1>2 DEF AInv, Locking, vars
<1>4. \A n : Held(n)' <=> Held(n)
  BY <1>1, <1>2 DEF Held, Adding
<1> QED BY <1>1, <1>3, <1>4, SetFrame

LEMMA AddKeeps ==
  ASSUME AInv, NEW c \in Callers, AnimAdd(c)
  PROVE  AInv'
<1>1. /\ UNCHANGED vars /\ anim[c].pc = "add" /\ animationLock' = animationLock \ {c}
      /\ onAnimationMobs' = onAnimationMobs \union anim[c].mobs
      /\ anim' = [anim EXCEPT ![c] = IdleAnim]
  BY DEF AnimAdd
<1>2. c \in animationLock /\ \A d \in Callers \ {c} : anim[d].pc = "idle"
  BY <1>1 DEF AInv, Locking
<1>3. /\ anim'[c] = [pc |-> "idle", mobs |-> {}] /\ \A d \in Callers \ {c} : anim'[d] = anim[d]
      /\ anim' \in [Callers -> [pc : {"idle", "register", "add"}, mobs : SUBSET Keys]]
  BY <1>1 DEF AInv, Locking, IdleAnim
<1>4. PICK m \in Keys : anim[c].mobs = {m}
  BY <1>1 DEF AInv, Locking
<1>5. Locking'
  BY <1>1, <1>2, <1>3, <1>4 DEF AInv, Locking, vars
<1>6. \A n : Held(n)' <=> Held(n)
  BY <1>1, <1>2, <1>3, <1>4 DEF Held, Adding
<1> QED BY <1>1, <1>5, <1>6, SetFrame

LEMMA DisposeAnimKeeps ==
  ASSUME AInv, [AnimNext]_allVars, Dispose, UNCHANGED animation
  PROVE  AInv'
<1>0. TypeOK' /\ KnownEntries' /\ KnownCopies'
  BY BaseSteps
<1>1. /\ UNCHANGED <<calls, due, mon, caller, onAnimationMobs, animationLock, anim>>
      /\ ~listening' /\ \A k \in Keys : registeredEntries'[k] = NoReg
  BY DEF Dispose, animation, clock
<1>2. \A m : (Held(m)' <=> Held(m)) /\ Latest(m)' = Latest(m)
  BY <1>1, HeldStays, LatestStays
<1>3. Locking' /\ LatestInTable' /\ due' \subseteq DOMAIN calls'
  BY <1>1 DEF AInv, Locking, LatestInTable
<1>4. Places' /\ OneNotifier'
  BY <1>1 DEF AInv, Places, PlacesAt, OneNotifier
<1>5. ReleasesAreOver'
  BY <1>1, <1>2 DEF AInv, ReleasesAreOver
<1> QED BY <1>0, <1>1, <1>3, <1>4, <1>5 DEF AInv

LEMMA ElapseKeeps ==
  ASSUME AInv, [AnimNext]_allVars, NEW r \in Regs, Elapse(r), UNCHANGED animation
  PROVE  AInv'
<1>0. TypeOK' /\ KnownEntries' /\ KnownCopies'
  BY BaseSteps
<1>1. /\ UNCHANGED <<registeredEntries, schedulerTask, listening, calls, mon, caller,
                     onAnimationMobs, animationLock, anim>>
      /\ due' = due \union {r} /\ r \in DOMAIN calls
  BY DEF Elapse, animation, table
<1>2. \A m : (Held(m)' <=> Held(m)) /\ Latest(m)' = Latest(m) /\ (BeingReleased(m)' <=> BeingReleased(m))
  BY <1>1, HeldStays, LatestStays DEF BeingReleased
<1>3. Locking' /\ LatestInTable' /\ due' \subseteq DOMAIN calls'
  BY <1>1, <1>2 DEF AInv, Locking, LatestInTable
<1>4. Places' /\ OneNotifier'
  BY <1>1 DEF AInv, Places, PlacesAt, OneNotifier
<1>5. ReleasesAreOver'
  BY <1>1, <1>2 DEF AInv, ReleasesAreOver
<1>6. listening => OneRun' /\ CopiesInTable' /\ HeldUntilReleased'
  BY <1>1, <1>2 DEF AInv, OneRun, CopiesInTable, CopiesAt, HeldUntilReleased
<1> QED BY <1>0, <1>1, <1>3, <1>4, <1>5, <1>6 DEF AInv

LEMMA AInit == AnimInit => AInv
<1> SUFFICES ASSUME AnimInit PROVE AInv
  OBVIOUS
<1>0. Init /\ onAnimationMobs = {} /\ animationLock = {} /\ anim = [c \in Callers |-> IdleAnim]
  BY DEF AnimInit
<1>1. TypeOK /\ KnownEntries /\ KnownCopies
  BY <1>0, TypeInit, ServedInit DEF ServedInv
<1>2. /\ \A t \in Tasks : mon[t] = IdleRun
      /\ \A c \in Callers : caller[c] = IdleCaller /\ anim[c] = IdleAnim
      /\ \A k \in Keys : registeredEntries[k] = NoReg
      /\ due = {}
  BY <1>0 DEF Init
<1>3. IdleAnim \in [pc : {"idle", "register", "add"}, mobs : SUBSET Keys] /\ IdleAnim.pc = "idle"
  BY DEF IdleAnim
<1>4. Locking
  BY <1>0, <1>2, <1>3 DEF Locking, IdleCaller
<1>5. LatestInTable /\ Places /\ OneNotifier /\ ReleasesAreOver /\ OneRun /\ CopiesInTable
  BY <1>2 DEF LatestInTable, Places, PlacesAt, OneNotifier, ReleasesAreOver, OneRun, CopiesInTable,
     CopiesAt, IdleRun
<1>6. HeldUntilReleased
  BY <1>0, <1>2, <1>3 DEF HeldUntilReleased, Held, Adding, BeingReleased, IdleRun
<1> QED BY <1>1, <1>2, <1>4, <1>5, <1>6 DEF AInv

LEMMA AStep == AInv /\ [AnimNext]_allVars => AInv'
<1> SUFFICES ASSUME AInv, [AnimNext]_allVars PROVE AInv'
  OBVIOUS
<1>1. CASE UNCHANGED allVars
  <2>1. \A m : Held(m)' <=> Held(m)
    BY <1>1, HeldStays DEF allVars, animation
  <2>2. Locking'
    BY <1>1 DEF AInv, Locking, allVars, animation, vars
  <2> QED BY <1>1, <2>1, <2>2, SetFrame DEF allVars
<1>2. ASSUME NEW t \in Tasks, AnimMonitor(t) PROVE AInv'
  BY <1>2, ScanKeeps, NotifyKeeps DEF AnimMonitor
<1>3. ASSUME NEW c \in Callers, AnimStep(c) PROVE AInv'
  BY <1>3, RegisterKeeps, AddKeeps DEF AnimStep
<1> QED BY <1>1, <1>2, <1>3, LockKeeps, DisposeAnimKeeps, ElapseKeeps DEF AnimNext

-----------------------------------------------------------------------------
(* The theorems.                                                           *)

\* Before a shutdown a mob on animation has an entry in the table or is on its
\* way to the listener: none is stuck, whatever its actions throw.
THEOREM NoMobIsStuck == AnimSpec => []NoStuckMob
<1>1. AInv => NoStuckMob
  BY DEF AInv, Locking, HeldUntilReleased, Held, NoStuckMob
<1> QED BY <1>1, AInit, AStep, PTL DEF AnimSpec

\* Before a shutdown the table has no entry but of mobs on animation, and none
\* that a monitor is about to release.
THEOREM AnimationIsOne == AnimSpec => []OneAnimationPerMob
<1>1. AInv => OneAnimationPerMob
  BY DEF AInv, HeldUntilReleased, Held, OneAnimationPerMob
<1> QED BY <1>1, AInit, AStep, PTL DEF AnimSpec

-----------------------------------------------------------------------------
(* The refinement of AnimationMode.                                        *)

Modes == [m \in Keys |-> ModeOf(m)]

\* What decides on the mode of a mob.
LEMMA ModeStays ==
  ASSUME NEW m, Held(m)' <=> Held(m), Latest(m)' = Latest(m),
         Latest(m) \subseteq due' <=> Latest(m) \subseteq due
  PROVE  ModeOf(m)' = ModeOf(m)
BY DEF ModeOf, Held

\* A step that changes the mode of none but m.
LEMMA OneMode ==
  ASSUME NEW m \in Keys, \A n \in Keys \ {m} : ModeOf(n)' = ModeOf(n)
  PROVE  Modes' = [Modes EXCEPT ![m] = ModeOf(m)']
BY DEF Modes

LEMMA ModeStarts ==
  ASSUME AInv, AInv', NEW c \in Callers, AnimRegister(c)
  PROVE  \E m \in Keys : Mode!Start(m)
<1>1. PICK m \in Keys : anim[c].mobs = {m} /\ PutEntry(m)
  BY DEF AnimRegister, AInv, Locking
<1>2. /\ UNCHANGED <<due, onAnimationMobs>> /\ anim' = [anim EXCEPT ![c].pc = "add"]
      /\ anim[c].pc = "register"
  BY <1>1 DEF AnimRegister, PutEntry
<1>3. anim'[c].pc = "add" /\ anim'[c].mobs = {m} /\ \A d \in Callers \ {c} : anim'[d] = anim[d]
  BY <1>1, <1>2 DEF AInv, Locking
<1>4. c \in animationLock /\ m \notin onAnimationMobs
      /\ \A d \in Callers \ {c} : anim[d].pc = "idle"
  BY <1>1, <1>2 DEF AInv, Locking
<1>5. \A n \in Keys : ~Adding(n) /\ (Adding(n)' <=> n = m)
  BY <1>2, <1>3, <1>4 DEF Adding
<1>6. /\ Latest(m)' = {Len(calls) + 1} /\ \A n \in Keys \ {m} : Latest(n)' = Latest(n)
      /\ Len(calls) + 1 \notin due
  BY <1>1, LatestAfter, PutCalls DEF AInv
<1>7. \A n \in Keys \ {m} : ModeOf(n)' = ModeOf(n)
  BY <1>2, <1>5, <1>6 DEF ModeOf
<1>8. ModeOf(m) = "free" /\ ModeOf(m)' = "playing"
  BY <1>2, <1>4, <1>5, <1>6 DEF ModeOf
<1>9. Modes[m] = "free" /\ Modes' = [Modes EXCEPT ![m] = "playing"]
  BY <1>7, <1>8, OneMode DEF Modes
<1> QED BY <1>9 DEF Mode!Start, Modes

LEMMA ModeElapses ==
  ASSUME AInv, NEW r \in Regs, Elapse(r), UNCHANGED animation
  PROVE  Modes' = Modes \/ \E m \in Keys : Mode!TimeOver(m)
<1>1. /\ due' = due \union {r} /\ r \in DOMAIN calls /\ r \notin due
      /\ UNCHANGED <<calls, onAnimationMobs, anim>>
  BY DEF Elapse, animation, table
<1>2. calls[r] \in Keys
  BY <1>1 DEF AInv, TypeOK
<1>3. PICK m \in Keys : m = calls[r]
  BY <1>2
<1>4. \A n : (Held(n)' <=> Held(n)) /\ Latest(n)' = Latest(n) /\ Latest(n) \subseteq DOMAIN calls
  BY <1>1, HeldStays, LatestStays DEF Latest
<1>5. \A n \in Keys \ {m} : ModeOf(n)' = ModeOf(n)
  <2>1. \A n \in Keys \ {m} : r \notin Latest(n)
    BY <1>3 DEF Latest
  <2> QED BY <1>1, <1>4, <2>1, ModeStays
<1>6. CASE ModeOf(m)' = ModeOf(m)
  BY <1>5, <1>6 DEF Modes
<1>7. CASE ModeOf(m)' # ModeOf(m)
  <2>1. Held(m) /\ ~(Latest(m) \subseteq due) /\ Latest(m) \subseteq due'
    BY <1>1, <1>4, <1>7, ModeStays DEF ModeOf, Held
  <2>2. ModeOf(m) = "playing" /\ ModeOf(m)' = "over"
    BY <1>4, <2>1 DEF ModeOf, Held
  <2>3. Modes[m] = "playing" /\ Modes' = [Modes EXCEPT ![m] = "over"]
    BY <1>3, <1>5, <2>2, OneMode DEF Modes
  <2> QED BY <1>3, <2>3 DEF Mode!TimeOver, Modes
<1> QED BY <1>6, <1>7

LEMMA ModeReleases ==
  ASSUME AInv, NEW t \in Tasks, AnimNotify(t)
  PROVE  Modes' = Modes \/ \E M \in SUBSET Keys : Mode!Release(M)
<1>1. /\ mon[t].pc = "notify" /\ UNCHANGED <<calls, due>> /\ UNCHANGED anim
      /\ onAnimationMobs' = onAnimationMobs \ mon[t].toRemove /\ animationLock = {}
  BY DEF AnimNotify, MonitorNotify, Free, clock
<1>2. \A m : ~Adding(m) /\ ~Adding(m)'
  <2>1. \A c \in Callers : anim[c].pc = "idle"
    BY <1>1 DEF AInv, Locking
  <2> QED BY <1>1, <2>1 DEF Adding
<1>3. \A m : Latest(m)' = Latest(m)
  BY <1>1, LatestStays
<1> DEFINE M == mon[t].toRemove \intersect onAnimationMobs
<1>4. M \in SUBSET Keys
  BY DEF AInv, Locking
<1>5. \A m \in M : ModeOf(m) = "over"
  BY <1>1, <1>2 DEF AInv, ReleasesAreOver, ModeOf
<1>6. \A m \in Keys : ModeOf(m)' = IF m \in M THEN "free" ELSE ModeOf(m)
  BY <1>1, <1>2, <1>3 DEF ModeOf
<1> HIDE DEF M
<1>7. CASE M = {}
  BY <1>6, <1>7 DEF Modes
<1>8. CASE M # {}
  <2>1. \A m \in M : Modes[m] = "over"
    BY <1>4, <1>5 DEF Modes
  <2>2. Modes' = [m \in Keys |-> IF m \in M THEN "free" ELSE Modes[m]]
    BY <1>6 DEF Modes
  <2>3. Mode!Release(M)
    BY <1>8, <2>1, <2>2 DEF Mode!Release, Modes
  <2> QED BY <1>4, <2>3
<1> QED BY <1>7, <1>8

LEMMA ModeStep == AInv /\ AInv' /\ [AnimNext]_allVars => [Mode!Next]_Modes
<1> SUFFICES ASSUME AInv, AInv', [AnimNext]_allVars PROVE [Mode!Next]_Modes
  OBVIOUS
\* Whoever is held, registered and due as before is in the mode of before.
<1>1. ASSUME UNCHANGED <<calls, due>>, \A m \in Keys : Held(m)' <=> Held(m) PROVE Modes' = Modes
  <2>1. \A m \in Keys : ModeOf(m)' = ModeOf(m)
    BY <1>1, LatestStays DEF ModeOf, Held
  <2> QED BY <2>1 DEF Modes
<1>2. ASSUME UNCHANGED <<calls, due, animation>> PROVE Modes' = Modes
  BY <1>1, <1>2, HeldStays DEF animation
<1>3. ASSUME NEW t \in Tasks, AnimMonitor(t) PROVE [Mode!Next]_Modes
  <2>1. CASE MonitorScan(t) /\ UNCHANGED animation
    BY <1>2, <2>1 DEF MonitorScan, MonitorBegin, MonitorIdle, MonitorSnapshot, MonitorClock,
       MonitorRun, MonitorRunThrows, MonitorRemove, MonitorDispatch, clock
  <2>2. CASE AnimNotify(t)
    BY <2>2, ModeReleases DEF Mode!Next
  <2> QED BY <1>3, <2>1, <2>2 DEF AnimMonitor
<1>4. ASSUME NEW c \in Callers, AnimRegister(c) PROVE [Mode!Next]_Modes
  BY <1>4, ModeStarts DEF Mode!Next
<1>5. ASSUME NEW c \in Callers, AnimAdd(c) PROVE Modes' = Modes
  <2>1. /\ UNCHANGED <<calls, due>> /\ anim[c].pc = "add"
        /\ onAnimationMobs' = onAnimationMobs \union anim[c].mobs
        /\ anim' = [anim EXCEPT ![c] = IdleAnim]
    BY <1>5 DEF AnimAdd, vars
  <2>2. /\ anim'[c].pc = "idle" /\ \A d \in Callers \ {c} : anim'[d] = anim[d]
        /\ \A d \in Callers \ {c} : anim[d].pc = "idle"
    BY <2>1 DEF AInv, Locking, IdleAnim
  <2>3. \A m : Held(m)' <=> Held(m)
    BY <2>1, <2>2 DEF Held, Adding
  <2> QED BY <1>1, <2>1, <2>3
<1>6. ASSUME NEW c \in Callers, NEW m \in Keys, AnimLock(c, m) PROVE Modes' = Modes
  <2>1. /\ UNCHANGED <<calls, due, onAnimationMobs>> /\ anim[c].pc = "idle"
        /\ anim' = [anim EXCEPT ![c] = [pc |-> "register", mobs |-> {m}]]
    BY <1>6 DEF AnimLock, vars
  <2>2. anim'[c].pc = "register" /\ \A d \in Callers \ {c} : anim'[d] = anim[d]
    BY <2>1 DEF AInv, Locking
  <2>3. \A n : Held(n)' <=> Held(n)
    BY <2>1, <2>2 DEF Held, Adding
  <2> QED BY <1>1, <2>1, <2>3
<1>7. ASSUME Dispose, UNCHANGED animation PROVE Modes' = Modes
  BY <1>2, <1>7 DEF Dispose, clock
<1>8. ASSUME NEW r \in Regs, Elapse(r), UNCHANGED animation PROVE [Mode!Next]_Modes
  BY <1>8, ModeElapses DEF Mode!Next
<1>9. CASE UNCHANGED allVars
  BY <1>2, <1>9 DEF allVars, vars
<1> QED BY <1>3, <1>4, <1>5, <1>6, <1>7, <1>8, <1>9 DEF AnimNext, AnimStep

LEMMA ModeInit == AnimInit => Mode!Init
<1> SUFFICES ASSUME AnimInit PROVE Mode!Init
  OBVIOUS
<1>1. onAnimationMobs = {} /\ \A c \in Callers : anim[c].pc = "idle"
  BY DEF AnimInit, IdleAnim
<1>2. \A m \in Keys : ModeOf(m) = "free"
  BY <1>1 DEF ModeOf, Adding
<1> QED BY <1>2 DEF Mode!Init

\* MobAnimationScheduler implements AnimationMode, through throwing actions and
\* a shutdown: a mob plays one animation at a time, none cut short.
THEOREM AnimationIsRefined == AnimSpec => ImplementsAnimationMode
<1>1. AInv /\ AInv' /\ [AnimNext]_allVars => [Mode!Next]_Modes
  BY ModeStep
<1>2. AnimSpec => []AInv
  BY AInit, AStep, PTL DEF AnimSpec
<1> QED BY <1>1, <1>2, ModeInit, PTL DEF AnimSpec, ImplementsAnimationMode, Mode!Spec, Modes

-----------------------------------------------------------------------------
(* What holds of every BaseScheduler.                                      *)

\* registerAnimationMode and the listener use the table as any handlers do, so
\* that every theorem about BaseScheduler holds of the animations.
THEOREM AnimationsUseTheTable == AnimSpec => Spec
<1>1. AnimInit => Init
  BY DEF AnimInit
<1>2. AInv /\ [AnimNext]_allVars => [Next]_vars
  BY AnimIsBase DEF AInv
<1> QED BY <1>1, <1>2, AInit, AStep, PTL DEF AnimSpec, Spec

\* No animation that is over is acted on twice: the action of an animation is
\* empty, and throws nothing.
THEOREM AnimationEndsOnce ==
  ASSUME MayThrow = FALSE
  PROVE  AnimSpec => []MonitoredOnce
BY AnimationsUseTheTable, MonitoredAtMostOnce, PTL
=============================================================================
