----------------------- MODULE MobAnimationScheduler -----------------------
(***************************************************************************)
(* net/server/channel/worker/MobAnimationScheduler.java on top of          *)
(* BaseScheduler: the set of mobs that are playing an attack animation.    *)
(*                                                                         *)
(* registerAnimationMode holds animationLock while it calls registerEntry; *)
(* the listener that ends an animation takes animationLock after the       *)
(* monitor has run the (empty) action and removed the entry.  The same key *)
(* is registered again and again, so the set is what protects a fresh      *)
(* registration from the key-wise removal at the end of a monitor run.     *)
(* Nothing interrupts an entry of this scheduler.                          *)
(***************************************************************************)
EXTENDS BaseScheduler

VARIABLES
    onAnimationMobs,
    animationLock,   \* the threads that hold the lock: at most one
    anim             \* where each handler thread is in registerAnimationMode

animation == <<onAnimationMobs, animationLock, anim>>
allVars   == <<vars, animation>>

Free     == animationLock = {}
IdleAnim == [pc |-> "idle", mobs |-> {}]

AnimInit ==
    /\ Init
    /\ onAnimationMobs = {}
    /\ animationLock = {}
    /\ anim = [c \in Callers |-> IdleAnim]

\* Seeded defect: the mob is registered without taking the lock for itself.
AnimLock_Shared(c, m) ==
    /\ anim[c].pc = "idle"
    /\ Len(calls) < MaxReg
    /\ m \notin onAnimationMobs
    /\ animationLock' = animationLock \union {c}
    /\ anim' = [anim EXCEPT ![c] = [pc |-> "register", mobs |-> {m}]]
    /\ UNCHANGED <<vars, onAnimationMobs>>

\* registerAnimationMode takes the lock and finds the mob at rest (when the
\* mob is on animation it returns false and nothing changes).
AnimLock(c, m) ==
    /\ anim[c].pc = "idle"
    /\ Len(calls) < MaxReg
    /\ Free
    /\ m \notin onAnimationMobs
    /\ animationLock' = {c}
    /\ anim' = [anim EXCEPT ![c] = [pc |-> "register", mobs |-> {m}]]
    /\ UNCHANGED <<vars, onAnimationMobs>>

\* registerEntry(mobHash, r, animationTime), under animationLock.
AnimRegister(c) ==
    /\ anim[c].pc = "register"
    /\ \E m \in anim[c].mobs : PutEntry(m)
    /\ anim' = [anim EXCEPT ![c].pc = "add"]
    /\ UNCHANGED <<caller, onAnimationMobs, animationLock>>

\* The mob joins the set, the lock is released, true is returned.
AnimAdd(c) ==
    /\ anim[c].pc = "add"
    /\ onAnimationMobs' = onAnimationMobs \union anim[c].mobs
    /\ animationLock' = animationLock \ {c}
    /\ anim' = [anim EXCEPT ![c] = IdleAnim]
    /\ UNCHANGED vars

\* Seeded defect: the listener forgets to release the mobs.
AnimNotify_Nothing(t) ==
    /\ MonitorNotify(t)
    /\ Free
    /\ UNCHANGED animation

\* Seeded defect: the listener clears the whole set.
AnimNotify_All(t) ==
    /\ MonitorNotify(t)
    /\ Free
    /\ onAnimationMobs' = {}
    /\ UNCHANGED <<animationLock, anim>>

\* removedScheduledEntries: under animationLock, the removed mobs leave the set.
AnimNotify(t) ==
    /\ MonitorNotify(t)
    /\ Free
    /\ onAnimationMobs' = onAnimationMobs \ mon[t].toRemove
    /\ UNCHANGED <<animationLock, anim>>

AnimMonitor(t) == (MonitorScan(t) /\ UNCHANGED animation) \/ AnimNotify(t)

\* The rest of registerAnimationMode once the lock is held.
AnimStep(c) == AnimRegister(c) \/ AnimAdd(c)

AnimNext ==
    \/ \E t \in Tasks : AnimMonitor(t)
    \/ \E c \in Callers : AnimStep(c)
    \/ \E c \in Callers, m \in Keys : AnimLock(c, m)
    \/ Dispose /\ UNCHANGED animation
    \/ \E r \in Regs : Elapse(r) /\ UNCHANGED animation

AnimFairness ==
    /\ \A t \in Tasks : WF_allVars(AnimMonitor(t)) /\ SF_allVars(AnimNotify(t))
    /\ \A c \in Callers : WF_allVars(AnimStep(c))
    /\ \A r \in Regs : WF_allVars(Elapse(r) /\ UNCHANGED animation)

AnimSpec == AnimInit /\ [][AnimNext]_allVars
AnimFairSpec == AnimSpec /\ AnimFairness

-----------------------------------------------------------------------------
\* The thread between its registerEntry and its add.
Adding(m) == \E c \in Callers : anim[c].pc = "add" /\ m \in anim[c].mobs

\* The monitor has removed the entry of m and is on its way to the listener.
BeingReleased(m) ==
    \E t \in Tasks : mon[t].pc \in {"dispatch", "notify"} /\ m \in mon[t].toRemove

\* Before a shutdown a mob on animation always has something that will release
\* it: its entry in the table, or a monitor that is about to call the listener.
\* A mob in the set with neither could never attack again.
NoStuckMob ==
    listening => \A m \in onAnimationMobs : registeredEntries[m] # NoReg \/ BeingReleased(m)

\* Conversely an entry in the table belongs to a mob on animation, or to one
\* that is being added under the lock: the key is never registered while a
\* monitor run still has it in its removal list, so the key-wise removal cannot
\* drop a fresh animation.
OneAnimationPerMob ==
    listening =>
      \A m \in Keys : /\ registeredEntries[m] # NoReg => m \in onAnimationMobs \/ Adding(m)
                      /\ BeingReleased(m) => registeredEntries[m] = NoReg

\* The refinement mapping: a mob is free when it is neither in the set nor
\* about to join it, and over when its latest registration is due.
Latest(m) == {r \in DOMAIN calls : calls[r] = m /\ \A s \in DOMAIN calls : calls[s] = m => s <= r}

ModeOf(m) ==
    IF m \notin onAnimationMobs /\ ~Adding(m) THEN "free"
    ELSE IF Latest(m) \subseteq due THEN "over" ELSE "playing"

Mode == INSTANCE AnimationMode WITH Mobs <- Keys, mode <- [m \in Keys |-> ModeOf(m)]

\* MobAnimationScheduler implements AnimationMode: no animation is ever cut
\* short and no second one starts meanwhile, through a shutdown as well.
ImplementsAnimationMode == Mode!Spec

\* Unless the channel is shut down it also implements its liveness: every mob
\* that starts an animation is released.
ImplementsAnimationFairness == []listening => Mode!Fairness
=============================================================================
