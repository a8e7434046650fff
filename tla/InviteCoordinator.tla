-------------------------- MODULE InviteCoordinator --------------------------
(***************************************************************************)
(* net/server/coordinator/MapleInviteCoordinator.java: the invitations of  *)
(* one type (trade, party, guild, ...) that wait for one player.           *)
(*                                                                         *)
(* The code keeps them in three ConcurrentHashMaps from the invited player *)
(* to what the invitation is about, who sent it and how old it is.  Each   *)
(* operation on a map is atomic; addRequest and removeRequest are three    *)
(* operations in a row, with no lock around them.  Neither the types nor   *)
(* the invited players meet in the code, so one slot of the tables is the  *)
(* whole model.                                                            *)
(***************************************************************************)
EXTENDS Naturals, FiniteSets

CONSTANTS
    Callers,    \* threads: the handlers of the senders and of the invited player
    MaxAdds,    \* bound: invitations a thread sends
    MaxRemoves, \* bound: answers and removals a thread makes
    Timeout     \* 5 in the code: passes an invitation survives

ASSUME BoundsAssumption ==
    MaxAdds \in Nat /\ MaxRemoves \in Nat /\ Timeout \in Nat

VARIABLES
    invites,         \* the reference of the invitation: its sender here, or {}
    inviteFrom,      \* its sender, or {}
    inviteTimeouts,  \* its age, or {}
    caller,          \* where each thread is
    timer,           \* where the pass of InvitationTask is
    adds, removes    \* calls made by each thread

tables == <<invites, inviteFrom, inviteTimeouts>>
counts == <<adds, removes>>
vars   == <<invites, inviteFrom, inviteTimeouts, caller, timer, adds, removes>>

Ages == 0..(Timeout + 1)

Init ==
    /\ invites = {} /\ inviteFrom = {} /\ inviteTimeouts = {}
    /\ caller = [c \in Callers |-> "idle"]
    /\ timer = [pc |-> "idle", age |-> {}]
    /\ adds = [c \in Callers |-> 0]
    /\ removes = [c \in Callers |-> 0]

Go(c, pc) == caller' = [caller EXCEPT ![c] = pc]

-----------------------------------------------------------------------------
(* createInvite -> addRequest                                              *)

\* putIfAbsent wins the slot; the call is over when somebody else has it.
AddInvite(c) ==
    /\ caller[c] = "idle"
    /\ adds[c] < MaxAdds
    /\ adds' = [adds EXCEPT ![c] = @ + 1]
    /\ IF invites = {}
         THEN invites' = {c} /\ Go(c, "addFrom")
         ELSE UNCHANGED <<invites, caller>>
    /\ UNCHANGED <<inviteFrom, inviteTimeouts, timer, removes>>

AddFrom(c) ==
    /\ caller[c] = "addFrom"
    /\ inviteFrom' = {c}
    /\ Go(c, "addTimeout")
    /\ UNCHANGED <<invites, inviteTimeouts, timer, counts>>

AddTimeout(c) ==
    /\ caller[c] = "addTimeout"
    /\ inviteTimeouts' = {0}
    /\ Go(c, "idle")
    /\ UNCHANGED <<invites, inviteFrom, timer, counts>>

-----------------------------------------------------------------------------
(* removeRequest, from answerInvite, removeInvite and                      *)
(* removePlayerIncomingInvites.                                            *)

\* answerInvite goes on to removeRequest when the slot holds the reference it
\* was given; one that finds another, or none, returns NOT_FOUND.
CallAnswer(c) ==
    /\ caller[c] = "idle"
    /\ removes[c] < MaxRemoves
    /\ invites # {}
    /\ removes' = [removes EXCEPT ![c] = @ + 1]
    /\ Go(c, "remove")
    /\ UNCHANGED <<tables, timer, adds>>

\* removeInvite and removePlayerIncomingInvites do not look first.
CallRemove(c) ==
    /\ caller[c] = "idle"
    /\ removes[c] < MaxRemoves
    /\ removes' = [removes EXCEPT ![c] = @ + 1]
    /\ Go(c, "remove")
    /\ UNCHANGED <<tables, timer, adds>>

RemoveInvite(c) ==
    /\ caller[c] = "remove"
    /\ invites' = {}
    /\ Go(c, "removeFrom")
    /\ UNCHANGED <<inviteFrom, inviteTimeouts, timer, counts>>

RemoveFrom(c) ==
    /\ caller[c] = "removeFrom"
    /\ inviteFrom' = {}
    /\ Go(c, "removeTimeout")
    /\ UNCHANGED <<invites, inviteTimeouts, timer, counts>>

RemoveTimeout(c) ==
    /\ caller[c] = "removeTimeout"
    /\ inviteTimeouts' = {}
    /\ Go(c, "idle")
    /\ UNCHANGED <<invites, inviteFrom, timer, counts>>

-----------------------------------------------------------------------------
(* runTimeoutSchedule: a pass copies the ages, then treats each of them.   *)

TimerCopy ==
    /\ timer.pc = "idle"
    /\ inviteTimeouts # {}
    /\ timer' = [pc |-> "check", age |-> inviteTimeouts]
    /\ UNCHANGED <<tables, caller, counts>>

\* Seeded defect: an invitation is aged for ever.
TimerAge_Always ==
    /\ timer.pc = "check"
    /\ \E age \in timer.age : inviteTimeouts' = {age + 1}
    /\ timer' = [pc |-> "idle", age |-> {}]
    /\ UNCHANGED <<invites, inviteFrom, caller, counts>>

\* Still young by the copy: one older, whatever became of the entry meanwhile.
TimerAge ==
    /\ timer.pc = "check"
    /\ \E age \in timer.age : age <= Timeout /\ inviteTimeouts' = {age + 1}
    /\ timer' = [pc |-> "idle", age |-> {}]
    /\ UNCHANGED <<invites, inviteFrom, caller, counts>>

\* Too old by the copy: removeRequest, in its three steps.
TimerExpire ==
    /\ timer.pc = "check"
    /\ \E age \in timer.age : age > Timeout
    /\ invites' = {}
    /\ timer' = [timer EXCEPT !.pc = "removeFrom"]
    /\ UNCHANGED <<inviteFrom, inviteTimeouts, caller, counts>>

TimerRemoveFrom ==
    /\ timer.pc = "removeFrom"
    /\ inviteFrom' = {}
    /\ timer' = [timer EXCEPT !.pc = "removeTimeout"]
    /\ UNCHANGED <<invites, inviteTimeouts, caller, counts>>

\* Seeded defect: the age of an expired invitation is forgotten in the table.
TimerRemoveTimeout_Left ==
    /\ timer.pc = "removeTimeout"
    /\ timer' = [pc |-> "idle", age |-> {}]
    /\ UNCHANGED <<tables, caller, counts>>

TimerRemoveTimeout ==
    /\ timer.pc = "removeTimeout"
    /\ inviteTimeouts' = {}
    /\ timer' = [pc |-> "idle", age |-> {}]
    /\ UNCHANGED <<invites, inviteFrom, caller, counts>>

Timer == TimerCopy \/ TimerAge \/ TimerExpire \/ TimerRemoveFrom \/ TimerRemoveTimeout

Step(c) ==
    \/ AddFrom(c) \/ AddTimeout(c)
    \/ RemoveInvite(c) \/ RemoveFrom(c) \/ RemoveTimeout(c)

Next ==
    \/ \E c \in Callers : AddInvite(c) \/ CallAnswer(c) \/ CallRemove(c) \/ Step(c)
    \/ Timer

\* A call that has begun goes on, and the periodic task runs.
Fairness == WF_vars(Timer) /\ \A c \in Callers : WF_vars(Step(c))

Spec == Init /\ [][Next]_vars
FairSpec == Spec /\ Fairness

-----------------------------------------------------------------------------
AtMostOne(S, T) == S \subseteq T /\ Cardinality(S) <= 1

\* The type invariant.
TypeOK ==
    /\ AtMostOne(invites, Callers) /\ AtMostOne(inviteFrom, Callers)
    /\ AtMostOne(inviteTimeouts, Ages)
    /\ caller \in [Callers -> {"idle", "addFrom", "addTimeout",
                               "remove", "removeFrom", "removeTimeout"}]
    /\ timer.pc \in {"idle", "check", "removeFrom", "removeTimeout"} /\ AtMostOne(timer.age, Ages)
    /\ adds \in [Callers -> 0..MaxAdds] /\ removes \in [Callers -> 0..MaxRemoves]

\* An age put back or left behind by a race never stays: whatever is left in
\* the timeout table is aged until it goes, even when no invitation belongs to
\* it any more.
AgesDrain == inviteTimeouts # {} ~> inviteTimeouts = {}
=============================================================================
