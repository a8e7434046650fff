---------------------------- MODULE InviteProofs ----------------------------
(***************************************************************************)
(* The types of the invitation tables, for any threads and bounds.         *)
(* Nothing orders the three steps of addRequest and removeRequest, so each *)
(* table must keep its own: no step leaves two entries for one player, nor *)
(* an age past the one at which a pass of the task takes the entry out.    *)
(* That rests on the copy of the ages as well, from which the task writes  *)
(* back.                                                                   *)
(***************************************************************************)
EXTENDS InviteCoordinator, FiniteSetTheorems, TLAPS

\* Where the pass of the task is consists of two things.
Placed == timer = [pc |-> timer.pc, age |-> timer.age]
Typed  == TypeOK /\ Placed

\* One entry, or none.
LEMMA OneOrNone ==
  ASSUME NEW T
  PROVE  /\ AtMostOne({}, T)
         /\ \A x \in T : AtMostOne({x}, T)
<1>1. Cardinality({}) = 0
  BY FS_EmptySet
<1>2. \A x \in T : Cardinality({x}) = 1
  BY FS_Singleton
<1> QED BY <1>1, <1>2 DEF AtMostOne

\* The steps of addRequest,
LEMMA AddsKeep ==
  ASSUME TypeOK, NEW c \in Callers, AddInvite(c) \/ AddFrom(c) \/ AddTimeout(c)
  PROVE  TypeOK'
<1>1. AtMostOne({c}, Callers) /\ AtMostOne({0}, Ages)
  <2>1. 0 \in Ages
    BY BoundsAssumption DEF Ages
  <2> QED BY <2>1, OneOrNone
<1>2. CASE AddInvite(c)
  <2>1. adds' \in [Callers -> 0..MaxAdds]
    BY <1>2, BoundsAssumption DEF AddInvite, TypeOK
  <2>2. AtMostOne(invites', Callers)
        /\ caller' \in [Callers -> {"idle", "addFrom", "addTimeout",
                                    "remove", "removeFrom", "removeTimeout"}]
    BY <1>1, <1>2 DEF AddInvite, Go, TypeOK
  <2> QED BY <1>2, <2>1, <2>2 DEF AddInvite, TypeOK
<1>3. CASE AddFrom(c)
  BY <1>1, <1>3 DEF AddFrom, Go, counts, TypeOK
<1>4. CASE AddTimeout(c)
  BY <1>1, <1>4 DEF AddTimeout, Go, counts, TypeOK
<1> QED BY <1>2, <1>3, <1>4

\* those of the answers and removals,
LEMMA RemovesKeep ==
  ASSUME TypeOK, NEW c \in Callers,
         CallAnswer(c) \/ CallRemove(c) \/ RemoveInvite(c) \/ RemoveFrom(c) \/ RemoveTimeout(c)
  PROVE  TypeOK'
<1>1. AtMostOne({}, Callers) /\ AtMostOne({}, Ages)
  BY OneOrNone
<1>2. CASE CallAnswer(c) \/ CallRemove(c)
  <2>1. removes' \in [Callers -> 0..MaxRemoves]
    BY <1>2, BoundsAssumption DEF CallAnswer, CallRemove, TypeOK
  <2> QED BY <1>2, <2>1 DEF CallAnswer, CallRemove, Go, tables, TypeOK
<1>3. CASE RemoveInvite(c)
  BY <1>1, <1>3 DEF RemoveInvite, Go, counts, TypeOK
<1>4. CASE RemoveFrom(c)
  BY <1>1, <1>4 DEF RemoveFrom, Go, counts, TypeOK
<1>5. CASE RemoveTimeout(c)
  BY <1>1, <1>5 DEF RemoveTimeout, Go, counts, TypeOK
<1> QED BY <1>2, <1>3, <1>4, <1>5

\* and those of the task.  It writes back an age one greater than the one it copied.
LEMMA TimerKeeps ==
  ASSUME Typed, Timer
  PROVE  Typed'
<1>1. AtMostOne({}, Callers) /\ AtMostOne({}, Ages)
  BY OneOrNone
<1>2. CASE TimerCopy
  <2>1. timer' = [pc |-> "check", age |-> inviteTimeouts]
    BY <1>2 DEF TimerCopy
  <2> QED BY <1>2, <2>1 DEF TimerCopy, tables, counts, Typed, Placed, TypeOK
<1>3. CASE TimerAge
  <2>1. PICK age \in timer.age : age <= Timeout /\ inviteTimeouts' = {age + 1}
    BY <1>3 DEF TimerAge
  <2>2. age + 1 \in Ages
    BY <2>1, BoundsAssumption DEF Typed, TypeOK, AtMostOne, Ages
  <2>3. AtMostOne(inviteTimeouts', Ages)
    BY <2>1, <2>2, OneOrNone
  <2>4. timer' = [pc |-> "idle", age |-> {}]
    BY <1>3 DEF TimerAge
  <2> QED BY <1>1, <1>3, <2>3, <2>4 DEF TimerAge, counts, Typed, Placed, TypeOK
<1>4. CASE TimerExpire
  <2>1. timer' = [pc |-> "removeFrom", age |-> timer.age]
    BY <1>4 DEF TimerExpire, Typed, Placed
  <2> QED BY <1>1, <1>4, <2>1 DEF TimerExpire, counts, Typed, Placed, TypeOK
<1>5. CASE TimerRemoveFrom
  <2>1. timer' = [pc |-> "removeTimeout", age |-> timer.age]
    BY <1>5 DEF TimerRemoveFrom, Typed, Placed
  <2> QED BY <1>1, <1>5, <2>1 DEF TimerRemoveFrom, counts, Typed, Placed, TypeOK
<1>6. CASE TimerRemoveTimeout
  <2>1. timer' = [pc |-> "idle", age |-> {}]
    BY <1>6 DEF TimerRemoveTimeout
  <2> QED BY <1>1, <1>6, <2>1 DEF TimerRemoveTimeout, counts, Typed, Placed, TypeOK
<1> QED BY <1>2, <1>3, <1>4, <1>5, <1>6 DEF Timer

\* However the steps of invitations, answers, removals and the task interleave, each table
\* has at most one entry for the player, and no entry is older than the age at which the
\* task's next pass removes it.
THEOREM InvitesWellTyped == Spec => []TypeOK
<1>1. Init => Typed
  <2> SUFFICES ASSUME Init PROVE Typed
    OBVIOUS
  <2>1. AtMostOne({}, Callers) /\ AtMostOne({}, Ages)
    BY OneOrNone
  <2>2. 0 \in 0..MaxAdds /\ 0 \in 0..MaxRemoves
    BY BoundsAssumption
  <2> QED BY <2>1, <2>2 DEF Init, Typed, Placed, TypeOK
<1>2. Typed /\ [Next]_vars => Typed'
  <2> SUFFICES ASSUME Typed, [Next]_vars PROVE Typed'
    OBVIOUS
  <2>1. CASE UNCHANGED vars
    BY <2>1 DEF vars, Typed, Placed, TypeOK
  <2>2. CASE Timer
    BY <2>2, TimerKeeps
  <2>3. ASSUME NEW c \in Callers, AddInvite(c) \/ CallAnswer(c) \/ CallRemove(c) \/ Step(c)
        PROVE  Typed'
    <3>1. TypeOK'
      BY <2>3, AddsKeep, RemovesKeep DEF Step, Typed
    <3>2. UNCHANGED timer
      BY <2>3 DEF AddInvite, CallAnswer, CallRemove, Step, AddFrom, AddTimeout, RemoveInvite,
         RemoveFrom, RemoveTimeout
    <3> QED BY <3>1, <3>2 DEF Typed, Placed
  <2> QED BY <2>1, <2>2, <2>3 DEF Next
<1>3. Typed => TypeOK
  BY DEF Typed
<1> QED BY <1>1, <1>2, <1>3, PTL DEF Spec
=============================================================================
