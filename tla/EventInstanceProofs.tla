------------------------ MODULE EventInstanceProofs -------------------------
(***************************************************************************)
(* Five things about an event, for any scripts, players and calls.         *)
(*                                                                         *)
(* DisposedIsEmpty is not inductive: a registration that has looked at the *)
(* flag and not yet put the player would break it after the disposal.  The *)
(* monitor excludes that, so IInv adds that a registration under way means *)
(* the event is not disposed of, and that only registered players have the *)
(* event, which is why the sweep leaves nobody with it.                    *)
(*                                                                         *)
(* TypeOK says that canWarpCounter is never negative, which is a fact      *)
(* about the stacks of all calls: a change of map under way has counted    *)
(* itself, and somewhere on a stack stands the deed that counts it off.    *)
(* Typed keeps, for every player, at least as much in the counter as there *)
(* are such places.  A place is named by the call and by how far it is     *)
(* from the end of the stack and of the frame, which pushing and popping   *)
(* at the front do not change.                                             *)
(*                                                                         *)
(* That the lobby of a disposed event is not lost rests on who owes it: an *)
(* event that is cleared has a call just about to give the lobby back, one *)
(* that is disposed of a call on its way through dispose(boolean), until   *)
(* it is given back.                                                       *)
(*                                                                         *)
(* That it is given back once depends on what the script says: two places  *)
(* that clear the event would do so twice.  For a script that clears it in *)
(* clearPQ alone (ClearsOnce), and as long as calls do not overlap, Once   *)
(* follows the one call there is: it is calm, no deed it may come to leads *)
(* to the clearing, or it asks for the clearing, is before the place where *)
(* the flag is set, or is just behind it, and the flag and the count agree *)
(* with where it is.                                                       *)
(*                                                                         *)
(* That an event does not keep its lobby for ever depends on the script as *)
(* well: for one that ends its events by itself (EndsItself, by the deeds  *)
(* Enders of the tame deeds Tame) all that its calls have before them is   *)
(* tame, that is, the timer is stopped only before a deed that sees to the *)
(* end; and as long as no error ended a call half-way, the end is assured  *)
(* by a flag or a task, or some call has it before it, or the first player *)
(* is still to enter (EndInv).                                             *)
(***************************************************************************)
EXTENDS EventInstance, WellFoundedInduction, FiniteSetTheorems, SequenceTheorems, TLAPS

\* The deeds of a script that ends its events by itself, and those of them that see to the end.
CONSTANTS Tame, Enders

\* The deeds after which a call goes on with some stack.
DeedDone(c) ==
  \/ DoUnregister(c) \/ DoGo(c) \/ DoWarp(c) \/ DoLanded(c) \/ DoPutOut(c)
  \/ DoCall(c) \/ DoExitAll(c) \/ DoExitOthers(c) \/ DoFirst(c) \/ DoWarpTeam(c)
  \/ DoEndIfBelow(c) \/ DoIf(c) \/ DoBreaks(c) \/ DoHandled(c) \/ DoDispose(c)
  \/ DoSetCleared(c) \/ DoFreeLobby(c) \/ DoStartTimer(c)
  \/ DoStopTimer(c) \/ DoDismiss(c) \/ DoLater(c) \/ DoInvoke(c)
  \/ DoPassLead(c) \/ DoLead(c) \/ DoLeadParty(c) \/ DoStandard(c) \/ DoVanish(c)

\* Such a deed is done outside the monitor, and the call goes on with some stack.
LEMMA DeedsBecome ==
  ASSUME NEW c \in Calls, DeedDone(c)
  PROVE  calls[c].phase = "" /\ \E stack : Becomes(c, stack)
<1>1. CASE \/ DoUnregister(c) \/ DoLanded(c) \/ DoPutOut(c) \/ DoFreeLobby(c) \/ DoDismiss(c)
           \/ DoLater(c) \/ DoLead(c) \/ DoLeadParty(c) \/ DoVanish(c)
  BY <1>1 DEF Does, Continue, Crash, DoUnregister, DoLanded, DoPutOut, DoFreeLobby, DoDismiss,
     DoLater, DoLead, DoLeadParty, DoVanish
<1>2. CASE DoGo(c) \/ DoWarp(c) \/ DoStartTimer(c) \/ DoStopTimer(c) \/ DoBreaks(c)
  BY <1>2 DEF Does, Continue, Crash, Error, DoGo, DoWarp, DoStartTimer, DoStopTimer, DoBreaks
<1>3. CASE \/ DoCall(c) \/ DoFirst(c) \/ DoIf(c) \/ DoHandled(c) \/ DoDispose(c)
           \/ DoSetCleared(c) \/ DoStandard(c)
  BY <1>3 DEF Does, With, Crash, DoCall, DoFirst, DoIf, DoHandled, DoDispose, DoSetCleared, DoStandard
<1>4. CASE DoExitAll(c) \/ DoExitOthers(c) \/ DoWarpTeam(c)
  BY <1>4 DEF Does, With, InTurn, DoExitAll, DoExitOthers, DoWarpTeam
<1>5. CASE DoEndIfBelow(c) \/ DoInvoke(c) \/ DoPassLead(c)
  BY <1>5 DEF Does, With, Continue, Under, DoEndIfBelow, DoInvoke, DoPassLead
<1> QED BY <1>1, <1>2, <1>3, <1>4, <1>5 DEF DeedDone

\* What happens to the event besides the calls under way.
Beginning ==
  \/ \E p \in setting.team :
       \/ \E to \in {"in", "out"} : Wander(p, to)
       \/ LeaveParty(p) \/ Expel(p) \/ HandOver(p) \/ Drop(p)
       \/ Die(p) \/ Revive(p) \/ Finish(p) \/ Accident(p) \/ Rejoin(p)
  \/ TimerFires \/ LaterFires

-----------------------------------------------------------------------------
(***************************************************************************)
(* A disposed event stays empty.                                           *)
(***************************************************************************)
\* A call is a record of four things.
IsCall(r) ==
  \E b, p, a, s : r = [by |-> b, phase |-> p, about |-> a, stack |-> s]
Shapes == calls = [c \in Calls |-> calls[c]] /\ \A c \in Calls : IsCall(calls[c])
PutIsEarly == \A c \in Calls : calls[c].phase = "put" => ~disposed
MembersAreRegistered == member \subseteq chars
IInv == Shapes /\ PutIsEarly /\ MembersAreRegistered /\ DisposedIsEmpty

SamePhases == \A d \in Calls : calls'[d].phase = calls[d].phase

\* What a call consists of, and that its parts can be changed.
LEMMA MadeOf ==
  ASSUME NEW r, NEW b, NEW p, NEW a, NEW s,
         r = [by |-> b, phase |-> p, about |-> a, stack |-> s]
  PROVE  IsCall(r) /\ r.phase = p
BY DEF IsCall

\* A call with another stack,
LEMMA Restacked ==
  ASSUME NEW r, IsCall(r), NEW x
  PROVE  IsCall([r EXCEPT !.stack = x]) /\ [r EXCEPT !.stack = x].phase = r.phase
<1>1. PICK b, p, a, s : r = [by |-> b, phase |-> p, about |-> a, stack |-> s]
  BY DEF IsCall
<1>2. [r EXCEPT !.stack = x] = [by |-> b, phase |-> p, about |-> a, stack |-> x]
  BY <1>1
<1> QED BY <1>1, <1>2, MadeOf

\* in another phase,
LEMMA Rephased ==
  ASSUME NEW r, IsCall(r), NEW x
  PROVE  IsCall([r EXCEPT !.phase = x]) /\ [r EXCEPT !.phase = x].phase = x
<1>1. PICK b, p, a, s : r = [by |-> b, phase |-> p, about |-> a, stack |-> s]
  BY DEF IsCall
<1>2. [r EXCEPT !.phase = x] = [by |-> b, phase |-> x, about |-> a, stack |-> s]
  BY <1>1
<1> QED BY <1>1, <1>2, MadeOf

\* about another player,
LEMMA Readdressed ==
  ASSUME NEW r, IsCall(r), NEW x
  PROVE  IsCall([r EXCEPT !.about = x]) /\ [r EXCEPT !.about = x].phase = r.phase
<1>1. PICK b, p, a, s : r = [by |-> b, phase |-> p, about |-> a, stack |-> s]
  BY DEF IsCall
<1>2. [r EXCEPT !.about = x] = [by |-> b, phase |-> p, about |-> x, stack |-> s]
  BY <1>1
<1> QED BY <1>1, <1>2, MadeOf

\* and the call that is over.
LEMMA IdleIsCall ==
  IsCall(Idle) /\ Idle.phase = ""
BY DEF IsCall, Idle

\* One call changes, in its record.
LEMMA OneChanges ==
  ASSUME Shapes, NEW c \in Calls, NEW new, IsCall(new), calls' = [calls EXCEPT ![c] = new]
  PROVE  Shapes' /\ calls'[c] = new /\ \A d \in Calls \ {c} : calls'[d] = calls[d]
BY DEF Shapes

\* However a call goes on with a stack, the calls keep their phases.
LEMMA BecomesKeeps ==
  ASSUME NEW c \in Calls, NEW stack, Shapes, calls[c].phase = "", Becomes(c, stack)
  PROVE  Shapes' /\ SamePhases
<1> DEFINE left == Settled(stack)
           new == IF left = <<>> THEN Idle ELSE [calls[c] EXCEPT !.stack = left]
<1>1. IsCall(calls[c])
  BY DEF Shapes
<1>2. IsCall(new) /\ new.phase = calls[c].phase
  BY <1>1, Restacked, IdleIsCall
<1>3. calls' = [calls EXCEPT ![c] = new]
  BY DEF Becomes
<1> HIDE DEF new
<1> QED BY <1>2, <1>3, OneChanges DEF SamePhases

\* A step that keeps the phases and the flag and registers nobody keeps the invariant.
LEMMA KeepingIsSafe ==
  ASSUME IInv, Shapes', SamePhases, UNCHANGED disposed,
         \/ UNCHANGED <<chars, member>>
         \/ UNCHANGED chars /\ member' \subseteq member
         \/ \E p : chars' = chars \ {p} /\ member' = member \ {p}
  PROVE  IInv'
BY DEF IInv, SamePhases, PutIsEarly, MembersAreRegistered, DisposedIsEmpty

\* A deed after which the call goes on.
LEMMA DeedKeeps ==
  ASSUME IInv, NEW c \in Calls, calls[c].phase = "", NEW stack, Becomes(c, stack),
         UNCHANGED disposed,
         \/ UNCHANGED <<chars, member>>
         \/ UNCHANGED chars /\ member' \subseteq member
         \/ \E p : chars' = chars \ {p} /\ member' = member \ {p}
  PROVE  IInv'
<1>1. Shapes' /\ SamePhases
  BY BecomesKeeps DEF IInv
<1> QED BY <1>1, KeepingIsSafe

\* The deeds that leave the players and the flag alone.
LEMMA QuietDeeds ==
  ASSUME IInv, NEW c \in Calls,
         \/ DoGo(c) \/ DoWarp(c) \/ DoLanded(c) \/ DoPutOut(c)
         \/ DoCall(c) \/ DoExitAll(c) \/ DoExitOthers(c) \/ DoFirst(c)
         \/ DoWarpTeam(c) \/ DoEndIfBelow(c) \/ DoIf(c) \/ DoBreaks(c)
         \/ DoHandled(c) \/ DoSetCleared(c) \/ DoFreeLobby(c) \/ DoStartTimer(c)
         \/ DoStopTimer(c) \/ DoDismiss(c) \/ DoLater(c) \/ DoInvoke(c)
         \/ DoPassLead(c) \/ DoLead(c) \/ DoLeadParty(c) \/ DoStandard(c)
         \/ DoVanish(c)
  PROVE  IInv'
<1>1. UNCHANGED <<disposed, chars, member>>
  BY DEF DoGo, DoWarp, DoLanded, DoPutOut, DoCall, DoExitAll, DoExitOthers, DoFirst,
         DoWarpTeam, DoEndIfBelow, DoIf, DoBreaks, DoHandled, DoSetCleared, DoFreeLobby,
         DoStartTimer, DoStopTimer, DoDismiss, DoLater, DoInvoke, DoPassLead, DoLead,
         DoLeadParty, DoStandard, DoVanish, Team, Ended
<1>2. calls[c].phase = "" /\ \E stack : Becomes(c, stack)
  BY DeedsBecome DEF DeedDone
<1> QED BY <1>1, <1>2, DeedKeeps

\* The other steps: a player is taken off,
LEMMA UnregisterKeeps ==
  ASSUME IInv, NEW c \in Calls, DoUnregister(c)
  PROVE  IInv'
<1>1. calls[c].phase = "" /\ \E stack : Becomes(c, stack)
  BY DEF DoUnregister, Does, Continue
<1>2. UNCHANGED disposed /\ \E p : chars' = chars \ {p} /\ member' = member \ {p}
  BY DEF DoUnregister, Ended
<1> QED BY <1>1, <1>2, DeedKeeps

\* the players lose the event before the monitor is entered,
LEMMA DisposeKeeps ==
  ASSUME IInv, NEW c \in Calls, DoDispose(c)
  PROVE  IInv'
<1>1. calls[c].phase = "" /\ \E stack : Becomes(c, stack)
  BY DEF DoDispose, Does, With
<1>2. UNCHANGED <<disposed, chars>> /\ member' \subseteq member
  BY DEF DoDispose, Ended
<1> QED BY <1>1, <1>2, DeedKeeps

\* The flag is set in the monitor: no registration is under way, and the sweep is to come.
LEMMA SealKeeps ==
  ASSUME IInv, NEW c \in Calls, DoSeal(c)
  PROVE  IInv'
<1>1. calls[c].phase = "" /\ UNCHANGED <<chars, member>>
  BY DEF DoSeal, Does, Team
<1>2. CASE disposed
  <2>1. UNCHANGED disposed /\ \E stack : Becomes(c, stack)
    BY <1>2 DEF DoSeal, Continue
  <2> QED BY <1>1, <2>1, DeedKeeps
<1>3. CASE ~disposed
  <2> DEFINE new == [calls[c] EXCEPT !.phase = "sweep"]
  <2>1. calls' = [calls EXCEPT ![c] = new]
    BY <1>3 DEF DoSeal
  <2>2. IsCall(new) /\ new.phase = "sweep"
    BY Rephased DEF IInv, Shapes
  <2> HIDE DEF new
  <2>3. Shapes' /\ calls'[c].phase = "sweep" /\ \A d \in Calls \ {c} : calls'[d] = calls[d]
    BY <2>1, <2>2, OneChanges DEF IInv
  <2>4. \A d \in Calls \ {c} : calls[d].phase = ""
    BY DEF DoSeal, MayEnter, Holds
  <2>5. PutIsEarly'
    BY <2>3, <2>4 DEF PutIsEarly
  <2> QED BY <1>1, <2>3, <2>5 DEF IInv, MembersAreRegistered, DisposedIsEmpty
<1> QED BY <1>2, <1>3

\* the sweep empties it,
LEMMA SweepKeeps ==
  ASSUME IInv, NEW c \in Calls, Sweep(c)
  PROVE  IInv'
<1> DEFINE new == [calls[c] EXCEPT !.phase = "free"]
<1>1. calls' = [calls EXCEPT ![c] = new]
  BY DEF Sweep
<1>2. IsCall(new) /\ new.phase = "free"
  BY Rephased DEF IInv, Shapes
<1> HIDE DEF new
<1>3. Shapes' /\ calls'[c].phase = "free" /\ \A d \in Calls \ {c} : calls'[d] = calls[d]
  BY <1>1, <1>2, OneChanges DEF IInv
<1>4. UNCHANGED disposed /\ chars' = {} /\ member' = {}
  BY DEF Sweep, Ended, IInv, MembersAreRegistered
<1> QED BY <1>3, <1>4 DEF IInv, PutIsEarly, MembersAreRegistered, DisposedIsEmpty

\* the disposal ends,
LEMMA ReleaseKeeps ==
  ASSUME IInv, NEW c \in Calls, Release(c)
  PROVE  IInv'
<1> DEFINE left == Settled(Rest(c))
           new == IF left = <<>> THEN Idle ELSE [calls[c] EXCEPT !.stack = left, !.phase = ""]
<1>1. calls' = [calls EXCEPT ![c] = new]
  BY DEF Release
<1>2. IsCall(new) /\ new.phase = ""
  <2>1. IsCall([[calls[c] EXCEPT !.stack = left] EXCEPT !.phase = ""])
        /\ [[calls[c] EXCEPT !.stack = left] EXCEPT !.phase = ""].phase = ""
    BY Restacked, Rephased DEF IInv, Shapes
  <2> QED BY <2>1, IdleIsCall
<1> HIDE DEF new
<1>3. Shapes' /\ calls'[c].phase = "" /\ \A d \in Calls \ {c} : calls'[d] = calls[d]
  BY <1>1, <1>2, OneChanges DEF IInv
<1>4. UNCHANGED <<disposed, chars, member>> /\ calls[c].phase = "free"
  BY DEF Release, Team
<1> QED BY <1>3, <1>4 DEF IInv, PutIsEarly, MembersAreRegistered, DisposedIsEmpty

\* a registration begins, for which the flag is not set yet.
LEMMA RegisterKeeps ==
  ASSUME IInv, NEW c \in Calls, DoRegister(c)
  PROVE  IInv'
<1>1. calls[c].phase = "" /\ UNCHANGED <<disposed, chars, member>>
  BY DEF DoRegister, Does, Ended, Team
<1>2. CASE \E stack : Becomes(c, stack)
  BY <1>1, <1>2, DeedKeeps
<1>3. CASE ~ \E stack : Becomes(c, stack)
  <2>1. ~disposed /\ \E a, x :
          calls' = [calls EXCEPT ![c] = [@ EXCEPT !.phase = "put", !.about = a, !.stack = x]]
    BY <1>3 DEF DoRegister, Continue
  <2>2. PICK a : \E x :
          calls' = [calls EXCEPT ![c] = [@ EXCEPT !.phase = "put", !.about = a, !.stack = x]]
    BY <2>1
  <2>3. PICK x :
          calls' = [calls EXCEPT ![c] = [@ EXCEPT !.phase = "put", !.about = a, !.stack = x]]
    BY <2>2
  <2> DEFINE new == [calls[c] EXCEPT !.phase = "put", !.about = a, !.stack = x]
  <2>4. calls' = [calls EXCEPT ![c] = new]
    BY <2>3
  <2>5. IsCall(new) /\ new.phase = "put"
    <3> DEFINE one == [calls[c] EXCEPT !.phase = "put"]
               two == [one EXCEPT !.about = a]
    <3>1. IsCall(one) /\ one.phase = "put"
      BY Rephased DEF IInv, Shapes
    <3> HIDE DEF one
    <3>2. IsCall(two) /\ two.phase = "put"
      BY <3>1, Readdressed
    <3> HIDE DEF two
    <3>3. IsCall([two EXCEPT !.stack = x]) /\ [two EXCEPT !.stack = x].phase = "put"
      BY <3>2, Restacked
    <3> QED BY <3>3 DEF two, one
  <2> HIDE DEF new
  <2>6. Shapes' /\ calls'[c].phase = "put" /\ \A d \in Calls \ {c} : calls'[d] = calls[d]
    BY <2>4, <2>5, OneChanges DEF IInv
  <2>7. PutIsEarly'
    BY <1>1, <2>1, <2>6 DEF IInv, PutIsEarly
  <2> QED BY <1>1, <2>1, <2>6, <2>7 DEF IInv, MembersAreRegistered, DisposedIsEmpty
<1> QED BY <1>2, <1>3

\* The registration itself: the event is not disposed of.
LEMMA PutKeeps ==
  ASSUME IInv, NEW c \in Calls, Put(c)
  PROVE  IInv'
<1>1. ~disposed /\ UNCHANGED disposed
  BY DEF Put, Ended, IInv, PutIsEarly
<1>2. MembersAreRegistered'
  BY DEF Put, Team, IInv, MembersAreRegistered
<1>3. PICK new : IsCall(new) /\ calls' = [calls EXCEPT ![c] = new]
  <2>1. CASE calls[c].about \in chars
    <3> DEFINE left == Settled(Tail(calls[c].stack))
               next == IF left = <<>> THEN Idle
                       ELSE [calls[c] EXCEPT !.stack = left, !.phase = ""]
    <3>1. calls' = [calls EXCEPT ![c] = next]
      BY <2>1 DEF Put
    <3>2. IsCall([[calls[c] EXCEPT !.stack = left] EXCEPT !.phase = ""])
      BY Restacked, Rephased DEF IInv, Shapes
    <3>3. IsCall(next)
      BY <3>2, IdleIsCall
    <3> QED BY <3>1, <3>3
  <2>2. CASE calls[c].about \notin chars
    <3> DEFINE next == [calls[c] EXCEPT !.phase = ""]
    <3>1. calls' = [calls EXCEPT ![c] = next]
      BY <2>2 DEF Put
    <3>2. IsCall(next)
      BY Rephased DEF IInv, Shapes
    <3> QED BY <3>1, <3>2
  <2> QED BY <2>1, <2>2
<1>4. Shapes'
  BY <1>3, OneChanges DEF IInv
<1> QED BY <1>1, <1>2, <1>4 DEF IInv, PutIsEarly, DisposedIsEmpty

\* What begins takes an idle slot and touches neither the players nor the flag.
LEMMA BeginningKeeps ==
  ASSUME IInv, NEW by, NEW frames, Starts(by, frames), UNCHANGED <<disposed, chars, member>>
  PROVE  IInv'
<1>1. PICK c \in Calls : /\ ~Busy(c)
                         /\ calls' = [calls EXCEPT ![c] = [by |-> by, phase |-> "", about |-> Leader,
                                                          stack |-> frames]]
  BY DEF Starts
<1> DEFINE new == [by |-> by, phase |-> "", about |-> Leader, stack |-> frames]
<1>2. IsCall(new) /\ new.phase = ""
  BY MadeOf
<1>3. calls' = [calls EXCEPT ![c] = new]
  BY <1>1
<1> HIDE DEF new
<1>4. Shapes
  BY DEF IInv
<1>5. Shapes' /\ calls'[c] = new /\ \A d \in Calls \ {c} : calls'[d] = calls[d]
  BY <1>2, <1>3, <1>4, OneChanges
<1>6. calls'[c].phase = ""
  BY <1>2, <1>5
<1>7. calls[c].phase # "sweep"
  BY <1>1, IdleIsCall DEF Busy
<1> QED BY <1>5, <1>6, <1>7 DEF IInv, PutIsEarly, MembersAreRegistered, DisposedIsEmpty

\* Nobody is registered at the start.
LEMMA InitIsSafe ==
  Init => IInv
<1> SUFFICES ASSUME Init PROVE IInv
  OBVIOUS
<1>1. PICK order \in SetToSeqs(party) :
        calls = [c \in Calls |->
          IF c # Min(Calls) THEN Idle
          ELSE [by |-> Leader, phase |-> "", about |-> Leader,
                stack |-> Settled(<<Invoked("setup", "", Leader),
                    Frame("java", "", [i \in DOMAIN order |-> [deed |-> Register, who |-> order[i]]])>>)]]
  BY DEF Init
<1> DEFINE first == [by |-> Leader, phase |-> "", about |-> Leader,
                     stack |-> Settled(<<Invoked("setup", "", Leader),
                         Frame("java", "", [i \in DOMAIN order |-> [deed |-> Register, who |-> order[i]]])>>)]
<1>2. calls = [c \in Calls |-> IF c # Min(Calls) THEN Idle ELSE first]
  BY <1>1
<1>3. IsCall(first)
  BY MadeOf
<1> HIDE DEF first
<1>4. Shapes
  BY <1>2, <1>3, IdleIsCall DEF Shapes
<1> QED BY <1>4 DEF Init, IInv, PutIsEarly, MembersAreRegistered, DisposedIsEmpty

\* Whatever happens is the beginning of a call.
LEMMA BeginningsKeep ==
  ASSUME IInv, Beginning
  PROVE  IInv'
<1>1. UNCHANGED <<disposed, chars, member>>
  BY DEF Beginning, Wander, LeaveParty, Expel, HandOver, Drop, Die, Revive, Finish, Accident,
         Rejoin, TimerFires, LaterFires, Ended, Team
<1>2. \E by, frames : Starts(by, frames)
  <2>1. CASE \E p \in setting.team : \E to \in {"in", "out"} : Wander(p, to)
    BY <2>1 DEF Wander, Happens
  <2>2. CASE \E p \in setting.team : LeaveParty(p)
    BY <2>2 DEF LeaveParty, Happens
  <2>3. CASE \E p \in setting.team : Expel(p)
    BY <2>3 DEF Expel, Happens
  <2>4. CASE \E p \in setting.team : HandOver(p)
    BY <2>4 DEF HandOver, Happens
  <2>5. CASE \E p \in setting.team : Drop(p)
    BY <2>5 DEF Drop, Happens
  <2>6. CASE \E p \in setting.team : Die(p)
    BY <2>6 DEF Die, Happens
  <2>7. CASE \E p \in setting.team : Revive(p)
    BY <2>7 DEF Revive, Happens
  <2>8. CASE \E p \in setting.team : Finish(p)
    BY <2>8 DEF Finish, Happens
  <2>9. CASE \E p \in setting.team : Accident(p)
    BY <2>9 DEF Accident, Happens
  <2>10. CASE \E p \in setting.team : Rejoin(p)
    BY <2>10 DEF Rejoin, Happens
  <2>11. CASE TimerFires
    BY <2>11 DEF TimerFires
  <2>12. CASE LaterFires
    BY <2>12 DEF LaterFires
  <2> QED BY <2>1, <2>2, <2>3, <2>4, <2>5, <2>6, <2>7, <2>8, <2>9, <2>10, <2>11, <2>12
          DEF Beginning
<1> QED BY <1>1, <1>2, BeginningKeeps

\* Every step keeps the invariant.
LEMMA NextKeeps ==
  IInv /\ [Next]_vars => IInv'
<1> SUFFICES ASSUME IInv, [Next]_vars PROVE IInv'
  OBVIOUS
<1>1. CASE UNCHANGED vars
  BY <1>1 DEF vars, IInv, Shapes, IsCall, PutIsEarly, MembersAreRegistered, DisposedIsEmpty
<1>2. CASE Beginning
  BY <1>2, BeginningsKeep
<1>3. ASSUME NEW c \in Calls, Doing(c) PROVE IInv'
  BY <1>3, QuietDeeds, UnregisterKeeps, DisposeKeeps, SealKeeps, SweepKeeps, ReleaseKeeps,
     RegisterKeeps, PutKeeps
  DEF Doing
<1> QED BY <1>1, <1>2, <1>3 DEF Next, Beginning

\* At every moment after the sweep of its disposal an event has no players, and no player has
\* it: whatever the scripts do, however the calls interleave, a registration that comes late
\* finds the flag set.
THEOREM DisposedStaysEmpty ==
  Spec => []DisposedIsEmpty
<1>1. IInv => DisposedIsEmpty
  BY DEF IInv
<1> QED BY InitIsSafe, NextKeeps, <1>1, PTL DEF Spec

-----------------------------------------------------------------------------
(***************************************************************************)
(* Numbers and sequences.                                                  *)
(***************************************************************************)
\* A set of numbers has a least one, and Min is it.
LEMMA Smallest ==
  ASSUME NEW T, T \subseteq Nat, T # {}
  PROVE  Min(T) \in T /\ \A y \in T : Min(T) <= y
<1> DEFINE R == {ss \in Nat \X Nat : ss[1] < ss[2]}
<1>1. IsWellFoundedOn(R, Nat)
  BY NatLessThanWellFounded DEF OpToRel
<1>2. PICK x \in T : \A y \in T : ~(<<y, x>> \in R)
  <2> HIDE DEF R
  <2> QED BY <1>1, WFMin
<1>3. \A y \in T : x <= y
  <2>1. x \in Nat
    OBVIOUS
  <2> SUFFICES ASSUME NEW y \in T PROVE x <= y
    OBVIOUS
  <2>2. y \in Nat
    OBVIOUS
  <2>3. ~(y < x)
    BY <1>2, <2>1, <2>2
  <2> QED BY <2>1, <2>2, <2>3
<1> QED BY <1>2, <1>3 DEF Min

\* Induction on the natural numbers, over a set.
LEMMA Induct ==
  ASSUME NEW S, 0 \in S, \A n \in Nat : n \in S => n + 1 \in S
  PROVE  \A n \in Nat : n \in S
<1> SUFFICES ASSUME NEW k \in Nat, k \notin S PROVE FALSE
  OBVIOUS
<1> DEFINE T == {n \in Nat : n \notin S}
<1>1. T \subseteq Nat /\ T # {}
  OBVIOUS
<1>2. Min(T) \in T /\ \A y \in T : Min(T) <= y
  <2> HIDE DEF T
  <2> QED BY <1>1, Smallest
<1>3. PICK x \in Nat : x \notin S /\ \A y \in T : x <= y
  BY <1>2
<1>4. x # 0
  BY <1>3
<1>5. x - 1 \in Nat /\ x = (x - 1) + 1
  BY <1>4
<1>6. x - 1 \notin T
  BY <1>3, <1>5
<1>7. x - 1 \in S
  BY <1>5, <1>6
<1>8. x \in S
  BY <1>5, <1>7
<1> QED BY <1>3, <1>8

\* FlattenSeq's inner function, up to m.
Unfolds(ss, g, m) == g = [i \in 1..m |-> IF i = 1 THEN ss[i] ELSE g[i-1] \o ss[i]]

\* Its values are sequences.
LEMMA UnfoldsIsSeq ==
  ASSUME NEW D, NEW n \in Nat, NEW ss \in [1..n -> Seq(D)], NEW f, Unfolds(ss, f, n)
  PROVE  \A m \in 1..n : f[m] \in Seq(D)
<1> DEFINE T == {m \in Nat : m \in 1..n => f[m] \in Seq(D)}
<1>1. 0 \in T
  OBVIOUS
<1>2. ASSUME NEW m \in Nat, m \in T PROVE m + 1 \in T
  <2>1. ASSUME m + 1 \in 1..n PROVE f[m + 1] \in Seq(D)
    <3> DEFINE k == m + 1
    <3>0. k \in 1..n /\ k - 1 = m
      BY <2>1
    <3> HIDE DEF k
    <3>1. f[k] = IF k = 1 THEN ss[k] ELSE f[m] \o ss[k]
      BY <3>0 DEF Unfolds
    <3>2. m # 0 => f[m] \in Seq(D)
      BY <1>2, <2>1
    <3>3. ss[k] \in Seq(D)
      BY <3>0
    <3>4. k # 1 => m # 0
      BY DEF k
    <3> QED BY <3>1, <3>2, <3>3, <3>4 DEF k
  <2> QED BY <2>1
<1>3. \A m \in Nat : m \in T
  <2> HIDE DEF T
  <2> QED BY <1>1, <1>2, Induct
<1> QED BY <1>3

\* There is such a function.
LEMMA UnfoldsExists ==
  ASSUME NEW D, NEW n \in Nat, NEW ss \in [1..n -> Seq(D)]
  PROVE  \E g : Unfolds(ss, g, n)
<1> DEFINE T == {m \in Nat : m <= n => \E g : Unfolds(ss, g, m)}
<1>1. 0 \in T
  <2> DEFINE g == [i \in 1..0 |-> <<>>]
  <2>1. g = [i \in 1..0 |-> IF i = 1 THEN ss[i] ELSE g[i-1] \o ss[i]]
    OBVIOUS
  <2> HIDE DEF g
  <2>2. Unfolds(ss, g, 0)
    BY <2>1 DEF Unfolds
  <2> QED BY <2>2
<1>2. ASSUME NEW m \in Nat, m \in T PROVE m + 1 \in T
  <2>1. ASSUME m + 1 <= n PROVE \E g : Unfolds(ss, g, m + 1)
    <3>1. PICK g : Unfolds(ss, g, m)
      BY <1>2, <2>1
    <3> DEFINE h == [i \in 1..(m+1) |-> IF i # m + 1 THEN g[i]
                                        ELSE IF i = 1 THEN ss[i] ELSE g[m] \o ss[i]]
    <3>2. ASSUME NEW i \in 1..(m+1)
          PROVE  h[i] = IF i = 1 THEN ss[i] ELSE h[i-1] \o ss[i]
      <4>1. CASE i = m + 1
        <5>1. i # 1 => h[i-1] = g[m]
          BY <4>1
        <5> QED BY <4>1, <5>1
      <4>2. CASE i # m + 1
        <5>1. h[i] = g[i] /\ i \in 1..m
          BY <4>2
        <5>2. g[i] = IF i = 1 THEN ss[i] ELSE g[i-1] \o ss[i]
          BY <3>1, <5>1 DEF Unfolds
        <5>3. i # 1 => h[i-1] = g[i-1]
          BY <5>1
        <5> HIDE DEF h
        <5> QED BY <5>1, <5>2, <5>3
      <4> QED BY <4>1, <4>2
    <3>3. h = [i \in 1..(m+1) |-> h[i]]
      OBVIOUS
    <3> HIDE DEF h
    <3>4. h = [i \in 1..(m+1) |-> IF i = 1 THEN ss[i] ELSE h[i-1] \o ss[i]]
      BY <3>2, <3>3
    <3>5. Unfolds(ss, h, m + 1)
      BY <3>4 DEF Unfolds
    <3> QED BY <3>5
  <2> QED BY <2>1
<1>3. \A m \in Nat : m \in T
  <2> HIDE DEF T
  <2> QED BY <1>1, <1>2, Induct
<1> QED BY <1>3

\* What FlattenSeq puts together is a sequence.
LEMMA FlattenIsSeq ==
  ASSUME NEW D, NEW n \in Nat, NEW ss \in [1..n -> Seq(D)]
  PROVE  FlattenSeq(ss) \in Seq(D)
<1>1. Len(ss) = n
  OBVIOUS
<1>2. CASE n = 0
  <2>1. FlattenSeq(ss) = ss
    BY <1>1, <1>2 DEF FlattenSeq
  <2>2. ss \in Seq(D)
    BY <1>2
  <2> QED BY <2>1, <2>2
<1>3. CASE n # 0
  <2> DEFINE f == CHOOSE g : Unfolds(ss, g, n)
  <2>1. Unfolds(ss, f, n)
    BY UnfoldsExists
  <2>2. FlattenSeq(ss) = f[n]
    BY <1>1, <1>3 DEF FlattenSeq, Unfolds
  <2> HIDE DEF f
  <2>3. f[n] \in Seq(D)
    BY <1>3, <2>1, UnfoldsIsSeq
  <2> QED BY <2>2, <2>3
<1> QED BY <1>2, <1>3

-----------------------------------------------------------------------------
(***************************************************************************)
(* Stacks and the places where a change of map is counted off.             *)
(***************************************************************************)
\* The deeds the Java code puts on a stack itself.
JavaDeeds ==
  {Register, PassLead, Lead, LeadParty, Seal, FreeLobby, Dismiss, Standard, Vanish,
   Unregister, Dispose}
  \cup {Go(to) : to \in Ways} \cup {Warp(to) : to \in Ways}
  \cup {Invoke(h) : h \in Handlers} \cup {Ask(h) : h \in Handlers}
OtherDeeds == Deeds \cup JavaDeeds
\* What a call may do, but for the counting off, and all that it may do.
Quiet  == [deed : OtherDeeds, who : Players]
Doings == [deed : OtherDeeds \cup {Landed}, who : Players]
Frames(D) == [kind : {"script", "sync", "safe", "java"}, to : Ways \cup {""}, items : Seq(D)]
Stacks == Seq(Frames(Doings))
\* A stack has something to do on top.
Lively(s) == s # <<>> => s[1].items # <<>>

\* A change of map of p is counted off where b more deeds are left, in the frame with
\* a more below it; t counts off nothing that s does not.
Marked(items, p, b) ==
  b < Len(items) /\ items[Len(items) - b].deed.do = "landed" /\ items[Len(items) - b].who = p
Landing(s, p, a, b) == a < Len(s) /\ Marked(s[Len(s) - a].items, p, b)
Within(t, s) == \A p \in Players, a, b \in Nat : Landing(t, p, a, b) => Landing(s, p, a, b)

\* A deed says what it needs to say.
DeedOK(d) ==
  /\ d.yes \in Seq(Deeds) /\ d.no \in Seq(Deeds)
  /\ d.do \in {"call", "invoke", "ask"} => d.to \in Handlers
  /\ d.do \in {"go", "warp", "warp team"} => d.to \in Ways
  /\ d.do = "landed" => d = Landed

\* A deed of the Java code is well formed.
LEMMA DeedIsMade ==
  ASSUME NEW what, NEW to,
         what \in {"call", "invoke", "ask"} => to \in Handlers,
         what \in {"go", "warp", "warp team"} => to \in Ways,
         what = "landed" => to = ""
  PROVE  DeedOK(Deed(what, to, <<>>, <<>>))
<1> DEFINE d == Deed(what, to, <<>>, <<>>)
<1>1. d.do = what /\ d.to = to /\ d.yes = <<>> /\ d.no = <<>>
  BY DEF Deed
<1>2. <<>> \in Seq(Deeds)
  <2> HIDE DEF d
  <2> QED BY EmptySeq
<1>3. what = "landed" => d = Landed
  BY DEF Landed, Plain
<1> HIDE DEF d
<1>4. DeedOK(d)
  BY <1>1, <1>2, <1>3 DEF DeedOK
<1> QED BY <1>4 DEF d

\* A deed without a destination is.
LEMMA PlainIsMade ==
  ASSUME NEW what, what \notin {"call", "invoke", "ask"}, what \notin {"go", "warp", "warp team"}
  PROVE  DeedOK(Plain(what))
BY DeedIsMade DEF Plain

\* Every deed a call may have to do is well formed.
LEMMA DeedsAreMade ==
  ASSUME NEW d \in OtherDeeds \cup {Landed}
  PROVE  DeedOK(d)
<1>1. CASE d \in Deeds
  BY <1>1, DeedsAssumption DEF DeedOK
<1>2. CASE d \in {Register, PassLead, Lead, LeadParty, Seal, FreeLobby, Dismiss, Standard,
                    Vanish, Unregister, Dispose, Landed}
  BY <1>2, PlainIsMade DEF Register, PassLead, Lead, LeadParty, Seal, FreeLobby, Dismiss, Standard,
     Vanish, Unregister, Dispose, Landed
<1>3. CASE d \in {Go(to) : to \in Ways} \cup {Warp(to) : to \in Ways}
  BY <1>3, DeedIsMade DEF Go, Warp
<1>4. CASE d \in {Invoke(h) : h \in Handlers} \cup {Ask(h) : h \in Handlers}
  BY <1>4, DeedIsMade DEF Invoke, Ask
<1> QED BY <1>1, <1>2, <1>3, <1>4 DEF OtherDeeds, JavaDeeds

\* Deeds about a player.
LEMMA ItemsAreDoings ==
  ASSUME NEW D, NEW deeds \in Seq(D), NEW p \in Players
  PROVE  /\ Items(deeds, p) \in Seq([deed : D, who : Players])
         /\ Len(Items(deeds, p)) = Len(deeds)
         /\ \A i \in 1..Len(deeds) : Items(deeds, p)[i] = [deed |-> deeds[i], who |-> p]
<1> DEFINE f == [i \in 1..Len(deeds) |-> [deed |-> deeds[i], who |-> p]]
<1>1. Items(deeds, p) = f
  BY DEF Items
<1>2. Len(deeds) \in Nat /\ \A i \in 1..Len(deeds) : f[i] \in [deed : D, who : Players]
  OBVIOUS
<1>3. f \in Seq([deed : D, who : Players]) /\ Len(f) = Len(deeds)
  BY <1>2
<1> QED BY <1>1, <1>3

\* The deeds of scripts are quiet ones.
LEMMA ScriptsAreQuiet ==
  ASSUME NEW deeds \in Seq(OtherDeeds), NEW p \in Players
  PROVE  Items(deeds, p) \in Seq(Quiet)
BY ItemsAreDoings DEF Quiet

\* What has no change of map to count off is what a call may do.
LEMMA QuietAreDoings ==
  Seq(Deeds) \subseteq Seq(OtherDeeds) /\ Quiet \subseteq Doings /\ Seq(Quiet) \subseteq Seq(Doings)
  /\ Frames(Quiet) \subseteq Frames(Doings) /\ Seq(Frames(Quiet)) \subseteq Stacks
<1>1. Deeds \subseteq OtherDeeds /\ Quiet \subseteq Doings
  BY DEF OtherDeeds, Quiet, Doings
<1>2. Seq(Deeds) \subseteq Seq(OtherDeeds) /\ Seq(Quiet) \subseteq Seq(Doings)
  BY <1>1
<1>3. Frames(Quiet) \subseteq Frames(Doings)
  BY <1>2 DEF Frames
<1> QED BY <1>1, <1>2, <1>3 DEF Stacks

\* Quiet deeds put first mark nothing new.
LEMMA MarkedCat ==
  ASSUME NEW q \in Seq(Quiet), NEW r \in Seq(Doings), NEW p, NEW b \in Nat, Marked(q \o r, p, b)
  PROVE  Marked(r, p, b)
<1>1. q \o r \in Seq(Doings) /\ Len(q \o r) = Len(q) + Len(r)
  BY QuietAreDoings
<1> DEFINE k == Len(q) + Len(r) - b
<1>2. b < Len(q) + Len(r) /\ (q \o r)[k].deed.do = "landed" /\ (q \o r)[k].who = p
  BY <1>1 DEF Marked
<1>3. CASE k <= Len(q)
  <2>1. k \in 1..Len(q) /\ (q \o r)[k] = q[k]
    BY <1>2, <1>3
  <2>2. q[k] \in Quiet
    BY <2>1
  <2>3. q[k].deed \in OtherDeeds
    BY <2>2 DEF Quiet
  <2>4. q[k].deed = Landed
    BY <1>2, <2>1, <2>3, DeedsAreMade DEF DeedOK
  <2>5. Landed \notin OtherDeeds
    BY DeedsAssumption DEF OtherDeeds, JavaDeeds, Landed, Plain, Deed, Register, PassLead, Lead,
       LeadParty, Seal, FreeLobby, Dismiss, Standard, Vanish, Unregister, Dispose, Go, Warp,
       Invoke, Ask
  <2> QED BY <2>3, <2>4, <2>5
<1>4. CASE k > Len(q)
  <2>1. k - Len(q) = Len(r) - b /\ k \in (Len(q)+1)..(Len(q)+Len(r))
    BY <1>2, <1>4
  <2>2. (q \o r)[k] = r[k - Len(q)]
    BY <2>1
  <2>3. b < Len(r)
    BY <2>1
  <2> QED BY <1>2, <2>1, <2>2, <2>3 DEF Marked
<1>5. k \in Int /\ Len(q) \in Nat
  OBVIOUS
<1> QED BY <1>3, <1>4, <1>5

\* Neither does a deed that is done, and its own place is marked no more.
LEMMA MarkedTail ==
  ASSUME NEW r \in Seq(Doings), r # <<>>, NEW p, NEW b \in Nat, Marked(Tail(r), p, b)
  PROVE  Marked(r, p, b) /\ b < Len(r) - 1
<1>1. Len(Tail(r)) = Len(r) - 1 /\ \A i \in 1..(Len(r)-1) : Tail(r)[i] = r[i+1]
  OBVIOUS
<1>2. b < Len(r) - 1
  BY <1>1 DEF Marked
<1>3. Tail(r)[Len(r) - 1 - b] = r[Len(r) - b]
  <2> DEFINE i == Len(r) - 1 - b
  <2>1. i \in 1..(Len(r) - 1) /\ i + 1 = Len(r) - b
    BY <1>2
  <2> HIDE DEF i
  <2>2. Tail(r)[i] = r[i+1]
    BY <1>1, <2>1
  <2> QED BY <2>1, <2>2 DEF i
<1> QED BY <1>1, <1>2, <1>3 DEF Marked

\* Quiet frames put on top mark nothing new.
LEMMA LandingCat ==
  ASSUME NEW t \in Seq(Frames(Quiet)), NEW s \in Stacks
  PROVE  t \o s \in Stacks /\ Within(t \o s, s)
<1>1. t \in Stacks
  BY QuietAreDoings
<1>2. t \o s \in Stacks /\ Len(t \o s) = Len(t) + Len(s)
  BY <1>1 DEF Stacks
<1>3. ASSUME NEW p \in Players, NEW a \in Nat, NEW b \in Nat, Landing(t \o s, p, a, b)
      PROVE  Landing(s, p, a, b)
  <2> DEFINE k == Len(t) + Len(s) - a
  <2>1. a < Len(t) + Len(s) /\ Marked((t \o s)[k].items, p, b)
    BY <1>2, <1>3 DEF Landing
  <2>2. k \in 1..(Len(t) + Len(s)) /\ Len(t) \in Nat /\ Len(s) \in Nat
    BY <2>1 DEF Stacks
  <2>3. CASE k <= Len(t)
    <3>1. (t \o s)[k] = t[k] /\ t[k] \in Frames(Quiet)
      BY <2>2, <2>3 DEF Stacks
    <3>2. t[k].items \in Seq(Quiet)
      BY <3>1 DEF Frames
    <3>3. PICK x : x = t[k].items
      OBVIOUS
    <3>4. x \in Seq(Quiet) /\ x \o <<>> = x
      BY <3>2, <3>3, ConcatEmptySeq
    <3>5. <<>> \in Seq(Doings) /\ Len(<<>>) = 0
      BY EmptySeq
    <3>6. Marked(x \o <<>>, p, b)
      BY <2>1, <3>1, <3>3, <3>4
    <3>7. Marked(<<>>, p, b)
      BY <3>4, <3>5, <3>6, MarkedCat
    <3> QED BY <3>5, <3>7 DEF Marked
  <2>4. CASE k > Len(t)
    <3>1. (t \o s)[k] = s[k - Len(t)]
      BY <2>2, <2>4 DEF Stacks
    <3>2. k - Len(t) = Len(s) - a /\ a < Len(s)
      BY <2>2, <2>4
    <3> QED BY <2>1, <3>1, <3>2 DEF Landing
  <2> QED BY <2>2, <2>3, <2>4
<1> QED BY <1>2, <1>3 DEF Within

\* Nor does taking frames off the top.
LEMMA SuffixIsWithin ==
  ASSUME NEW s \in Stacks, NEW k \in 1..(Len(s) + 1)
  PROVE  SubSeq(s, k, Len(s)) \in Stacks /\ Within(SubSeq(s, k, Len(s)), s)
<1> DEFINE t == SubSeq(s, k, Len(s))
<1>0. Len(s) \in Nat
  BY DEF Stacks
<1>1. t \in Stacks /\ Len(t) = Len(s) - k + 1 /\ \A i \in 1..Len(t) : t[i] = s[k + i - 1]
  BY <1>0, SubSeqProperties DEF Stacks
<1> HIDE DEF t
<1>2. ASSUME NEW p \in Players, NEW a \in Nat, NEW b \in Nat, Landing(t, p, a, b)
      PROVE  Landing(s, p, a, b)
  <2>1. a < Len(t) /\ Marked(t[Len(t) - a].items, p, b)
    BY <1>2 DEF Landing
  <2> DEFINE i == Len(t) - a
  <2>2. i \in 1..Len(t) /\ k + i - 1 = Len(s) - a /\ a < Len(s)
    BY <1>0, <1>1, <2>1
  <2>3. t[i] = s[k + i - 1]
    BY <1>1, <2>2
  <2> QED BY <2>1, <2>2, <2>3 DEF Landing
<1>3. Within(t, s)
  BY <1>2 DEF Within
<1> QED BY <1>1, <1>3 DEF t

\* A settled stack has something to do on top, and marks nothing new.
LEMMA SettledIsLively ==
  ASSUME NEW s \in Stacks
  PROVE  /\ Settled(s) \in Stacks /\ Lively(Settled(s)) /\ Within(Settled(s), s)
         /\ s # <<>> /\ s[1].items # <<>> => Settled(s) = s
<1> DEFINE live == {i \in DOMAIN s : s[i].items # <<>>}
<1>0. Len(s) \in Nat /\ DOMAIN s = 1..Len(s)
  BY DEF Stacks
<1>1. CASE live = {}
  <2>1. Settled(s) = <<>>
    BY <1>1 DEF Settled
  <2>2. <<>> \in Stacks /\ Len(<<>>) = 0
    BY DEF Stacks
  <2>3. Within(<<>>, s) /\ Lively(<<>>)
    BY <2>2 DEF Within, Landing, Lively
  <2>4. ~(s # <<>> /\ s[1].items # <<>>)
    <3>1. s # <<>> => 1 \in DOMAIN s
      BY <1>0 DEF Stacks
    <3> QED BY <1>1, <3>1
  <2> QED BY <2>1, <2>2, <2>3, <2>4
<1>2. CASE live # {}
  <2>1. live \subseteq Nat
    BY <1>0
  <2> DEFINE k == Min(live)
  <2>2. k \in live /\ \A y \in live : k <= y
    <3> HIDE DEF live
    <3> QED BY <1>2, <2>1, Smallest
  <2>3. Settled(s) = SubSeq(s, k, Len(s))
    BY <1>2 DEF Settled
  <2>4. k \in 1..Len(s) /\ s[k].items # <<>>
    BY <1>0, <2>2
  <2>5. s # <<>> /\ s[1].items # <<>> => k = 1
    <3>1. s[1].items # <<>> => 1 \in live
      BY <1>0, <2>4
    <3>2. k \in Nat /\ k >= 1 /\ (1 \in live => k <= 1)
      BY <1>0, <2>2
    <3> HIDE DEF k, live
    <3> QED BY <3>1, <3>2
  <2> HIDE DEF k, live
  <2>6. Settled(s) \in Stacks /\ Within(Settled(s), s)
    BY <1>0, <2>3, <2>4, SuffixIsWithin
  <2>7. Settled(s)[1] = s[k]
    BY <1>0, <2>3, <2>4 DEF Stacks
  <2>8. Lively(Settled(s))
    BY <2>4, <2>7 DEF Lively
  <2>9. k = 1 => Settled(s) = s
    BY <1>0, <2>3 DEF Stacks
  <2> QED BY <2>5, <2>6, <2>8, <2>9
<1> QED BY <1>1, <1>2

\* A frame on top of the rest that marks no more than the frame that was there.
LEMMA TopIsWithin ==
  ASSUME NEW s \in Stacks, s # <<>>, NEW f \in Frames(Doings),
         \A p \in Players, b \in Nat : Marked(f.items, p, b) => Marked(s[1].items, p, b)
  PROVE  <<f>> \o Tail(s) \in Stacks /\ Within(<<f>> \o Tail(s), s)
<1> DEFINE t == <<f>> \o Tail(s)
<1>1. /\ t \in Stacks /\ Len(t) = Len(s) /\ Len(s) \in Nat
      /\ t[1] = f /\ \A i \in 2..Len(s) : t[i] = s[i]
  BY DEF Stacks
<1> HIDE DEF t
<1>2. ASSUME NEW p \in Players, NEW a \in Nat, NEW b \in Nat, Landing(t, p, a, b)
      PROVE  Landing(s, p, a, b)
  <2>1. a < Len(s) /\ Marked(t[Len(s) - a].items, p, b)
    BY <1>1, <1>2 DEF Landing
  <2>2. CASE Len(s) - a = 1
    BY <1>1, <2>1, <2>2 DEF Landing
  <2>3. CASE Len(s) - a \in 2..Len(s)
    BY <1>1, <2>1, <2>3 DEF Landing
  <2> QED BY <1>1, <2>1, <2>2, <2>3
<1>3. Within(t, s)
  BY <1>2 DEF Within
<1> QED BY <1>1, <1>3 DEF t

-----------------------------------------------------------------------------
(***************************************************************************)
(* The records of calls, and how a call goes on.                           *)
(***************************************************************************)
\* What a call under way is, the steps of a call that take nothing new to count off, and
\* those that leave the monitor out.
Records == [by : Threads \cup {""}, phase : Phases, about : Players, stack : Stacks]
Held(r) == r \in Records /\ Lively(r.stack) /\ (r.phase # "" => r.stack # <<>>)
CallsOK == calls = [c \in Calls |-> calls[c]] /\ \A c \in Calls : Held(calls[c])
Shrinks == \A d \in Calls : Within(calls'[d].stack, calls[d].stack)
Goes(c) == \E t \in Stacks : Within(t, calls[c].stack) /\ Becomes(c, t)

\* A call that is over is in order.
LEMMA IdleIsHeld ==
  Held(Idle)
<1>1. Leader \in Players
  BY EventAssumption
<1>2. <<>> \in Stacks
  BY EmptySeq DEF Stacks
<1> QED BY <1>1, <1>2 DEF Held, Idle, Records, Lively, Phases

\* What a call consists of.
LEMMA RecordOf ==
  ASSUME NEW r \in Records
  PROVE  /\ r = [by |-> r.by, phase |-> r.phase, about |-> r.about, stack |-> r.stack]
         /\ r.by \in Threads \cup {""} /\ r.phase \in Phases
         /\ r.about \in Players /\ r.stack \in Stacks
BY DEF Records

\* What consists of that is a call.
LEMMA RecordIs ==
  ASSUME NEW b \in Threads \cup {""}, NEW f \in Phases, NEW a \in Players, NEW s \in Stacks
  PROVE  LET r == [by |-> b, phase |-> f, about |-> a, stack |-> s] IN
         r \in Records /\ r.by = b /\ r.phase = f /\ r.about = a /\ r.stack = s
BY DEF Records

\* A call with one thing changed.
LEMMA RecordWith ==
  ASSUME NEW r \in Records, NEW x
  PROVE  /\ [r EXCEPT !.stack = x] = [by |-> r.by, phase |-> r.phase, about |-> r.about, stack |-> x]
         /\ [r EXCEPT !.phase = x] = [by |-> r.by, phase |-> x, about |-> r.about, stack |-> r.stack]
         /\ [r EXCEPT !.about = x] = [by |-> r.by, phase |-> r.phase, about |-> x, stack |-> r.stack]
<1>1. PICK b, f, a, s : r = [by |-> b, phase |-> f, about |-> a, stack |-> s]
  BY DEF Records
<1>2. r.by = b /\ r.phase = f /\ r.about = a /\ r.stack = s
  BY <1>1
<1>3. [r EXCEPT !.stack = x] = [by |-> b, phase |-> f, about |-> a, stack |-> x]
  BY <1>1
<1>4. [r EXCEPT !.phase = x] = [by |-> b, phase |-> x, about |-> a, stack |-> s]
  BY <1>1
<1>5. [r EXCEPT !.about = x] = [by |-> b, phase |-> f, about |-> x, stack |-> s]
  BY <1>1
<1> QED BY <1>2, <1>3, <1>4, <1>5

\* With two.
LEMMA RecordWithTwo ==
  ASSUME NEW r \in Records, NEW x, NEW y
  PROVE  [r EXCEPT !.stack = x, !.phase = y]
         = [by |-> r.by, phase |-> y, about |-> r.about, stack |-> x]
<1>1. PICK b, f, a, s : r = [by |-> b, phase |-> f, about |-> a, stack |-> s]
  BY DEF Records
<1>2. r.by = b /\ r.about = a
  BY <1>1
<1> DEFINE one == [r EXCEPT !.stack = x]
<1>3. one = [by |-> b, phase |-> f, about |-> a, stack |-> x]
  BY <1>1
<1> HIDE DEF one
<1>4. [one EXCEPT !.phase = y] = [by |-> b, phase |-> y, about |-> a, stack |-> x]
  BY <1>3
<1> QED BY <1>2, <1>4 DEF one

\* With three.
LEMMA RecordWithThree ==
  ASSUME NEW r \in Records, NEW x, NEW y, NEW z
  PROVE  [r EXCEPT !.phase = y, !.about = z, !.stack = x]
         = [by |-> r.by, phase |-> y, about |-> z, stack |-> x]
<1>1. PICK b, f, a, s : r = [by |-> b, phase |-> f, about |-> a, stack |-> s]
  BY DEF Records
<1>2. r.by = b
  BY <1>1
<1> DEFINE one == [r EXCEPT !.phase = y]
           two == [one EXCEPT !.about = z]
<1>3. one = [by |-> b, phase |-> y, about |-> a, stack |-> s]
  BY <1>1
<1> HIDE DEF one
<1>4. two = [by |-> b, phase |-> y, about |-> z, stack |-> s]
  BY <1>3
<1> HIDE DEF two
<1>5. [two EXCEPT !.stack = x] = [by |-> b, phase |-> y, about |-> z, stack |-> x]
  BY <1>4
<1> QED BY <1>2, <1>5 DEF two, one

\* One call changes, in its record.
LEMMA OneIsHeld ==
  ASSUME CallsOK, NEW c \in Calls, NEW r, Held(r), calls' = [calls EXCEPT ![c] = r]
  PROVE  CallsOK' /\ calls'[c] = r /\ \A d \in Calls \ {c} : calls'[d] = calls[d]
<1>1. calls' = [d \in Calls |-> IF d = c THEN r ELSE calls[d]]
  BY DEF CallsOK
<1>2. \A d \in Calls : calls'[d] = IF d = c THEN r ELSE calls[d]
  BY <1>1
<1>3. calls' = [d \in Calls |-> calls'[d]]
  BY <1>1
<1>4. \A d \in Calls : Held(calls'[d])
  BY <1>2 DEF CallsOK
<1> QED BY <1>2, <1>3, <1>4 DEF CallsOK, Held

\* One call goes on with a stack within its own.
LEMMA OneGoes ==
  ASSUME CallsOK, NEW c \in Calls, NEW r, Held(r), calls' = [calls EXCEPT ![c] = r],
         Within(r.stack, calls[c].stack)
  PROVE  CallsOK' /\ Shrinks
<1>1. CallsOK' /\ calls'[c] = r /\ \A d \in Calls \ {c} : calls'[d] = calls[d]
  BY OneIsHeld
<1>2. \A d \in Calls \ {c} : Within(calls'[d].stack, calls[d].stack)
  BY <1>1 DEF Within
<1> QED BY <1>1, <1>2 DEF Shrinks

\* Within is transitive.
LEMMA WithinTrans ==
  ASSUME NEW s, NEW t, NEW u, Within(s, t), Within(t, u)
  PROVE  Within(s, u)
BY DEF Within

\* An empty stack marks nothing.
LEMMA NothingIsWithin ==
  ASSUME NEW s
  PROVE  Within(<<>>, s)
<1>1. Len(<<>>) = 0
  OBVIOUS
<1> QED BY <1>1 DEF Within, Landing

\* A call that goes on below the monitor.
LEMMA GoesOn ==
  ASSUME CallsOK, NEW c \in Calls, NEW t \in Stacks, Within(t, calls[c].stack), NEW new,
         new = IF Settled(t) = <<>> THEN Idle
               ELSE [by |-> calls[c].by, phase |-> "", about |-> calls[c].about, stack |-> Settled(t)],
         calls' = [calls EXCEPT ![c] = new]
  PROVE  CallsOK' /\ Shrinks
<1>1. Settled(t) \in Stacks /\ Lively(Settled(t)) /\ Within(Settled(t), calls[c].stack)
  <2>1. Settled(t) \in Stacks /\ Lively(Settled(t)) /\ Within(Settled(t), t)
    BY SettledIsLively
  <2> QED BY <2>1, WithinTrans
<1>2. calls[c] \in Records
  BY DEF CallsOK, Held
<1>3. CASE Settled(t) = <<>>
  <2>1. Held(new) /\ new.stack = <<>>
    BY <1>3, IdleIsHeld DEF Idle
  <2>2. Within(new.stack, calls[c].stack)
    BY <2>1, NothingIsWithin
  <2> QED BY <2>1, <2>2, OneGoes
<1>4. CASE Settled(t) # <<>>
  <2>1. "" \in Phases
    BY DEF Phases
  <2>2. calls[c].by \in Threads \cup {""} /\ calls[c].about \in Players
    BY <1>2, RecordOf
  <2>4. new \in Records /\ new.phase = "" /\ new.stack = Settled(t)
    <3>1. new = [by |-> calls[c].by, phase |-> "", about |-> calls[c].about, stack |-> Settled(t)]
      BY <1>4
    <3> DEFINE r == [by |-> calls[c].by, phase |-> "", about |-> calls[c].about, stack |-> Settled(t)]
    <3>2. r \in Records /\ r.phase = "" /\ r.stack = Settled(t)
      BY <1>1, <2>1, <2>2, RecordIs
    <3> HIDE DEF r
    <3>3. new = r
      BY <3>1 DEF r
    <3> QED BY <3>2, <3>3
  <2>3. Held(new) /\ Within(new.stack, calls[c].stack)
    BY <1>1, <2>4 DEF Held
  <2> QED BY <2>3, OneGoes
<1> QED BY <1>3, <1>4

\* A call that goes on outside the monitor stays in order.
LEMMA GoesKeeps ==
  ASSUME CallsOK, NEW c \in Calls, calls[c].phase = "", Goes(c)
  PROVE  CallsOK' /\ Shrinks
<1>1. PICK t \in Stacks : Within(t, calls[c].stack) /\ Becomes(c, t)
  BY DEF Goes
<1> DEFINE new == IF Settled(t) = <<>> THEN Idle ELSE [calls[c] EXCEPT !.stack = Settled(t)]
<1>2. calls' = [calls EXCEPT ![c] = new]
  BY <1>1 DEF Becomes
<1>3. new = IF Settled(t) = <<>> THEN Idle
            ELSE [by |-> calls[c].by, phase |-> "", about |-> calls[c].about, stack |-> Settled(t)]
  <2>1. calls[c] \in Records
    BY DEF CallsOK, Held
  <2>2. [calls[c] EXCEPT !.stack = Settled(t)]
        = [by |-> calls[c].by, phase |-> calls[c].phase, about |-> calls[c].about, stack |-> Settled(t)]
    BY <2>1, RecordWith
  <2> QED BY <2>2
<1> HIDE DEF new
<1> QED BY <1>1, <1>2, <1>3, GoesOn

\* What Becomes makes of the calls.
LEMMA BecomesThat ==
  ASSUME CallsOK, NEW c \in Calls, NEW t, Becomes(c, t)
  PROVE  /\ calls'[c].stack = Settled(t)
         /\ calls'[c].phase = IF Settled(t) = <<>> THEN "" ELSE calls[c].phase
         /\ \A d \in Calls \ {c} : calls'[d] = calls[d]
<1> DEFINE new == IF Settled(t) = <<>> THEN Idle ELSE [calls[c] EXCEPT !.stack = Settled(t)]
<1>1. calls' = [calls EXCEPT ![c] = new]
  BY DEF Becomes
<1>2. new.stack = Settled(t) /\ new.phase = IF Settled(t) = <<>> THEN "" ELSE calls[c].phase
  <2>1. CASE Settled(t) = <<>>
    BY <2>1 DEF Idle
  <2>2. CASE Settled(t) # <<>>
    <3>1. calls[c] \in Records
      BY DEF CallsOK, Held
    <3>2. /\ [calls[c] EXCEPT !.stack = Settled(t)].stack = Settled(t)
          /\ [calls[c] EXCEPT !.stack = Settled(t)].phase = calls[c].phase
      BY <3>1, RecordWith
    <3> QED BY <2>2, <3>2
  <2> QED BY <2>1, <2>2
<1> HIDE DEF new
<1>3. calls'[c] = new /\ \A d \in Calls \ {c} : calls'[d] = calls[d]
  BY <1>1 DEF CallsOK
<1> QED BY <1>2, <1>3

\* The top of a stack that is not empty has a deed to do.
LEMMA TopIsFrame ==
  ASSUME CallsOK, NEW c \in Calls, calls[c].stack # <<>>
  PROVE  /\ calls[c].stack \in Stacks /\ Top(c) \in Frames(Doings)
         /\ Top(c).items \in Seq(Doings) /\ Top(c).items # <<>>
         /\ Item(c) \in Doings /\ Who(c) \in Players /\ Item(c).deed \in OtherDeeds \cup {Landed}
<1>1. calls[c].stack \in Stacks /\ Lively(calls[c].stack)
  BY RecordOf DEF CallsOK, Held
<1>2. Top(c) \in Frames(Doings) /\ Top(c).items # <<>>
  BY <1>1 DEF Stacks, Lively, Top
<1>3. Top(c).items \in Seq(Doings)
  BY <1>2 DEF Frames
<1>4. Item(c) \in Doings
  BY <1>2, <1>3 DEF Item
<1>5. Item(c).who \in Players /\ Item(c).deed \in OtherDeeds \cup {Landed}
  BY <1>4 DEF Doings
<1> QED BY <1>1, <1>2, <1>3, <1>4, <1>5 DEF Who

\* What With and Continue make of the stack.
LEMMA Pushed ==
  ASSUME CallsOK, NEW c \in Calls, calls[c].stack # <<>>, NEW q \in Seq(Quiet)
  PROVE  LET f == [Top(c) EXCEPT !.items = q \o Tail(@)]
             t == <<f>> \o Tail(calls[c].stack) IN
         /\ f \in Frames(Doings) /\ f.items = q \o Tail(Top(c).items)
         /\ t \in Stacks /\ Within(t, calls[c].stack)
         /\ t # <<>> /\ t[1] = f /\ Len(t) = Len(calls[c].stack) /\ Len(t) \in Nat
<1> DEFINE r == Tail(Top(c).items)
           f == [Top(c) EXCEPT !.items = q \o Tail(@)]
           t == <<f>> \o Tail(calls[c].stack)
<1>1. /\ calls[c].stack \in Stacks /\ Top(c) \in Frames(Doings)
      /\ Top(c).items \in Seq(Doings) /\ Top(c).items # <<>>
  BY TopIsFrame
<1>2. r \in Seq(Doings) /\ q \o r \in Seq(Doings)
  BY <1>1, QuietAreDoings
<1>3. f \in Frames(Doings) /\ f.items = q \o r
  BY <1>1, <1>2 DEF Frames
<1> HIDE DEF f, r
<1>4. ASSUME NEW p \in Players, NEW b \in Nat, Marked(f.items, p, b)
      PROVE  Marked(calls[c].stack[1].items, p, b)
  <2>1. Marked(r, p, b)
    BY <1>2, <1>3, <1>4, MarkedCat
  <2> QED BY <1>1, <2>1, MarkedTail DEF r, Top
<1>5. t \in Stacks /\ Within(t, calls[c].stack)
  BY <1>1, <1>3, <1>4, TopIsWithin
<1>6. t # <<>> /\ t[1] = f /\ Len(t) = Len(calls[c].stack) /\ Len(t) \in Nat
  BY <1>1, <1>3 DEF Stacks
<1> QED BY <1>3, <1>5, <1>6 DEF f, r

\* A call goes on with quiet deeds first,
LEMMA WithGoes ==
  ASSUME CallsOK, NEW c \in Calls, calls[c].stack # <<>>, NEW q \in Seq(Quiet), With(c, q)
  PROVE  Goes(c)
BY Pushed DEF With, Goes

\* What is left of a stack when its first deed is done.
LEMMA RestIsWithin ==
  ASSUME CallsOK, NEW c \in Calls, calls[c].stack # <<>>
  PROVE  /\ Rest(c) \in Stacks /\ Within(Rest(c), calls[c].stack) /\ Rest(c) # <<>>
         /\ Rest(c)[1].items = Tail(Top(c).items)
         /\ Len(Rest(c)) = Len(calls[c].stack) /\ Len(Rest(c)) \in Nat
<1>1. <<>> \in Seq(Quiet)
  BY EmptySeq
<1>2. Top(c) \in Frames(Doings) /\ Tail(Top(c).items) \in Seq(Doings)
  BY TopIsFrame
<1>3. <<>> \o Tail(Top(c).items) = Tail(Top(c).items)
  BY <1>2, ConcatEmptySeq
<1> DEFINE f == [Top(c) EXCEPT !.items = <<>> \o Tail(@)]
           t == <<f>> \o Tail(calls[c].stack)
<1>4. t = Rest(c)
  BY <1>3 DEF Rest
<1>5. /\ f.items = <<>> \o Tail(Top(c).items)
      /\ t \in Stacks /\ Within(t, calls[c].stack)
      /\ t # <<>> /\ t[1] = f /\ Len(t) = Len(calls[c].stack) /\ Len(t) \in Nat
  BY <1>1, Pushed
<1> HIDE DEF f, t
<1> QED BY <1>3, <1>4, <1>5

\* with its next deed,
LEMMA ContinueGoes ==
  ASSUME CallsOK, NEW c \in Calls, calls[c].stack # <<>>, Continue(c)
  PROVE  Goes(c)
BY RestIsWithin DEF Continue, Goes

\* under quiet frames,
LEMMA UnderGoes ==
  ASSUME CallsOK, NEW c \in Calls, calls[c].stack # <<>>, NEW q \in Seq(Frames(Quiet)), Under(c, q)
  PROVE  Goes(c)
<1>1. Rest(c) \in Stacks /\ Within(Rest(c), calls[c].stack)
  BY RestIsWithin
<1>2. q \o Rest(c) \in Stacks /\ Within(q \o Rest(c), calls[c].stack)
  BY <1>1, LandingCat, WithinTrans
<1> QED BY <1>2 DEF Under, Goes

\* What is left of a stack after an error.
LEMMA PastIsWithin ==
  ASSUME CallsOK, NEW c \in Calls, NEW kind
  PROVE  Past(c, kind) \in Stacks /\ Within(Past(c, kind), calls[c].stack)
<1> DEFINE s == calls[c].stack
           caught == {i \in DOMAIN s : s[i].kind = kind}
<1>1. s \in Stacks
  BY RecordOf DEF CallsOK, Held
<1>2. Len(s) \in Nat /\ DOMAIN s = 1..Len(s)
  BY <1>1 DEF Stacks
<1>3. CASE caught = {}
  <2>1. Past(c, kind) = <<>>
    BY <1>3 DEF Past
  <2>2. <<>> \in Stacks
    BY EmptySeq DEF Stacks
  <2> QED BY <2>1, <2>2, NothingIsWithin
<1>4. CASE caught # {}
  <2>1. caught \subseteq Nat
    BY <1>2
  <2>2. Min(caught) \in caught
    <3> HIDE DEF caught
    <3> QED BY <1>4, <2>1, Smallest
  <2>3. Past(c, kind) = SubSeq(s, Min(caught) + 1, Len(s))
    BY <1>4 DEF Past
  <2>4. Min(caught) + 1 \in 1..(Len(s) + 1)
    BY <1>2, <2>2
  <2> HIDE DEF s, caught
  <2> QED BY <1>1, <2>3, <2>4, SuffixIsWithin DEF s
<1> QED BY <1>3, <1>4

\* after an error.
LEMMA ErrorGoes ==
  ASSUME CallsOK, NEW c \in Calls, Error(c) \/ Crash(c)
  PROVE  Goes(c)
BY PastIsWithin DEF Error, Crash, Goes

\* Deeds for each of some players.
LEMMA InTurnIsQuiet ==
  ASSUME NEW S \in SUBSET Players, NEW order \in SetToSeqs(S), NEW f,
         f = [i \in DOMAIN order |-> f[i]],
         \A p \in S : \A i \in DOMAIN order : order[i] = p => f[i] \in Seq(Quiet)
  PROVE  FlattenSeq(f) \in Seq(Quiet)
<1>1. Cardinality(S) \in Nat
  BY EventAssumption, FS_Subset, FS_CardinalityType
<1>2. order \in [1..Cardinality(S) -> S]
  BY DEF SetToSeqs
<1>3. f \in [1..Cardinality(S) -> Seq(Quiet)]
  BY <1>2
<1> QED BY <1>1, <1>3, FlattenIsSeq

-----------------------------------------------------------------------------
(***************************************************************************)
(* Every deed outside the monitor lets its call go on.                     *)
(***************************************************************************)
\* The handlers of a script are quiet.
LEMMA HandlersAreQuiet ==
  ASSUME setting \in Settings, NEW h \in Handlers, NEW p \in Players
  PROVE  /\ Items(script[h], p) \in Seq(Quiet)
         /\ Invoked(h, "", p) \in Frames(Quiet)
         /\ \A to \in Ways : Invoked(h, to, p) \in Frames(Quiet)
<1>1. script[h] \in Seq(OtherDeeds)
  BY DeedsAssumption, QuietAreDoings DEF script
<1>2. Items(script[h], p) \in Seq(Quiet)
  BY <1>1, ScriptsAreQuiet
<1> QED BY <1>2 DEF Invoked, Frame, Frames

\* One element is a sequence.
LEMMA OneIsASeq ==
  ASSUME NEW D, NEW f \in D
  PROVE  <<f>> \in Seq(D)
OBVIOUS

\* Two are.
LEMMA TwoAreASeq ==
  ASSUME NEW D, NEW f \in D, NEW g \in D
  PROVE  <<f, g>> \in Seq(D)
OBVIOUS

\* A sequence with its head replaced.
LEMMA HeadReplaced ==
  ASSUME NEW D, NEW u \in Seq(D), NEW g \in D, NEW h \in D
  PROVE  [<<g>> \o u EXCEPT ![1] = h] = <<h>> \o u
<1> DEFINE s == <<g>> \o u  t == <<h>> \o u
<1>1. /\ s \in Seq(D) /\ Len(s) = Len(u) + 1 /\ Len(u) \in Nat
      /\ \A i \in 1..Len(s) : s[i] = IF i = 1 THEN g ELSE u[i-1]
  OBVIOUS
<1>2. /\ t \in Seq(D) /\ Len(t) = Len(u) + 1
      /\ \A i \in 1..Len(t) : t[i] = IF i = 1 THEN h ELSE u[i-1]
  OBVIOUS
<1> HIDE DEF s, t
<1>3. 1 \in 1..Len(s)
  BY <1>1
<1>4. /\ [s EXCEPT ![1] = h] \in Seq(D) /\ Len([s EXCEPT ![1] = h]) = Len(s)
      /\ \A i \in 1..Len(s) : [s EXCEPT ![1] = h][i] = IF i = 1 THEN h ELSE s[i]
  BY <1>1, <1>3, ExceptSeq
<1>5. [s EXCEPT ![1] = h] = t
  BY <1>1, <1>2, <1>4, SeqEqual
<1> QED BY <1>5 DEF s, t

\* Deeds put before the rest of the call's.
LEMMA RestPrefixed ==
  ASSUME CallsOK, NEW c \in Calls, calls[c].stack # <<>>, NEW q \in Seq(Doings)
  PROVE  [Rest(c) EXCEPT ![1].items = q \o @]
         = <<[Top(c) EXCEPT !.items = q \o Tail(@)]>> \o Tail(calls[c].stack)
<1> DEFINE g == [Top(c) EXCEPT !.items = Tail(@)]
           h == [Top(c) EXCEPT !.items = q \o Tail(@)]
           u == Tail(calls[c].stack)
<1>1. /\ calls[c].stack \in Stacks /\ Top(c) \in Frames(Doings)
      /\ Top(c).items \in Seq(Doings) /\ Top(c).items # <<>>
  BY TopIsFrame
<1>2. u \in Seq(Frames(Doings))
  BY <1>1 DEF Stacks
<1>3. [g EXCEPT !.items = q \o @] = h
  BY <1>1 DEF Frames
<1>4. h \in Frames(Doings)
  <2>1. q \o Tail(Top(c).items) \in Seq(Doings)
    BY <1>1
  <2> QED BY <1>1, <2>1 DEF Frames
<1>5. g \in Frames(Doings)
  <2>1. Tail(Top(c).items) \in Seq(Doings)
    BY <1>1
  <2> QED BY <1>1, <2>1 DEF Frames
<1> HIDE DEF g, h, u
<1>6. [<<g>> \o u EXCEPT ![1] = h] = <<h>> \o u
  BY <1>2, <1>4, <1>5, HeadReplaced
<1>7. (<<g>> \o u)[1] = g
  BY <1>2, <1>5
<1>8. Rest(c) = <<g>> \o u
  BY DEF Rest, g, u
<1>9. [Rest(c) EXCEPT ![1].items = q \o @] = [<<g>> \o u EXCEPT ![1] = h]
  BY <1>3, <1>7, <1>8
<1> QED BY <1>6, <1>9 DEF h, u

\* A frame is what it is made of.
LEMMA FramesAreMade ==
  ASSUME NEW kind \in {"script", "sync", "safe", "java"}, NEW to \in Ways \cup {""},
         NEW D, NEW items \in Seq(D)
  PROVE  Frame(kind, to, items) \in Frames(D)
BY DEF Frame, Frames

\* One deed, two deeds of the Java code.
LEMMA JavaItems ==
  ASSUME NEW d \in OtherDeeds, NEW e \in OtherDeeds, NEW p \in Players
  PROVE  /\ Items(<<d>>, p) \in Seq(Quiet) /\ Items(<<d, e>>, p) \in Seq(Quiet)
         /\ Items(<<d>>, p) # <<>> /\ Items(<<d, e>>, p) # <<>>
<1>1. <<d>> \in Seq(OtherDeeds) /\ <<d, e>> \in Seq(OtherDeeds)
  OBVIOUS
<1>2. Len(Items(<<d>>, p)) = 1 /\ Len(Items(<<d, e>>, p)) = 2
  <2>1. Len(<<d>>) = 1 /\ Len(<<d, e>>) = 2
    OBVIOUS
  <2> QED BY <1>1, <2>1, ItemsAreDoings
<1>3. Len(<<>>) = 0
  BY EmptySeq
<1>4. Items(<<d>>, p) # <<>> /\ Items(<<d, e>>, p) # <<>>
  <2>1. PICK x, y : x = Items(<<d>>, p) /\ y = Items(<<d, e>>, p)
    OBVIOUS
  <2>2. Len(x) = 1 /\ Len(y) = 2
    BY <1>2, <2>1
  <2>3. x # <<>> /\ y # <<>>
    BY <1>3, <2>2
  <2> QED BY <2>1, <2>3
<1> QED BY <1>1, <1>4, ScriptsAreQuiet

\* The deeds of the Java code are quiet.
LEMMA JavaDeedsAre ==
  /\ {Register, PassLead, Lead, LeadParty, Seal, FreeLobby, Dismiss, Standard, Vanish,
      Unregister, Dispose} \subseteq OtherDeeds
  /\ \A to \in Ways : Go(to) \in OtherDeeds /\ Warp(to) \in OtherDeeds
  /\ \A h \in Handlers : Invoke(h) \in OtherDeeds /\ Ask(h) \in OtherDeeds
BY DEF OtherDeeds, JavaDeeds

\* What a call about to do a deed is about.
LEMMA DoesWhat ==
  ASSUME CallsOK, NEW c \in Calls, NEW what, Does(c, what)
  PROVE  /\ calls[c].phase = "" /\ calls[c].stack # <<>> /\ Who(c) \in Players
         /\ what \in {"call", "invoke", "ask"} => To(c) \in Handlers
         /\ what \in {"go", "warp", "warp team"} => To(c) \in Ways
         /\ Items(Item(c).deed.yes, Who(c)) \in Seq(Quiet)
         /\ Items(Item(c).deed.no, Who(c)) \in Seq(Quiet)
         /\ \A p \in Players : Items(Item(c).deed.yes, p) \in Seq(Quiet)
<1>1. calls[c].phase = "" /\ calls[c].stack # <<>> /\ Item(c).deed.do = what
  BY DEF Does
<1>2. Who(c) \in Players /\ Item(c).deed \in OtherDeeds \cup {Landed}
  BY <1>1, TopIsFrame
<1>3. DeedOK(Item(c).deed)
  BY <1>2, DeedsAreMade
<1>4. Item(c).deed.yes \in Seq(OtherDeeds) /\ Item(c).deed.no \in Seq(OtherDeeds)
  BY <1>3, QuietAreDoings DEF DeedOK
<1> QED BY <1>1, <1>2, <1>3, <1>4, ScriptsAreQuiet DEF DeedOK, To

\* The deeds that only let the call go on.
LEMMA ContinuingGoes ==
  ASSUME CallsOK, NEW c \in Calls,
         \/ DoUnregister(c) \/ DoWarp(c) \/ DoLanded(c) \/ DoPutOut(c) \/ DoBreaks(c)
         \/ DoFreeLobby(c) \/ DoStartTimer(c) \/ DoStopTimer(c) \/ DoDismiss(c) \/ DoLater(c)
         \/ DoLead(c) \/ DoLeadParty(c) \/ DoVanish(c)
  PROVE  Goes(c) /\ calls[c].phase = ""
<1>1. \E what : Does(c, what)
  BY DEF DoUnregister, DoWarp, DoLanded, DoPutOut, DoBreaks, DoFreeLobby, DoStartTimer,
     DoStopTimer, DoDismiss, DoLater, DoLead, DoLeadParty, DoVanish
<1>2. calls[c].phase = "" /\ calls[c].stack # <<>>
  BY <1>1 DEF Does
<1>3. Continue(c) \/ Error(c) \/ Crash(c)
  BY DEF DoUnregister, DoWarp, DoLanded, DoPutOut, DoBreaks, DoFreeLobby, DoStartTimer,
     DoStopTimer, DoDismiss, DoLater, DoLead, DoLeadParty, DoVanish
<1> QED BY <1>2, <1>3, ContinueGoes, ErrorGoes

\* The deeds that put one of the Java code first.
LEMMA DisposeGoes ==
  ASSUME CallsOK, NEW c \in Calls, DoDispose(c) \/ DoSetCleared(c)
  PROVE  Goes(c) /\ calls[c].phase = ""
<1>1. \E what : Does(c, what)
  BY DEF DoDispose, DoSetCleared
<1>2. calls[c].phase = "" /\ calls[c].stack # <<>> /\ Who(c) \in Players
  BY <1>1, DoesWhat
<1>3. Items(<<Seal>>, Who(c)) \in Seq(Quiet) /\ Items(<<FreeLobby>>, Who(c)) \in Seq(Quiet)
  BY <1>2, JavaItems, JavaDeedsAre
<1> QED BY <1>2, <1>3, WithGoes DEF DoDispose, DoSetCleared

\* A function of the script calls another.
LEMMA CallGoes ==
  ASSUME CallsOK, setting \in Settings, NEW c \in Calls, DoCall(c)
  PROVE  Goes(c) /\ calls[c].phase = ""
<1>1. calls[c].phase = "" /\ calls[c].stack # <<>> /\ Who(c) \in Players /\ To(c) \in Handlers
  BY DoesWhat DEF DoCall
<1> QED BY <1>1, HandlersAreQuiet, WithGoes DEF DoCall

\* Whatever the answer, it goes on with deeds of the script.
LEMMA IfGoes ==
  ASSUME CallsOK, NEW c \in Calls, DoIf(c)
  PROVE  Goes(c) /\ calls[c].phase = ""
<1>1. Does(c, "if")
  BY DEF DoIf
<1>2. PICK answer : With(c, Items(IF answer THEN Item(c).deed.yes ELSE Item(c).deed.no, Who(c)))
  BY DEF DoIf
<1>3. With(c, Items(Item(c).deed.yes, Who(c))) \/ With(c, Items(Item(c).deed.no, Who(c)))
  BY <1>2
<1> QED BY <1>1, <1>3, DoesWhat, WithGoes

\* So it does for the first of the players,
LEMMA FirstGoes ==
  ASSUME CallsOK, chars \subseteq Players, NEW c \in Calls, DoFirst(c)
  PROVE  Goes(c) /\ calls[c].phase = ""
<1>1. Does(c, "first") /\ calls[c].phase = ""
  BY DEF DoFirst, Does
<1>2. CASE Crash(c)
  BY <1>1, <1>2, ErrorGoes
<1>3. CASE \E p \in chars : With(c, Items(Item(c).deed.yes, p))
  BY <1>1, <1>3, DoesWhat, WithGoes
<1> QED BY <1>2, <1>3 DEF DoFirst

\* and for each of them.
LEMMA InTurnGoes ==
  ASSUME CallsOK, setting \in Settings, chars \subseteq Players, NEW c \in Calls,
         DoExitAll(c) \/ DoExitOthers(c) \/ DoWarpTeam(c)
  PROVE  Goes(c) /\ calls[c].phase = ""
<1>1. \E what : Does(c, what)
  BY DEF DoExitAll, DoExitOthers, DoWarpTeam
<1>2. calls[c].phase = "" /\ calls[c].stack # <<>> /\ Who(c) \in Players
  BY <1>1, DoesWhat
<1>3. CASE DoExitAll(c)
  <2>1. PICK order \in SetToSeqs(chars) :
          With(c, FlattenSeq([i \in DOMAIN order |-> Items(script.exit, order[i])]))
    BY <1>3 DEF DoExitAll, InTurn
  <2>2. \A p \in chars : Items(script.exit, p) \in Seq(Quiet)
    BY HandlersAreQuiet DEF Handlers
  <2> DEFINE f == [i \in DOMAIN order |-> Items(script.exit, order[i])]
  <2>3. /\ f = [i \in DOMAIN order |-> f[i]]
       /\ \A p \in chars :
            \A i \in DOMAIN order : order[i] = p => f[i] \in Seq(Quiet)
    BY <2>2
  <2>4. With(c, FlattenSeq(f))
    BY <2>1
  <2> HIDE DEF f
  <2>5. FlattenSeq(f) \in Seq(Quiet)
    BY <2>3, InTurnIsQuiet
  <2> QED BY <1>2, <2>4, <2>5, WithGoes
<1>4. CASE DoExitOthers(c)
  <2> DEFINE Of(p) == Items(IF p = Who(c) THEN script.removed ELSE script.exit, p)
  <2>1. PICK order \in SetToSeqs(chars) :
          With(c, FlattenSeq([i \in DOMAIN order |-> Of(order[i])]))
    BY <1>4 DEF DoExitOthers, InTurn
  <2>2. \A p \in chars : Of(p) \in Seq(Quiet)
    BY HandlersAreQuiet DEF Handlers
  <2> DEFINE f == [i \in DOMAIN order |-> Of(order[i])]
  <2>3. /\ f = [i \in DOMAIN order |-> f[i]]
       /\ \A p \in chars :
            \A i \in DOMAIN order : order[i] = p => f[i] \in Seq(Quiet)
    BY <2>2
  <2>4. With(c, FlattenSeq(f))
    BY <2>1
  <2> HIDE DEF f
  <2>5. FlattenSeq(f) \in Seq(Quiet)
    BY <2>3, InTurnIsQuiet
  <2> QED BY <1>2, <2>4, <2>5, WithGoes
<1>5. CASE DoWarpTeam(c)
  <2> DEFINE Of(p) == Items(<<Go(To(c))>>, p)
  <2>1. PICK order \in SetToSeqs(chars) :
          With(c, FlattenSeq([i \in DOMAIN order |-> Of(order[i])]))
    BY <1>5 DEF DoWarpTeam, InTurn
  <2>2. To(c) \in Ways
    BY <1>5, DoesWhat DEF DoWarpTeam
  <2>3. \A p \in chars : Of(p) \in Seq(Quiet)
    BY <2>2, JavaItems, JavaDeedsAre
  <2> DEFINE f == [i \in DOMAIN order |-> Of(order[i])]
  <2>4. /\ f = [i \in DOMAIN order |-> f[i]]
       /\ \A p \in chars :
            \A i \in DOMAIN order : order[i] = p => f[i] \in Seq(Quiet)
    BY <2>3
  <2>5. With(c, FlattenSeq(f))
    BY <2>1
  <2> HIDE DEF f
  <2>6. FlattenSeq(f) \in Seq(Quiet)
    BY <2>4, InTurnIsQuiet
  <2> QED BY <1>2, <2>5, <2>6, WithGoes
<1> QED BY <1>3, <1>4, <1>5

\* disposeIfPlayerBelow has a frame of its own.
LEMMA EndIfBelowGoes ==
  ASSUME CallsOK, chars \subseteq Players, NEW c \in Calls, DoEndIfBelow(c)
  PROVE  Goes(c) /\ calls[c].phase = ""
<1>1. calls[c].phase = "" /\ calls[c].stack # <<>> /\ Who(c) \in Players
  BY DoesWhat DEF DoEndIfBelow
<1>2. CASE Continue(c)
  BY <1>1, <1>2, ContinueGoes
<1>3. CASE ~Continue(c)
  <2> DEFINE Of(p) == Items(<<Unregister, Go("out")>>, p)
  <2>1. PICK order \in SetToSeqs(chars) :
          Under(c, <<Frame("safe", "", FlattenSeq([i \in DOMAIN order |-> Of(order[i])])
                                       \o Items(<<Dispose>>, Who(c)))>>)
    BY <1>3 DEF DoEndIfBelow
  <2>2. \A p \in chars : Of(p) \in Seq(Quiet)
    BY JavaItems, JavaDeedsAre DEF Ways
  <2> DEFINE f == [i \in DOMAIN order |-> Of(order[i])]
             q == FlattenSeq(f) \o Items(<<Dispose>>, Who(c))
  <2>3. /\ f = [i \in DOMAIN order |-> f[i]]
       /\ \A p \in chars :
            \A i \in DOMAIN order : order[i] = p => f[i] \in Seq(Quiet)
    BY <2>2
  <2>4. Under(c, <<Frame("safe", "", q)>>)
    BY <2>1
  <2>5. FlattenSeq(f) \in Seq(Quiet)
    <3> HIDE DEF f
    <3> QED BY <2>3, InTurnIsQuiet
  <2>6. Items(<<Dispose>>, Who(c)) \in Seq(Quiet)
    BY <1>1, JavaItems, JavaDeedsAre
  <2> HIDE DEF f
  <2>7. q \in Seq(Quiet)
    BY <2>5, <2>6
  <2> HIDE DEF q
  <2>8. <<Frame("safe", "", q)>> \in Seq(Frames(Quiet))
    <3>1. Frame("safe", "", q) \in Frames(Quiet)
      BY <2>7, FramesAreMade
    <3> QED BY <3>1, OneIsASeq
  <2> QED BY <1>1, <2>4, <2>8, UnderGoes
<1> QED BY <1>2, <1>3

\* The standard respawn is left out of the frame below.
LEMMA HandledGoes ==
  ASSUME CallsOK, NEW c \in Calls, DoHandled(c)
  PROVE  Goes(c) /\ calls[c].phase = ""
<1>1. calls[c].phase = "" /\ calls[c].stack # <<>>
  BY DEF DoHandled, Does
<1>2. PICK r \in Stacks : r = Rest(c) /\ Within(r, calls[c].stack)
  BY <1>1, RestIsWithin
<1>3. Becomes(c, IF Len(r) > 1 /\ r[2].items # <<>> THEN [r EXCEPT ![2].items = Tail(@)] ELSE r)
  BY <1>2 DEF DoHandled
<1>4. CASE ~(Len(r) > 1 /\ r[2].items # <<>>)
  <2>1. Becomes(c, r)
    BY <1>3, <1>4
  <2> QED BY <1>1, <1>2, <2>1 DEF Goes
<1>5. CASE Len(r) > 1 /\ r[2].items # <<>>
  <2> DEFINE f == [r[2] EXCEPT !.items = Tail(@)]
             t == [r EXCEPT ![2] = f]
  <2>1. Becomes(c, t)
    BY <1>3, <1>5
  <2>0. Len(r) \in Nat
    BY DEF Stacks
  <2>2. 2 \in 1..Len(r) /\ r[2] \in Frames(Doings) /\ r[2].items \in Seq(Doings)
    <3>1. 2 \in 1..Len(r)
      BY <1>5, <2>0
    <3>2. r[2] \in Frames(Doings)
      BY <3>1 DEF Stacks
    <3> QED BY <3>1, <3>2 DEF Frames
  <2>3. Tail(r[2].items) \in Seq(Doings)
    BY <1>5, <2>2
  <2>4. f \in Frames(Doings) /\ f.items = Tail(r[2].items)
    BY <2>2, <2>3 DEF Frames
  <2> HIDE DEF f
  <2>5. t \in Stacks /\ Len(t) = Len(r) /\ \A i \in 1..Len(r) : t[i] = IF i = 2 THEN f ELSE r[i]
    BY <2>2, <2>4, ExceptSeq DEF Stacks
  <2> HIDE DEF t
  <2>6. ASSUME NEW p \in Players, NEW a \in Nat, NEW b \in Nat, Landing(t, p, a, b)
        PROVE  Landing(r, p, a, b)
    <3>1. a < Len(r) /\ Marked(t[Len(r) - a].items, p, b)
      BY <2>5, <2>6 DEF Landing
    <3>4. Len(r) - a \in 1..Len(r)
      BY <2>0, <3>1
    <3>2. CASE Len(r) - a = 2
      <4>1. Marked(f.items, p, b)
        BY <2>2, <2>5, <3>1, <3>2
      <4>2. Marked(r[2].items, p, b)
        BY <1>5, <2>2, <2>4, <4>1, MarkedTail
      <4> QED BY <3>1, <3>2, <4>2 DEF Landing
    <3>3. CASE Len(r) - a # 2
      BY <2>5, <3>1, <3>3, <3>4 DEF Landing
    <3> QED BY <3>2, <3>3
  <2>7. Within(t, r)
    BY <2>6 DEF Within
  <2>8. Within(t, calls[c].stack)
    BY <1>2, <2>7, WithinTrans
  <2>9. Becomes(c, t)
    BY <2>1 DEF t, f
  <2> QED BY <1>1, <2>5, <2>8, <2>9 DEF Goes
<1> QED BY <1>4, <1>5

\* A handler begins, or not.
LEMMA InvokeGoes ==
  ASSUME CallsOK, setting \in Settings, NEW c \in Calls, DoInvoke(c)
  PROVE  Goes(c) /\ calls[c].phase = ""
<1>1. /\ calls[c].phase = "" /\ calls[c].stack # <<>> /\ Who(c) \in Players
      /\ To(c) \in Handlers
  BY DoesWhat DEF DoInvoke
<1>2. CASE Continue(c)
  BY <1>1, <1>2, ContinueGoes
<1>3. CASE ~Continue(c)
  <2>1. Under(c, <<Invoked(To(c), "", Who(c))>>)
    BY <1>3 DEF DoInvoke
  <2>2. Invoked(To(c), "", Who(c)) \in Frames(Quiet)
    BY <1>1, HandlersAreQuiet
  <2>3. <<Invoked(To(c), "", Who(c))>> \in Seq(Frames(Quiet))
    BY <2>2, OneIsASeq
  <2> QED BY <1>1, <2>1, <2>3, UnderGoes
<1> QED BY <1>2, <1>3

\* The standard respawn is a change of map.
LEMMA StandardGoes ==
  ASSUME CallsOK, NEW c \in Calls, DoStandard(c)
  PROVE  Goes(c) /\ calls[c].phase = ""
<1>1. calls[c].phase = "" /\ calls[c].stack # <<>> /\ Who(c) \in Players
  BY DoesWhat DEF DoStandard
<1>2. PICK to \in Ways : With(c, Items(<<Go(to)>>, Who(c)))
  BY DEF DoStandard, Ways
<1> QED BY <1>1, <1>2, JavaItems, JavaDeedsAre, WithGoes

\* The event is told of its new leader, or only the party is.
LEMMA PassLeadGoes ==
  ASSUME CallsOK, NEW c \in Calls, DoPassLead(c)
  PROVE  Goes(c) /\ calls[c].phase = ""
<1>1. calls[c].phase = "" /\ calls[c].stack # <<>> /\ Who(c) \in Players
  BY DoesWhat DEF DoPassLead
<1> DEFINE q == Items(<<LeadParty>>, Who(c))
           n == Items(<<Invoke("chief"), Lead>>, Who(c))
<1>2. q \in Seq(Quiet)
  BY <1>1, JavaItems, JavaDeedsAre
<1>3. n \in Seq(Quiet)
  <2>1. Invoke("chief") \in OtherDeeds /\ Lead \in OtherDeeds
    BY JavaDeedsAre DEF Handlers
  <2> QED BY <1>1, <2>1, JavaItems
<1>4. CASE With(c, q)
  <2> HIDE DEF q
  <2> QED BY <1>1, <1>2, <1>4, WithGoes
<1>5. CASE ~With(c, q)
  <2>1. Becomes(c, <<Frame("sync", "", n)>> \o [Rest(c) EXCEPT ![1].items = q \o @])
    BY <1>5 DEF DoPassLead
  <2> HIDE DEF q, n
  <2> DEFINE f == [Top(c) EXCEPT !.items = q \o Tail(@)]
             t == <<f>> \o Tail(calls[c].stack)
  <2>2. t \in Stacks /\ Within(t, calls[c].stack)
    BY <1>1, <1>2, Pushed
  <2>3. [Rest(c) EXCEPT ![1].items = q \o @] = t
    BY <1>1, <1>2, QuietAreDoings, RestPrefixed
  <2>4. <<Frame("sync", "", n)>> \in Seq(Frames(Quiet))
    <3>1. Frame("sync", "", n) \in Frames(Quiet)
      BY <1>3, FramesAreMade
    <3> QED BY <3>1, OneIsASeq
  <2> HIDE DEF t
  <2>5. /\ <<Frame("sync", "", n)>> \o t \in Stacks
        /\ Within(<<Frame("sync", "", n)>> \o t, calls[c].stack)
    BY <2>2, <2>4, LandingCat, WithinTrans
  <2> QED BY <1>1, <2>1, <2>3, <2>5 DEF Goes
<1> QED BY <1>4, <1>5

-----------------------------------------------------------------------------
(***************************************************************************)
(* The counters cover the places.                                          *)
(***************************************************************************)
\* The places where the calls count off a change of map of p, which the counter covers.
Marks(cs, p) == {m \in Calls \X Nat \X Nat : Landing(cs[m[1]].stack, p, m[2], m[3])}
Counted ==
  /\ warps \in [Players -> Nat]
  /\ \A p \in Players : /\ IsFiniteSet(Marks(calls, p))
                         /\ Cardinality(Marks(calls, p)) <= warps[p]

\* When the calls mark no more than before and the counters stay, they are still covered.
LEMMA ShrinkingCounts ==
  ASSUME Counted, Shrinks, UNCHANGED warps
  PROVE  Counted'
<1>1. ASSUME NEW p \in Players
      PROVE  IsFiniteSet(Marks(calls', p)) /\ Cardinality(Marks(calls', p)) <= warps[p]
  <2> DEFINE A == Marks(calls, p)  B == Marks(calls', p)
  <2>1. B \subseteq A /\ IsFiniteSet(A) /\ Cardinality(A) <= warps[p] /\ warps[p] \in Nat
    BY DEF Counted, Shrinks, Within, Marks
  <2> HIDE DEF A, B
  <2>2. /\ IsFiniteSet(B) /\ Cardinality(B) <= Cardinality(A)
        /\ Cardinality(B) \in Nat /\ Cardinality(A) \in Nat
    BY <2>1, FS_Subset, FS_CardinalityType
  <2> QED BY <2>1, <2>2 DEF B
<1> QED BY <1>1 DEF Counted

\* Where the deed a call is about to do stands, counted from the end.
Here(c) == <<c, Len(calls[c].stack) - 1, Len(Top(c).items) - 1>>

\* A call about to count a change of map off has a mark there.
LEMMA HereIsAMark ==
  ASSUME CallsOK, NEW c \in Calls, Does(c, "landed")
  PROVE  Here(c) \in Marks(calls, Who(c))
<1>1. /\ calls[c].stack \in Stacks /\ calls[c].stack # <<>>
      /\ Top(c).items \in Seq(Doings) /\ Top(c).items # <<>> /\ Item(c).deed.do = "landed"
  BY TopIsFrame DEF Does
<1> DEFINE a == Len(calls[c].stack) - 1
           b == Len(Top(c).items) - 1
<1>2. a \in Nat /\ a < Len(calls[c].stack) /\ Len(calls[c].stack) - a = 1
  BY <1>1 DEF Stacks
<1>3. b \in Nat /\ b < Len(Top(c).items) /\ Len(Top(c).items) - b = 1
  BY <1>1
<1> HIDE DEF a, b
<1>4. Marked(Top(c).items, Who(c), b)
  BY <1>1, <1>3 DEF Marked, Who, Item
<1>5. Landing(calls[c].stack, Who(c), a, b)
  BY <1>2, <1>4 DEF Landing, Top
<1>6. <<c, a, b>> \in Marks(calls, Who(c))
  BY <1>2, <1>3, <1>5 DEF Marks
<1> QED BY <1>6 DEF Here, a, b

\* Counting one off takes its mark away, and only one.
LEMMA LandedCounts ==
  ASSUME CallsOK, Counted, NEW c \in Calls, DoLanded(c)
  PROVE  Counted'
<1>0. PICK p, h : p = Who(c) /\ h = Here(c)
  OBVIOUS
<1>1. /\ Does(c, "landed") /\ Continue(c) /\ calls[c].phase = "" /\ calls[c].stack # <<>>
      /\ warps' = [warps EXCEPT ![p] = @ - 1]
  BY <1>0 DEF DoLanded, Does
<1>2. /\ calls[c].stack \in Stacks /\ p \in Players
      /\ Top(c).items \in Seq(Doings) /\ Top(c).items # <<>>
  BY <1>0, <1>1, TopIsFrame
<1>3. Shrinks
  BY <1>1, ContinueGoes, GoesKeeps
<1>4. h \notin Marks(calls', p)
  <2>1. PICK s, a, b : s = calls[c].stack /\ a = Len(s) - 1 /\ b = Len(Top(c).items) - 1
    OBVIOUS
  <2>2. PICK r : r = Rest(c)
    OBVIOUS
  <2>3. /\ r \in Stacks /\ r # <<>> /\ r[1].items = Tail(Top(c).items)
        /\ Len(r) = Len(s) /\ Len(s) \in Nat
    BY <1>1, <2>1, <2>2, RestIsWithin
  <2>4. Settled(r) \in Stacks /\ Within(Settled(r), r)
    BY <2>3, SettledIsLively
  <2>5. a \in Nat /\ Len(r) - a = 1
    <3>1. Len(s) \in Nat \ {0}
      BY <1>1, <1>2, <2>1, EmptySeq DEF Stacks
    <3> QED BY <2>1, <2>3, <3>1
  <2>6. b \in Nat
    BY <1>2, <2>1
  <2>7. ~Landing(r, p, a, b)
    <3>1. SUFFICES ASSUME Marked(r[1].items, p, b) PROVE FALSE
      BY <2>5 DEF Landing
    <3>2. b < Len(Top(c).items) - 1
      BY <1>2, <2>3, <2>6, <3>1, MarkedTail
    <3> QED BY <2>1, <2>6, <3>2
  <2>8. ~Landing(Settled(r), p, a, b)
    BY <1>2, <2>4, <2>5, <2>6, <2>7 DEF Within
  <2>9. calls'[c].stack = Settled(r)
    BY <1>1, <2>2, BecomesThat DEF Continue
  <2>10. h = <<c, a, b>>
    BY <1>0, <2>1 DEF Here
  <2> QED BY <2>8, <2>9, <2>10 DEF Marks
<1>5. h \in Marks(calls, p)
  BY <1>0, <1>1, HereIsAMark
<1>6. \A q \in Players : Marks(calls', q) \subseteq Marks(calls, q)
  BY <1>3 DEF Shrinks, Within, Marks
<1> DEFINE M == Marks(calls, p)  N == Marks(calls', p)
<1>7. /\ IsFiniteSet(M) /\ warps[p] \in Nat /\ Cardinality(M) <= warps[p]
      /\ N \subseteq M \ {h} /\ h \in M
  BY <1>2, <1>4, <1>5, <1>6 DEF Counted
<1> HIDE DEF M, N
<1>8. /\ Cardinality(M \ {h}) = Cardinality(M) - 1 /\ IsFiniteSet(M \ {h})
      /\ Cardinality(M) \in Nat /\ Cardinality(M \ {h}) \in Nat
  BY <1>7, FS_RemoveElement, FS_CardinalityType
<1>9. IsFiniteSet(N) /\ Cardinality(N) \in Nat /\ Cardinality(N) <= Cardinality(M \ {h})
  BY <1>7, <1>8, FS_Subset, FS_CardinalityType
<1>10. warps[p] - 1 \in Nat /\ Cardinality(N) <= warps[p] - 1
  BY <1>7, <1>8, <1>9
<1>11. /\ warps' \in [Players -> Nat] /\ warps'[p] = warps[p] - 1
       /\ \A q \in Players \ {p} : warps'[q] = warps[q]
  BY <1>1, <1>2, <1>10 DEF Counted
<1>12. ASSUME NEW q \in Players \ {p}
       PROVE  IsFiniteSet(Marks(calls', q)) /\ Cardinality(Marks(calls', q)) <= warps'[q]
  <2> DEFINE A == Marks(calls, q)  B == Marks(calls', q)
  <2>1. B \subseteq A /\ IsFiniteSet(A) /\ Cardinality(A) <= warps[q] /\ warps[q] \in Nat
    BY <1>6 DEF Counted
  <2> HIDE DEF A, B
  <2>2. /\ IsFiniteSet(B) /\ Cardinality(B) <= Cardinality(A)
        /\ Cardinality(B) \in Nat /\ Cardinality(A) \in Nat
    BY <2>1, FS_Subset, FS_CardinalityType
  <2> QED BY <1>11, <2>1, <2>2 DEF B
<1>13. IsFiniteSet(Marks(calls', p)) /\ Cardinality(Marks(calls', p)) <= warps'[p]
  BY <1>9, <1>10, <1>11 DEF N
<1> QED BY <1>11, <1>12, <1>13 DEF Counted

\* The same when one more change of map is counted: what it will count off stands Here.
LEMMA OneMoreCounts ==
  ASSUME Counted, NEW p \in Players, NEW h, warps' = [warps EXCEPT ![p] = @ + 1],
         \A q \in Players : Marks(calls', q) \subseteq Marks(calls, q) \cup (IF q = p THEN {h} ELSE {})
  PROVE  Counted'
<1>1. /\ warps' \in [Players -> Nat] /\ warps'[p] = warps[p] + 1
      /\ \A q \in Players \ {p} : warps'[q] = warps[q]
  BY DEF Counted
<1>2. ASSUME NEW q \in Players
      PROVE  IsFiniteSet(Marks(calls', q)) /\ Cardinality(Marks(calls', q)) <= warps'[q]
  <2> DEFINE A == Marks(calls, q)  B == Marks(calls', q)
  <2>1. /\ IsFiniteSet(A) /\ Cardinality(A) <= warps[q] /\ warps[q] \in Nat
        /\ B \subseteq A \cup (IF q = p THEN {h} ELSE {})
    BY DEF Counted
  <2> HIDE DEF A, B
  <2>2. Cardinality(A) \in Nat
    BY <2>1, FS_CardinalityType
  <2>3. CASE q = p
    <3>1. /\ IsFiniteSet(A \cup {h}) /\ Cardinality(A \cup {h}) <= Cardinality(A) + 1
          /\ Cardinality(A \cup {h}) \in Nat
      BY <2>1, <2>2, FS_AddElement, FS_CardinalityType
    <3>2. B \subseteq A \cup {h}
      BY <2>1, <2>3
    <3>3. /\ IsFiniteSet(B) /\ Cardinality(B) <= Cardinality(A \cup {h}) /\ Cardinality(B) \in Nat
      BY <3>1, <3>2, FS_Subset, FS_CardinalityType
    <3>4. Cardinality(B) <= warps[q] + 1
      BY <2>1, <2>2, <3>1, <3>3
    <3> QED BY <1>1, <2>3, <3>3, <3>4 DEF B
  <2>4. CASE q # p
    <3>1. B \subseteq A
      BY <2>1, <2>4
    <3>2. IsFiniteSet(B) /\ Cardinality(B) <= Cardinality(A) /\ Cardinality(B) \in Nat
      BY <2>1, <3>1, FS_Subset, FS_CardinalityType
    <3> QED BY <1>1, <2>1, <2>2, <2>4, <3>2 DEF B
  <2> QED BY <2>3, <2>4
<1> QED BY <1>1, <1>2 DEF Counted

\* A warp and its end put before the rest mark one more place.
LEMMA MarkedGo ==
  ASSUME NEW w \in OtherDeeds, NEW r \in Seq(Doings), NEW p \in Players, NEW q \in Players,
         NEW b \in Nat, Marked(Items(<<w, Landed>>, p) \o r, q, b)
  PROVE  Marked(r, q, b) \/ (q = p /\ b = Len(r))
<1> DEFINE x == Items(<<w>>, p)  y == Items(<<Landed>>, p)
<1>1. x \in Seq(Quiet)
  BY JavaItems
<1>2. /\ y \in Seq(Doings) /\ Len(y) = 1 /\ y[1].who = p
      /\ Items(<<w, Landed>>, p) = x \o y
  BY DEF Items, Doings
<1> HIDE DEF x, y
<1>3. y \o r \in Seq(Doings) /\ Items(<<w, Landed>>, p) \o r = x \o (y \o r)
  <2>1. x \in Seq(Doings)
    BY <1>1, QuietAreDoings
  <2>2. (x \o y) \o r = x \o (y \o r)
    BY <1>2, <2>1, ConcatAssociative
  <2>3. y \o r \in Seq(Doings)
    BY <1>2, ConcatProperties
  <2> QED BY <1>2, <2>2, <2>3
<1>4. Marked(y \o r, q, b)
  BY <1>1, <1>3, MarkedCat
<1>5. /\ Len(y \o r) = Len(r) + 1 /\ Len(r) \in Nat
      /\ \A i \in 1..(Len(r) + 1) : (y \o r)[i] = IF i = 1 THEN y[1] ELSE r[i-1]
  <2>1. /\ Len(y \o r) = Len(y) + Len(r) /\ Len(r) \in Nat
        /\ \A i \in 1..(Len(y) + Len(r)) : (y \o r)[i] = IF i <= Len(y) THEN y[i] ELSE r[i - Len(y)]
    BY <1>2, ConcatProperties, LenProperties
  <2>2. PICK z : z = y \o r
    OBVIOUS
  <2>3. \A i \in 1..(Len(r) + 1) : z[i] = IF i <= 1 THEN y[i] ELSE r[i - 1]
    BY <1>2, <2>1, <2>2
  <2>4. \A i \in 1..(Len(r) + 1) : z[i] = IF i = 1 THEN y[1] ELSE r[i - 1]
    BY <2>1, <2>3
  <2> QED BY <1>2, <2>1, <2>2, <2>4
<1>6. b < Len(r) + 1 /\ (y \o r)[Len(r) + 1 - b].deed.do = "landed" /\ (y \o r)[Len(r) + 1 - b].who = q
  BY <1>4, <1>5 DEF Marked
<1>7. CASE b = Len(r)
  BY <1>2, <1>5, <1>6, <1>7
<1>8. CASE b < Len(r)
  <2>1. (y \o r)[Len(r) + 1 - b] = r[Len(r) - b]
    <3> DEFINE i == Len(r) + 1 - b
    <3>1. i \in 1..(Len(r) + 1) /\ i # 1 /\ i - 1 = Len(r) - b
      BY <1>5, <1>8
    <3> HIDE DEF i
    <3>2. (y \o r)[i] = r[i-1]
      BY <1>5, <3>1
    <3> QED BY <3>1, <3>2 DEF i
  <2> QED BY <1>6, <1>8, <2>1 DEF Marked
<1> QED BY <1>5, <1>6, <1>7, <1>8

\* However a call goes on, it is in order.
LEMMA BecomesHeld ==
  ASSUME CallsOK, NEW c \in Calls, NEW t \in Stacks, Becomes(c, t)
  PROVE  CallsOK'
<1> DEFINE new == IF Settled(t) = <<>> THEN Idle ELSE [calls[c] EXCEPT !.stack = Settled(t)]
<1>1. calls' = [calls EXCEPT ![c] = new]
  BY DEF Becomes
<1>2. Held(new)
  <2>1. CASE Settled(t) = <<>>
    BY <2>1, IdleIsHeld
  <2>2. CASE Settled(t) # <<>>
    <3>1. Settled(t) \in Stacks /\ Lively(Settled(t)) /\ calls[c] \in Records
      BY SettledIsLively DEF CallsOK, Held
    <3>2. new = [by |-> calls[c].by, phase |-> calls[c].phase, about |-> calls[c].about,
                 stack |-> Settled(t)]
      BY <2>2, <3>1, RecordWith
    <3>3. new \in Records /\ new.stack = Settled(t)
      <4>1. /\ calls[c].by \in Threads \cup {""} /\ calls[c].phase \in Phases
            /\ calls[c].about \in Players
        BY <3>1, RecordOf
      <4> DEFINE x == [by |-> calls[c].by, phase |-> calls[c].phase, about |-> calls[c].about,
                       stack |-> Settled(t)]
      <4>2. x \in Records /\ x.stack = Settled(t)
        BY <3>1, <4>1, RecordIs
      <4> HIDE DEF x, new
      <4>3. new = x
        BY <3>2 DEF x
      <4> QED BY <4>2, <4>3
    <3> QED BY <2>2, <3>1, <3>3 DEF Held
  <2> QED BY <2>1, <2>2
<1> HIDE DEF new
<1> QED BY <1>1, <1>2, OneIsHeld

\* A change of map is counted before what will count it off is on the stack.
LEMMA GoKeeps ==
  ASSUME CallsOK, Counted, setting \in Settings, NEW c \in Calls, DoGo(c)
  PROVE  CallsOK' /\ Counted'
<1>1. PICK p, w : p = Who(c) /\ w = Warp(To(c))
  OBVIOUS
<1>2. /\ Does(c, "go") /\ calls[c].phase = "" /\ calls[c].stack # <<>>
      /\ p \in Players /\ To(c) \in Ways /\ w \in OtherDeeds
  BY <1>1, DoesWhat, JavaDeedsAre DEF DoGo
<1>3. CASE Crash(c) /\ UNCHANGED warps
  BY <1>2, <1>3, ErrorGoes, GoesKeeps, ShrinkingCounts
<1>4. CASE ~(Crash(c) /\ UNCHANGED warps)
  <2> DEFINE q == Items(<<w, Landed>>, p)
             f == [Top(c) EXCEPT !.items = q \o Tail(@)]
  <2>1. PICK s, r : s = calls[c].stack /\ r = Tail(Top(c).items)
    OBVIOUS
  <2>2. PICK a, b, t : a = Len(s) - 1 /\ b = Len(r) /\ t = <<f>> \o Tail(s)
    OBVIOUS
  <2>3. /\ s \in Stacks /\ s # <<>> /\ Top(c) = s[1] /\ Top(c) \in Frames(Doings)
        /\ Top(c).items \in Seq(Doings) /\ Top(c).items # <<>>
    BY <1>2, <2>1, TopIsFrame DEF Top
  <2>4. r \in Seq(Doings) /\ q \in Seq(Doings)
    <3>1. r \in Seq(Doings)
      BY <2>1, <2>3
    <3>2. <<w, Landed>> \in Seq(OtherDeeds \cup {Landed})
      <4> HIDE DEF f, q
      <4>1. w \in OtherDeeds \cup {Landed} /\ Landed \in OtherDeeds \cup {Landed}
        BY <1>2
      <4> QED BY <4>1, TwoAreASeq
    <3>3. q \in Seq([deed : OtherDeeds \cup {Landed}, who : Players])
      BY <1>2, <3>2, ItemsAreDoings
    <3> QED BY <3>1, <3>3 DEF Doings
  <2>5. [Rest(c) EXCEPT ![1].items = q \o @] = t
    BY <1>2, <2>1, <2>2, <2>4, RestPrefixed
  <2>6. f \in Frames(Doings) /\ f.items = q \o r
    <3>1. q \o r \in Seq(Doings)
      BY <2>4, ConcatProperties
    <3> HIDE DEF q
    <3> QED BY <2>1, <2>3, <3>1 DEF Frames
  <2> HIDE DEF f
  <2>7. \E x : /\ x = t \/ \E g \in Frames(Quiet) : x = <<g>> \o t
               /\ Becomes(c, x) /\ warps' = [warps EXCEPT ![p] = @ + 1]
    <3>1. Frame("script", To(c), Items(script.changed, p)) \in Frames(Quiet)
      BY <1>2, HandlersAreQuiet, FramesAreMade DEF Handlers
    <3>2. /\ warps' = [warps EXCEPT ![p] = @ + 1]
          /\ \/ Becomes(c, t)
             \/ Becomes(c, <<Frame("script", To(c), Items(script.changed, p))>> \o t)
      BY <1>1, <1>4, <2>5 DEF DoGo
    <3> QED BY <3>1, <3>2
  <2>8. PICK x : /\ x = t \/ \E g \in Frames(Quiet) : x = <<g>> \o t
                 /\ Becomes(c, x) /\ warps' = [warps EXCEPT ![p] = @ + 1]
    BY <2>7
  <2>9. /\ t \in Stacks /\ Len(t) = Len(s) /\ Len(s) \in Nat \ {0}
        /\ t[1] = f /\ \A i \in 2..Len(s) : t[i] = s[i]
    <3>1. Len(s) \in Nat \ {0}
      BY <2>3, EmptySeq DEF Stacks
    <3> QED BY <2>2, <2>3, <2>6, <3>1 DEF Stacks
  <2>10. ASSUME NEW z \in Players, NEW i \in Nat, NEW j \in Nat, Landing(t, z, i, j)
         PROVE  Landing(s, z, i, j) \/ (z = p /\ i = a /\ j = b)
    <3>1. i < Len(s) /\ Marked(t[Len(s) - i].items, z, j)
      BY <2>9, <2>10 DEF Landing
    <3>2. CASE Len(s) - i = 1
      <4>1. Marked(q \o r, z, j)
        BY <2>6, <2>9, <3>1, <3>2
      <4>2. Marked(r, z, j) \/ (z = p /\ j = b)
        BY <1>2, <2>2, <2>4, <4>1, MarkedGo
      <4>3. CASE Marked(r, z, j)
        <5>1. Marked(s[1].items, z, j)
          BY <2>1, <2>3, <4>3, MarkedTail
        <5> QED BY <3>1, <3>2, <5>1 DEF Landing
      <4>4. i = a
        BY <2>2, <2>9, <3>2
      <4> QED BY <4>2, <4>3, <4>4
    <3>3. CASE Len(s) - i # 1
      <4>1. Len(s) - i \in 2..Len(s)
        BY <2>9, <3>1, <3>3
      <4> QED BY <2>9, <3>1, <4>1 DEF Landing
    <3> QED BY <3>2, <3>3
  <2>11. x \in Stacks /\ Within(Settled(x), t)
    <3>1. x \in Stacks /\ Within(x, t)
      <4>1. CASE x = t
        BY <2>9, <4>1 DEF Within
      <4>2. ASSUME NEW g \in Frames(Quiet), x = <<g>> \o t
            PROVE  x \in Stacks /\ Within(x, t)
        BY <2>9, <4>2, OneIsASeq, LandingCat
      <4> QED BY <2>8, <4>1, <4>2
    <3>2. Within(Settled(x), x)
      BY <3>1, SettledIsLively
    <3> QED BY <3>1, <3>2, WithinTrans
  <2>12. calls'[c].stack = Settled(x) /\ \A d \in Calls \ {c} : calls'[d] = calls[d]
    BY <2>8, BecomesThat
  <2>13. ASSUME NEW z \in Players
         PROVE  Marks(calls', z) \subseteq Marks(calls, z) \cup (IF z = p THEN {<<c, a, b>>} ELSE {})
    <3> SUFFICES ASSUME NEW d \in Calls, NEW i \in Nat, NEW j \in Nat,
                        Landing(calls'[d].stack, z, i, j)
                 PROVE  Landing(calls[d].stack, z, i, j) \/ (z = p /\ d = c /\ i = a /\ j = b)
      BY DEF Marks
    <3>1. CASE d = c
      BY <2>1, <2>10, <2>11, <2>12, <3>1 DEF Within
    <3>2. CASE d # c
      BY <2>12, <3>2
    <3> QED BY <3>1, <3>2
  <2>14. Counted'
    BY <1>2, <2>8, <2>13, OneMoreCounts
  <2>15. CallsOK'
    BY <2>8, <2>11, BecomesHeld
  <2> QED BY <2>14, <2>15
<1> QED BY <1>3, <1>4

-----------------------------------------------------------------------------
(***************************************************************************)
(* In the monitor.                                                         *)
(***************************************************************************)
\* A step into a phase of the monitor, or between two.
LEMMA Phased ==
  ASSUME CallsOK, NEW c \in Calls, calls[c].stack # <<>>, NEW f \in Phases,
         calls' = [calls EXCEPT ![c] = [@ EXCEPT !.phase = f]]
  PROVE  /\ CallsOK' /\ Shrinks
         /\ calls'[c].phase = f /\ calls'[c].stack = calls[c].stack
         /\ \A d \in Calls \ {c} : calls'[d] = calls[d]
<1> DEFINE r == [calls[c] EXCEPT !.phase = f]
<1>1. /\ calls[c] \in Records /\ Lively(calls[c].stack) /\ calls[c].stack \in Stacks
      /\ calls[c].by \in Threads \cup {""} /\ calls[c].about \in Players
  BY RecordOf DEF CallsOK, Held
<1>2. r = [by |-> calls[c].by, phase |-> f, about |-> calls[c].about, stack |-> calls[c].stack]
  BY <1>1, RecordWith
<1>3. r \in Records /\ r.phase = f /\ r.stack = calls[c].stack
  <2> DEFINE x == [by |-> calls[c].by, phase |-> f, about |-> calls[c].about, stack |-> calls[c].stack]
  <2>1. x \in Records /\ x.phase = f /\ x.stack = calls[c].stack
    BY <1>1, RecordIs
  <2> HIDE DEF x, r
  <2>2. r = x
    BY <1>2 DEF x
  <2> QED BY <2>1, <2>2
<1>4. calls' = [calls EXCEPT ![c] = r]
  OBVIOUS
<1> HIDE DEF r
<1>5. Held(r)
  BY <1>1, <1>3 DEF Held
<1>6. CallsOK' /\ calls'[c] = r /\ \A d \in Calls \ {c} : calls'[d] = calls[d]
  BY <1>4, <1>5, OneIsHeld
<1>7. Shrinks
  BY <1>3, <1>6 DEF Shrinks, Within
<1> QED BY <1>3, <1>6, <1>7

\* A call leaves the monitor and goes on.
LEMMA Leaves ==
  ASSUME CallsOK, NEW c \in Calls, NEW t \in Stacks, Within(t, calls[c].stack), NEW left,
         left = Settled(t),
         calls' = [calls EXCEPT ![c] = IF left = <<>> THEN Idle
                                       ELSE [@ EXCEPT !.stack = left, !.phase = ""]]
  PROVE  CallsOK' /\ Shrinks /\ calls'[c].phase = "" /\ \A d \in Calls \ {c} : calls'[d] = calls[d]
<1>1. calls[c] \in Records
  BY DEF CallsOK, Held
<1> DEFINE new == IF left = <<>> THEN Idle
                  ELSE [by |-> calls[c].by, phase |-> "", about |-> calls[c].about, stack |-> left]
<1>4. [calls[c] EXCEPT !.stack = left, !.phase = ""]
      = [by |-> calls[c].by, phase |-> "", about |-> calls[c].about, stack |-> left]
  BY <1>1, RecordWithTwo
<1>5. calls' = [calls EXCEPT ![c] = new]
  BY <1>4
<1>7. new = IF Settled(t) = <<>> THEN Idle
            ELSE [by |-> calls[c].by, phase |-> "", about |-> calls[c].about, stack |-> Settled(t)]
  OBVIOUS
<1>8. new.phase = ""
  BY DEF Idle
<1> HIDE DEF new
<1>9. CallsOK' /\ Shrinks
  <2>1. CallsOK /\ c \in Calls /\ t \in Stacks /\ Within(t, calls[c].stack)
    OBVIOUS
  <2> QED BY ONLY <1>5, <1>7, <2>1, GoesOn
<1>10. calls'[c] = new /\ \A d \in Calls \ {c} : calls'[d] = calls[d]
  BY <1>5 DEF CallsOK
<1> QED BY <1>8, <1>9, <1>10

\* The phases of the monitor.
LEMMA PhasesAre ==
  "" \in Phases /\ "put" \in Phases /\ "sweep" \in Phases /\ "free" \in Phases
BY DEF Phases

\* The steps in the monitor keep the calls in order and mark nothing new: the flag,
LEMMA SealHolds ==
  ASSUME CallsOK, NEW c \in Calls, DoSeal(c)
  PROVE  CallsOK' /\ Shrinks
<1>1. Does(c, "seal") /\ calls[c].phase = "" /\ calls[c].stack # <<>>
  BY DEF DoSeal, Does
<1>2. CASE disposed
  BY <1>1, <1>2, ContinueGoes, GoesKeeps DEF DoSeal
<1>3. CASE ~disposed
  BY <1>1, <1>3, Phased, PhasesAre DEF DoSeal
<1> QED BY <1>2, <1>3

\* the sweep,
LEMMA SweepHolds ==
  ASSUME CallsOK, NEW c \in Calls, Sweep(c)
  PROVE  CallsOK' /\ Shrinks
<1>1. calls[c].stack # <<>>
  BY DEF CallsOK, Held, Sweep
<1> QED BY <1>1, Phased, PhasesAre DEF Sweep

\* the end of the disposal,
LEMMA ReleaseHolds ==
  ASSUME CallsOK, NEW c \in Calls, Release(c)
  PROVE  CallsOK' /\ Shrinks /\ calls'[c].phase = "" /\ \A d \in Calls \ {c} : calls'[d] = calls[d]
<1>1. calls[c].stack # <<>>
  BY DEF CallsOK, Held, Release
<1>2. Rest(c) \in Stacks /\ Within(Rest(c), calls[c].stack)
  BY <1>1, RestIsWithin
<1> DEFINE left == Settled(Rest(c))
<1>3. calls' = [calls EXCEPT ![c] = IF left = <<>> THEN Idle
                                    ELSE [@ EXCEPT !.stack = left, !.phase = ""]]
  BY DEF Release
<1> QED BY <1>2, <1>3, Leaves

\* the registration,
LEMMA PutHolds ==
  ASSUME CallsOK, NEW c \in Calls, Put(c)
  PROVE  CallsOK' /\ Shrinks /\ calls[c].about \in Players
<1>1. calls[c].stack # <<>> /\ calls[c].stack \in Stacks /\ calls[c].about \in Players
  BY RecordOf DEF CallsOK, Held, Put
<1>2. CASE calls[c].about \in chars
  <2> DEFINE t == Tail(calls[c].stack)
             left == Settled(t)
  <2>1. t \in Stacks /\ Within(t, calls[c].stack)
    <3>1. PICK s : s = calls[c].stack
      OBVIOUS
    <3>2. s \in Stacks /\ Len(s) \in Nat \ {0}
      BY <1>1, <3>1, EmptySeq DEF Stacks
    <3>3. Tail(s) = SubSeq(s, 2, Len(s))
      BY <1>1, <3>1, TailIsSubSeq DEF Stacks
    <3>4. 2 \in 1..(Len(s) + 1)
      BY <3>2
    <3> QED BY <3>1, <3>2, <3>3, <3>4, SuffixIsWithin
  <2>2. calls' = [calls EXCEPT ![c] = IF left = <<>> THEN Idle
                                      ELSE [@ EXCEPT !.stack = left, !.phase = ""]]
    BY <1>2 DEF Put
  <2> QED BY <1>1, <2>1, <2>2, Leaves
<1>3. CASE calls[c].about \notin chars
  BY <1>1, <1>3, Phased, PhasesAre DEF Put
<1> QED BY <1>2, <1>3

\* and what comes before it.
LEMMA RegisterHolds ==
  ASSUME CallsOK, NEW c \in Calls, DoRegister(c)
  PROVE  CallsOK' /\ Shrinks
<1>1. Does(c, "register") /\ calls[c].phase = "" /\ calls[c].stack # <<>> /\ Who(c) \in Players
  BY DoesWhat DEF DoRegister
<1>2. CASE Continue(c)
  BY <1>1, <1>2, ContinueGoes, GoesKeeps
<1>3. CASE ~Continue(c)
  <2> DEFINE g == Frame("sync", "", Items(<<Invoke("entry")>>, Who(c)))
  <2>1. PICK p, x : p = Who(c) /\ x = <<g>> \o Rest(c)
    OBVIOUS
  <2>2. calls' = [calls EXCEPT ![c] = [@ EXCEPT !.phase = "put", !.about = p, !.stack = x]]
    BY <1>3, <2>1 DEF DoRegister
  <2>3. Items(<<Invoke("entry")>>, Who(c)) \in Seq(Quiet) /\ Items(<<Invoke("entry")>>, Who(c)) # <<>>
    <3>1. Invoke("entry") \in OtherDeeds
      BY JavaDeedsAre DEF Handlers
    <3> QED BY <1>1, <3>1, JavaItems
  <2>4. g \in Frames(Quiet) /\ g.items # <<>>
    BY <2>3, FramesAreMade DEF Frame
  <2> HIDE DEF g
  <2>5. <<g>> \in Seq(Frames(Quiet)) /\ Rest(c) \in Stacks /\ Within(Rest(c), calls[c].stack)
    BY <1>1, <2>4, OneIsASeq, RestIsWithin
  <2>6. x \in Stacks /\ Within(x, calls[c].stack)
    BY <2>1, <2>5, LandingCat, WithinTrans
  <2>7. x # <<>> /\ x[1] = g
    BY <2>1, <2>5 DEF Stacks
  <2>8. PICK r : r = calls[c] /\ r \in Records
    BY DEF CallsOK, Held
  <2> DEFINE new == [r EXCEPT !.phase = "put", !.about = p, !.stack = x]
             lit == [by |-> r.by, phase |-> "put", about |-> p, stack |-> x]
  <2>12. r.by \in Threads \cup {""}
    BY <2>8, RecordOf
  <2>13. lit \in Records /\ lit.phase = "put" /\ lit.stack = x
    <3>1. p \in Players /\ x \in Stacks /\ "put" \in Phases
      BY <1>1, <2>1, <2>6, PhasesAre
    <3> QED BY ONLY <2>12, <3>1, RecordIs
  <2>14. new = lit
    <3>1. [r EXCEPT !.phase = "put", !.about = p, !.stack = x]
          = [by |-> r.by, phase |-> "put", about |-> p, stack |-> x]
      <4> HIDE DEF new, lit
      <4>1. r \in Records
        BY <2>8
      <4> QED BY ONLY <4>1, RecordWithThree
    <3> QED BY <3>1
  <2>15. calls' = [calls EXCEPT ![c] = new]
    BY <2>2, <2>8
  <2> HIDE DEF new, lit
  <2>16. Held(new) /\ new.stack = x
    BY <2>4, <2>7, <2>13, <2>14 DEF Held, Lively
  <2> QED BY <2>6, <2>15, <2>16, OneGoes
<1> QED BY <1>2, <1>3

-----------------------------------------------------------------------------
(***************************************************************************)
(* Beginnings.                                                             *)
(***************************************************************************)
\* What a call may begin with.
Fresh(frames) == frames \in Seq(Frames(Quiet)) /\ frames # <<>> /\ frames[1].items # <<>>

\* A call that begins takes an idle place, and leaves those under way alone.
LEMMA StartsHold ==
  ASSUME CallsOK, NEW by \in Threads, NEW frames, Fresh(frames), Starts(by, frames)
  PROVE  /\ CallsOK' /\ Shrinks
         /\ \A d \in Calls : calls[d].phase # "" => calls'[d] = calls[d]
         /\ \A d \in Calls : calls[d].stack # <<>> => calls'[d] = calls[d]
<1> DEFINE new == [by |-> by, phase |-> "", about |-> Leader, stack |-> frames]
<1>1. PICK c \in Calls : ~Busy(c) /\ calls' = [calls EXCEPT ![c] = new]
  BY DEF Starts
<1>2. frames \in Stacks /\ Lively(frames) /\ frames # <<>>
  BY QuietAreDoings DEF Fresh, Lively
<1>3. by \in Threads \cup {""} /\ "" \in Phases /\ Leader \in Players
  BY EventAssumption, PhasesAre
<1>4. new \in Records /\ new.stack = frames /\ new.phase = ""
  BY <1>2, <1>3, RecordIs
<1> HIDE DEF new
<1>5. Held(new)
  BY <1>2, <1>4 DEF Held
<1>6. Within(frames, calls[c].stack)
  <2>1. <<>> \in Stacks /\ frames \in Seq(Frames(Quiet))
    BY EmptySeq DEF Stacks, Fresh
  <2>2. Within(frames \o <<>>, <<>>)
    BY <2>1, LandingCat
  <2>3. frames \o <<>> = frames
    BY <2>1, ConcatEmptySeq
  <2>4. Within(frames, <<>>)
    BY <2>2, <2>3
  <2> QED BY <2>4, NothingIsWithin, WithinTrans
<1>7. CallsOK' /\ Shrinks
  BY <1>1, <1>4, <1>5, <1>6, OneGoes
<1>8. \A d \in Calls \ {c} : calls'[d] = calls[d]
  BY <1>1 DEF CallsOK
<1>9. calls[c].phase = "" /\ calls[c].stack = <<>>
  <2>1. PICK i : i = Idle
    OBVIOUS
  <2>2. i.phase = "" /\ i.stack = <<>>
    BY <2>1 DEF Idle
  <2>3. calls[c] = i
    BY <1>1, <2>1 DEF Busy
  <2> QED BY <2>2, <2>3
<1> QED BY <1>7, <1>8, <1>9

\* One or two deeds of the Java code may begin a call.
LEMMA JavaIsFresh ==
  ASSUME NEW d \in OtherDeeds, NEW e \in OtherDeeds, NEW p \in Players
  PROVE  Fresh(<<Java(<<d>>, p)>>) /\ Fresh(<<Java(<<d, e>>, p)>>)
<1> DEFINE x == Items(<<d>>, p)  y == Items(<<d, e>>, p)
<1>1. x \in Seq(Quiet) /\ y \in Seq(Quiet) /\ x # <<>> /\ y # <<>>
  BY JavaItems
<1>2. Java(<<d>>, p) = Frame("java", "", x) /\ Java(<<d, e>>, p) = Frame("java", "", y)
  BY DEF Java
<1> HIDE DEF x, y
<1>3. /\ Frame("java", "", x) \in Frames(Quiet) /\ Frame("java", "", y) \in Frames(Quiet)
      /\ Frame("java", "", x).items = x /\ Frame("java", "", y).items = y
  BY <1>1, FramesAreMade DEF Frame
<1>4. ASSUME NEW f \in Frames(Quiet), f.items # <<>> PROVE Fresh(<<f>>)
  BY <1>4, OneIsASeq DEF Fresh
<1> QED BY <1>1, <1>2, <1>3, <1>4

\* So may a disconnection,
LEMMA DropIsFresh ==
  ASSUME party \subseteq Players, NEW p \in Players, Drop(p)
  PROVE  \E frames : Fresh(frames) /\ Starts("pool", frames)
<1> DEFINE near == {q \in party \ {p} : at[q] = at[p]}
           heirs == IF p = partyLeader /\ p \in party THEN near ELSE {}
           lost == Items(<<Ask("lost")>>, p)
<1>1. PICK passing \in {Items(<<PassLead>>, q) : q \in heirs} \cup {<<>>} :
        Happens("pool", <<Frame("safe", "", passing \o lost), Java(<<Vanish>>, p)>>)
  BY DEF Drop
<1>2. heirs \subseteq Players
  OBVIOUS
<1> HIDE DEF heirs
<1>3. lost \in Seq(Quiet) /\ lost # <<>>
  <2>1. Ask("lost") \in OtherDeeds
    BY JavaDeedsAre DEF Handlers
  <2> QED BY <2>1, JavaItems
<1>4. passing \in Seq(Quiet)
  <2>1. <<>> \in Seq(Quiet)
    BY EmptySeq
  <2> QED BY <1>1, <1>2, <2>1, JavaItems, JavaDeedsAre
<1>5. Items(<<Vanish>>, p) \in Seq(Quiet)
  BY JavaItems, JavaDeedsAre
<1> DEFINE x == passing \o lost
           f == Frame("safe", "", x)  g == Java(<<Vanish>>, p)
<1> HIDE DEF lost
<1>6. x \in Seq(Quiet) /\ x # <<>>
  <2>1. x \in Seq(Quiet) /\ Len(x) = Len(passing) + Len(lost)
    BY <1>3, <1>4, ConcatProperties
  <2>2. Len(lost) \in Nat \ {0} /\ Len(passing) \in Nat /\ Len(<<>>) = 0
    BY <1>3, <1>4, EmptySeq, LenProperties
  <2> HIDE DEF x
  <2>3. Len(x) # 0
    BY <2>1, <2>2
  <2> QED BY <2>1, <2>2, <2>3
<1>7. Starts("pool", <<f, g>>)
  BY <1>1 DEF Happens, lost
<1> HIDE DEF x
<1>8. f \in Frames(Quiet) /\ f.items = x /\ g \in Frames(Quiet)
  BY <1>5, <1>6, FramesAreMade DEF Frame, Java
<1> HIDE DEF f, g
<1>9. <<f, g>> \in Seq(Frames(Quiet))
  BY <1>8, TwoAreASeq
<1>10. Fresh(<<f, g>>)
  BY <1>6, <1>8, <1>9 DEF Fresh
<1> QED BY <1>7, <1>10

\* and whatever else happens.
LEMMA BeginningIsFresh ==
  ASSUME setting \in Settings, party \subseteq Players, partyLeader \in Players, Beginning
  PROVE  \E by \in Threads : \E frames : Fresh(frames) /\ Starts(by, frames)
<1>1. setting.team \subseteq Players /\ Leader \in Players
  BY EventAssumption
<1>2. Players \subseteq Threads /\ "pool" \in Threads /\ "clock" \in Threads /\ "worker" \in Threads
  BY DEF Threads
<1>3. \A h \in Handlers, p \in Players : Fresh(<<Java(<<Ask(h)>>, p)>>) /\ Fresh(<<Java(<<Invoke(h)>>, p)>>)
  BY JavaIsFresh, JavaDeedsAre
<1>4. ASSUME NEW p \in setting.team, NEW to \in {"in", "out"}, Wander(p, to)
      PROVE  \E by \in Threads : \E frames : Fresh(frames) /\ Starts(by, frames)
  BY <1>1, <1>2, <1>4, JavaIsFresh, JavaDeedsAre DEF Wander, Happens, Ways
<1>5. ASSUME NEW p \in setting.team, LeaveParty(p)
      PROVE  \E by \in Threads : \E frames : Fresh(frames) /\ Starts(by, frames)
  BY <1>1, <1>2, <1>3, <1>5 DEF LeaveParty, Happens, Handlers
<1>6. ASSUME NEW p \in setting.team, Expel(p)
      PROVE  \E by \in Threads : \E frames : Fresh(frames) /\ Starts(by, frames)
  BY <1>1, <1>2, <1>3, <1>6 DEF Expel, Happens, Handlers
<1>7. ASSUME NEW p \in setting.team, HandOver(p)
      PROVE  \E by \in Threads : \E frames : Fresh(frames) /\ Starts(by, frames)
  BY <1>1, <1>2, <1>7, JavaIsFresh, JavaDeedsAre DEF HandOver, Happens
<1>8. ASSUME NEW p \in setting.team, Drop(p)
      PROVE  \E by \in Threads : \E frames : Fresh(frames) /\ Starts(by, frames)
  BY <1>1, <1>2, <1>8, DropIsFresh
<1>9. ASSUME NEW p \in setting.team, Die(p)
      PROVE  \E by \in Threads : \E frames : Fresh(frames) /\ Starts(by, frames)
  BY <1>1, <1>2, <1>3, <1>9 DEF Die, Happens, Handlers
<1>10. ASSUME NEW p \in setting.team, Revive(p)
       PROVE  \E by \in Threads : \E frames : Fresh(frames) /\ Starts(by, frames)
  <2>1. Ask("revive") \in OtherDeeds /\ Standard \in OtherDeeds
    BY JavaDeedsAre DEF Handlers
  <2>2. Fresh(<<Java(<<Ask("revive"), Standard>>, p)>>)
    BY <1>1, <2>1, JavaIsFresh
  <2> QED BY <1>1, <1>2, <1>10, <2>2 DEF Revive, Happens
<1>11. ASSUME NEW p \in setting.team, Finish(p)
       PROVE  \E by \in Threads : \E frames : Fresh(frames) /\ Starts(by, frames)
  BY <1>1, <1>2, <1>3, <1>11 DEF Finish, Happens, Handlers
<1>12. ASSUME NEW p \in setting.team, Accident(p)
       PROVE  \E by \in Threads : \E frames : Fresh(frames) /\ Starts(by, frames)
  BY <1>1, <1>2, <1>3, <1>12 DEF Accident, Happens, Handlers
<1>13. ASSUME NEW p \in setting.team, Rejoin(p)
       PROVE  \E by \in Threads : \E frames : Fresh(frames) /\ Starts(by, frames)
  BY <1>1, <1>2, <1>13, JavaIsFresh, JavaDeedsAre DEF Rejoin, Happens
<1>14. CASE TimerFires
  <2>1. Dismiss \in OtherDeeds /\ Invoke("timeout") \in OtherDeeds
    BY JavaDeedsAre DEF Handlers
  <2>2. Fresh(<<Java(<<Dismiss, Invoke("timeout")>>, Leader)>>)
    BY <1>1, <2>1, JavaIsFresh
  <2> QED BY <1>2, <1>14, <2>2 DEF TimerFires
<1>15. CASE LaterFires
  BY <1>1, <1>2, <1>3, <1>15 DEF LaterFires, Handlers
<1> QED BY <1>4, <1>5, <1>6, <1>7, <1>8, <1>9, <1>10, <1>11, <1>12, <1>13, <1>14, <1>15
        DEF Beginning

\* The call of startInstance is in order.
LEMMA InitHolds ==
  ASSUME Init
  PROVE  CallsOK /\ Counted
<1> DEFINE Entering(order) == Frame("java", "", [i \in DOMAIN order |-> [deed |-> Register, who |-> order[i]]])
           S(order) == <<Invoked("setup", "", Leader), Entering(order)>>
<1>1. PICK order \in SetToSeqs(party) :
        calls = [c \in Calls |->
          IF c # Min(Calls) THEN Idle
          ELSE [by |-> Leader, phase |-> "", about |-> Leader, stack |-> Settled(S(order))]]
  BY DEF Init
<1>2. setting \in Settings /\ Leader \in Players /\ setting.team \subseteq Players /\ party \subseteq Players
  BY EventAssumption DEF Init
<1>3. Entering(order) \in Frames(Quiet)
  <2>1. party \in SUBSET Players /\ IsFiniteSet(Players)
    BY <1>2, EventAssumption
  <2>2. Cardinality(party) \in Nat
    BY <2>1, FS_Subset, FS_CardinalityType
  <2>3. order \in [1..Cardinality(party) -> party]
    BY DEF SetToSeqs
  <2> DEFINE f == [i \in DOMAIN order |-> [deed |-> Register, who |-> order[i]]]
  <2>4. \A i \in 1..Cardinality(party) : [deed |-> Register, who |-> order[i]] \in Quiet
    BY <1>2, <2>3, JavaDeedsAre DEF Quiet
  <2>5. f \in [1..Cardinality(party) -> Quiet]
    BY <2>3, <2>4
  <2> HIDE DEF f
  <2>6. f \in Seq(Quiet)
    BY <2>2, <2>5
  <2>7. Frame("java", "", f) \in Frames(Quiet)
    BY <2>6, FramesAreMade
  <2> QED BY <2>7 DEF f
<1>4. S(order) \in Seq(Frames(Quiet))
  <2> HIDE DEF Entering
  <2>1. Invoked("setup", "", Leader) \in Frames(Quiet)
    BY <1>2, HandlersAreQuiet DEF Handlers
  <2> QED BY <1>3, <2>1, TwoAreASeq
<1> HIDE DEF S
<1>5. S(order) \in Stacks /\ Within(S(order), <<>>)
  <2>1. <<>> \in Stacks
    BY EmptySeq DEF Stacks
  <2>2. S(order) \o <<>> = S(order)
    BY <1>4, ConcatEmptySeq
  <2> QED BY <1>4, <2>1, <2>2, LandingCat, QuietAreDoings
<1> DEFINE left == Settled(S(order))
<1>6. left \in Stacks /\ Lively(left) /\ Within(left, <<>>)
  <2>1. left \in Stacks /\ Lively(left) /\ Within(left, S(order))
    BY <1>5, SettledIsLively
  <2> QED BY <1>5, <2>1, WithinTrans
<1> DEFINE first == [by |-> Leader, phase |-> "", about |-> Leader, stack |-> left]
<1>7. calls = [c \in Calls |-> IF c # Min(Calls) THEN Idle ELSE first]
  BY <1>1
<1> HIDE DEF left
<1>8. first \in Records /\ first.phase = "" /\ first.stack = left
  <2>1. Leader \in Threads \cup {""} /\ "" \in Phases
    BY <1>2, PhasesAre DEF Threads
  <2> QED BY <1>2, <1>6, <2>1, RecordIs
<1> HIDE DEF first
<1>9. Held(first) /\ Held(Idle)
  BY <1>6, <1>8, IdleIsHeld DEF Held
<1>10. CallsOK
  BY <1>7, <1>9 DEF CallsOK
<1>11. ASSUME NEW p \in Players PROVE Marks(calls, p) = {}
  <2>1. ASSUME NEW c \in Calls, NEW a \in Nat, NEW b \in Nat, Landing(calls[c].stack, p, a, b)
        PROVE  FALSE
    <3>1. Within(calls[c].stack, <<>>)
      BY <1>6, <1>7, <1>8, NothingIsWithin DEF Idle
    <3>2. Landing(<<>>, p, a, b)
      BY <2>1, <3>1 DEF Within
    <3>3. Len(<<>>) = 0
      BY EmptySeq
    <3> QED BY <3>2, <3>3 DEF Landing
  <2> QED BY <2>1 DEF Marks
<1>12. warps = [p \in Players |-> 0]
  BY DEF Init
<1>13. Counted
  BY <1>11, <1>12, FS_EmptySet DEF Counted
<1> QED BY <1>10, <1>13

-----------------------------------------------------------------------------
(***************************************************************************)
(* The inductive invariant.                                                *)
(***************************************************************************)
\* The types, without the calls.
People ==
  /\ setting \in Settings /\ eventLeader \in Players /\ partyLeader \in Players
  /\ chars \subseteq Players /\ member \subseteq Players
  /\ leaving \subseteq Players /\ party \subseteq Players
Whereabouts == at \in [Players -> Places] /\ mayWarp \in [Players -> BOOLEAN]
Flags ==
  /\ cleared \in BOOLEAN /\ disposed \in BOOLEAN
  /\ timer \in BOOLEAN /\ loose \in BOOLEAN /\ later \in BOOLEAN
Counts == freed \in 0..2 /\ happened \in 0..setting.happenings
Typed == People /\ Whereabouts /\ Flags /\ Counts /\ CallsOK /\ Counted

\* Each part of Typed is kept by every deed: the players and leaders,
LEMMA PeopleStay ==
  ASSUME People, CallsOK, NEW c \in Calls, Doing(c)
  PROVE  People'
<1>1. CASE DoUnregister(c) \/ DoDispose(c)
  BY <1>1 DEF People, DoUnregister, DoDispose, Apart, Moves
<1>2. CASE Sweep(c)
  BY <1>2 DEF People, Sweep, Apart, Moves
<1>3. CASE Put(c)
  <2>1. calls[c].about \in Players
    BY <1>3, PutHolds
  <2> QED BY <1>3, <2>1 DEF People, Put, Apart, Team
<1>4. CASE DoLead(c) \/ DoLeadParty(c)
  <2>1. Who(c) \in Players
    BY <1>4, DoesWhat DEF DoLead, DoLeadParty
  <2> QED BY <1>4, <2>1 DEF People, DoLead, DoLeadParty, Team, Moves
<1>5. CASE \/ DoGo(c) \/ DoWarp(c) \/ DoLanded(c) \/ DoPutOut(c)
           \/ DoCall(c) \/ DoExitAll(c) \/ DoExitOthers(c) \/ DoFirst(c) \/ DoWarpTeam(c)
           \/ DoEndIfBelow(c) \/ DoIf(c) \/ DoBreaks(c) \/ DoHandled(c)
           \/ DoSeal(c) \/ Release(c) \/ DoSetCleared(c) \/ DoFreeLobby(c)
           \/ DoStartTimer(c) \/ DoStopTimer(c) \/ DoDismiss(c) \/ DoLater(c)
           \/ DoRegister(c) \/ DoInvoke(c) \/ DoPassLead(c)
           \/ DoStandard(c) \/ DoVanish(c)
  <2>1. UNCHANGED <<setting, chars, member, leaving, party, eventLeader, partyLeader>>
    BY <1>5 DEF DoGo, DoWarp, DoLanded, DoPutOut, DoCall, DoExitAll, DoExitOthers, DoFirst,
       DoWarpTeam, DoEndIfBelow, DoIf, DoBreaks, DoHandled, DoSeal, Release, DoSetCleared,
       DoFreeLobby, DoStartTimer, DoStopTimer, DoDismiss, DoLater, DoRegister, DoInvoke,
       DoPassLead, DoStandard, DoVanish, Apart, Team, Moves, Still
  <2> QED BY <2>1 DEF People
<1> QED BY <1>1, <1>2, <1>3, <1>4, <1>5 DEF Doing

\* where they are,
LEMMA WhereaboutsStay ==
  ASSUME Whereabouts, CallsOK, NEW c \in Calls, Doing(c)
  PROVE  Whereabouts'
<1> USE DEF Whereabouts
<1>1. CASE DoWarp(c)
  <2>1. PICK p : p = Who(c)
    OBVIOUS
  <2>2. Arrival(p, To(c)) \in Places
    BY DEF Arrival, Places
  <2>3. at' \in [Players -> Places]
    BY <1>1, <2>1, <2>2 DEF DoWarp
  <2>4. mayWarp' \in [Players -> BOOLEAN]
    BY <1>1, <2>1 DEF DoWarp
  <2> QED BY <2>3, <2>4
<1>2. CASE DoLanded(c)
  <2>1. PICK p, b : p = Who(c) /\ b = (mayWarp[p] \/ warps[p] = 1)
    OBVIOUS
  <2>2. p \in Players
    BY <1>2, <2>1, DoesWhat DEF DoLanded
  <2>3. mayWarp' = [mayWarp EXCEPT ![p] = b] /\ UNCHANGED at
    BY <1>2, <2>1 DEF DoLanded
  <2>4. b \in BOOLEAN
    BY <2>1
  <2> QED BY <2>2, <2>3, <2>4
<1>3. CASE DoPutOut(c) \/ DoVanish(c)
  <2>1. UNCHANGED mayWarp
    BY <1>3 DEF DoPutOut, DoVanish
  <2>2. at' \in [Players -> Places]
    BY <1>3 DEF DoPutOut, DoVanish, Places
  <2> QED BY <2>1, <2>2
<1>4. CASE \/ DoUnregister(c) \/ DoGo(c)
           \/ DoCall(c) \/ DoExitAll(c) \/ DoExitOthers(c) \/ DoFirst(c) \/ DoWarpTeam(c)
           \/ DoEndIfBelow(c) \/ DoIf(c) \/ DoBreaks(c) \/ DoHandled(c)
           \/ DoDispose(c) \/ DoSeal(c) \/ Sweep(c) \/ Release(c) \/ DoSetCleared(c) \/ DoFreeLobby(c)
           \/ DoStartTimer(c) \/ DoStopTimer(c) \/ DoDismiss(c) \/ DoLater(c)
           \/ DoRegister(c) \/ Put(c) \/ DoInvoke(c) \/ DoPassLead(c) \/ DoLead(c) \/ DoLeadParty(c)
           \/ DoStandard(c)
  <2>1. UNCHANGED <<at, mayWarp>>
    BY <1>4 DEF DoUnregister, DoGo, DoCall, DoExitAll, DoExitOthers, DoFirst, DoWarpTeam,
       DoEndIfBelow, DoIf, DoBreaks, DoHandled, DoDispose, DoSeal, Sweep, Release, DoSetCleared,
       DoFreeLobby, DoStartTimer, DoStopTimer, DoDismiss, DoLater, DoRegister, Put, DoInvoke,
       DoPassLead, DoLead, DoLeadParty, DoStandard, Moves, Still
  <2> QED BY <2>1
<1> QED BY <1>1, <1>2, <1>3, <1>4 DEF Doing

\* the flags,
LEMMA FlagsStay ==
  ASSUME Flags, NEW c \in Calls, Doing(c)
  PROVE  Flags'
<1>1. CASE DoSeal(c)
  <2>1. UNCHANGED <<cleared, timer, loose>>
    BY <1>1 DEF DoSeal
  <2>2. CASE disposed
    BY <1>1, <2>1, <2>2 DEF DoSeal, Flags
  <2>3. CASE ~disposed
    BY <1>1, <2>1, <2>3 DEF DoSeal, Flags
  <2> QED BY <2>2, <2>3
<1>2. CASE Release(c) \/ DoSetCleared(c) \/ DoStopTimer(c)
  BY <1>2 DEF Release, DoSetCleared, DoStopTimer, Flags
<1>3. CASE DoStartTimer(c) \/ DoDismiss(c)
  <2>1. UNCHANGED <<cleared, disposed, later>>
    BY <1>3 DEF DoStartTimer, DoDismiss
  <2>2. timer' \in BOOLEAN
    BY <1>3 DEF DoStartTimer, DoDismiss, Flags
  <2>3. loose' = loose \/ loose' = (loose \/ timer)
    BY <1>3, Zenon DEF DoStartTimer, DoDismiss
  <2>4. loose' \in BOOLEAN
    BY <2>3, Zenon DEF Flags
  <2> QED BY <2>1, <2>2, <2>4 DEF Flags
<1>4. CASE DoLater(c)
  <2>1. UNCHANGED <<cleared, disposed, timer, loose>>
    BY <1>4 DEF DoLater
  <2>2. later' \in BOOLEAN
    BY <1>4, Zenon DEF DoLater, Flags
  <2> QED BY <2>1, <2>2 DEF Flags
<1>5. CASE \/ DoUnregister(c) \/ DoGo(c) \/ DoWarp(c) \/ DoLanded(c) \/ DoPutOut(c)
           \/ DoCall(c) \/ DoExitAll(c) \/ DoExitOthers(c) \/ DoFirst(c) \/ DoWarpTeam(c)
           \/ DoEndIfBelow(c) \/ DoIf(c) \/ DoBreaks(c) \/ DoHandled(c)
           \/ DoDispose(c) \/ Sweep(c) \/ DoFreeLobby(c)
           \/ DoRegister(c) \/ Put(c) \/ DoInvoke(c) \/ DoPassLead(c) \/ DoLead(c) \/ DoLeadParty(c)
           \/ DoStandard(c) \/ DoVanish(c)
  <2>1. UNCHANGED <<cleared, disposed, timer, loose, later>>
    BY <1>5 DEF DoUnregister, DoGo, DoWarp, DoLanded, DoPutOut, DoCall, DoExitAll, DoExitOthers,
       DoFirst, DoWarpTeam, DoEndIfBelow, DoIf, DoBreaks, DoHandled, DoDispose, Sweep, DoFreeLobby,
       DoRegister, Put, DoInvoke, DoPassLead, DoLead, DoLeadParty, DoStandard, DoVanish, Ended
  <2> QED BY <2>1 DEF Flags
<1> QED BY <1>1, <1>2, <1>3, <1>4, <1>5 DEF Doing

\* and what is counted.
LEMMA CountsStay ==
  ASSUME Counts, NEW c \in Calls, Doing(c)
  PROVE  Counts'
<1>1. Again \in 0..2
  BY DEF Again
<1>2. UNCHANGED <<setting, happened>>
  BY DEF Doing, DoUnregister, DoGo, DoWarp, DoLanded, DoPutOut, DoCall, DoExitAll, DoExitOthers,
     DoFirst, DoWarpTeam, DoEndIfBelow, DoIf, DoBreaks, DoHandled, DoDispose, DoSeal, Sweep,
     Release, DoSetCleared, DoFreeLobby, DoStartTimer, DoStopTimer, DoDismiss, DoLater,
     DoRegister, Put, DoInvoke, DoPassLead, DoLead, DoLeadParty, DoStandard, DoVanish, Apart
<1>3. freed' \in {freed, Again}
  BY DEF Doing, DoUnregister, DoGo, DoWarp, DoLanded, DoPutOut, DoCall, DoExitAll, DoExitOthers,
     DoFirst, DoWarpTeam, DoEndIfBelow, DoIf, DoBreaks, DoHandled, DoDispose, DoSeal, Sweep,
     Release, DoSetCleared, DoFreeLobby, DoStartTimer, DoStopTimer, DoDismiss, DoLater,
     DoRegister, Put, DoInvoke, DoPassLead, DoLead, DoLeadParty, DoStandard, DoVanish, Ended
<1> QED BY <1>1, <1>2, <1>3 DEF Counts

\* The calls and what they will count off.
LEMMA CallsStay ==
  ASSUME People, CallsOK, Counted, NEW c \in Calls, Doing(c)
  PROVE  CallsOK' /\ Counted'
<1>0. setting \in Settings /\ chars \subseteq Players
  BY DEF People
<1>1. CASE DoGo(c)
  BY <1>0, <1>1, GoKeeps
<1>2. CASE DoLanded(c)
  BY <1>2, ContinuingGoes, GoesKeeps, LandedCounts
<1>3. ASSUME ~DoGo(c), ~DoLanded(c) PROVE UNCHANGED warps
  BY <1>3 DEF Doing, DoUnregister, DoWarp, DoPutOut, DoCall, DoExitAll, DoExitOthers,
     DoFirst, DoWarpTeam, DoEndIfBelow, DoIf, DoBreaks, DoHandled, DoDispose, DoSeal, Sweep,
     Release, DoSetCleared, DoFreeLobby, DoStartTimer, DoStopTimer, DoDismiss, DoLater,
     DoRegister, Put, DoInvoke, DoPassLead, DoLead, DoLeadParty, DoStandard, DoVanish, Moves, Still
<1>4. CASE \/ DoUnregister(c) \/ DoWarp(c) \/ DoPutOut(c) \/ DoBreaks(c)
           \/ DoFreeLobby(c) \/ DoStartTimer(c) \/ DoStopTimer(c) \/ DoDismiss(c) \/ DoLater(c)
           \/ DoLead(c) \/ DoLeadParty(c) \/ DoVanish(c)
  <2>1. CallsOK' /\ Shrinks
    BY <1>4, ContinuingGoes, GoesKeeps
  <2> QED BY <1>1, <1>2, <1>3, <2>1, ShrinkingCounts
<1>5. CASE \/ DoDispose(c) \/ DoSetCleared(c) \/ DoCall(c) \/ DoIf(c) \/ DoFirst(c)
           \/ DoExitAll(c) \/ DoExitOthers(c) \/ DoWarpTeam(c) \/ DoEndIfBelow(c) \/ DoHandled(c)
           \/ DoInvoke(c) \/ DoStandard(c) \/ DoPassLead(c)
  <2>1. Goes(c) /\ calls[c].phase = ""
    BY <1>0, <1>5, DisposeGoes, CallGoes, IfGoes, FirstGoes, InTurnGoes, EndIfBelowGoes,
       HandledGoes, InvokeGoes, StandardGoes, PassLeadGoes
  <2>2. CallsOK' /\ Shrinks
    BY <2>1, GoesKeeps
  <2> QED BY <1>1, <1>2, <1>3, <2>2, ShrinkingCounts
<1>6. CASE DoSeal(c) \/ Sweep(c) \/ Release(c) \/ Put(c) \/ DoRegister(c)
  <2>1. CallsOK' /\ Shrinks
    BY <1>6, SealHolds, SweepHolds, ReleaseHolds, PutHolds, RegisterHolds
  <2> QED BY <1>1, <1>2, <1>3, <2>1, ShrinkingCounts
<1> QED BY <1>1, <1>2, <1>4, <1>5, <1>6 DEF Doing

\* What happens besides keeps all of it.
LEMMA BeginningStays ==
  ASSUME Typed, Beginning
  PROVE  Typed'
<1>0. setting \in Settings /\ party \subseteq Players /\ partyLeader \in Players
      /\ setting.team \subseteq Players /\ setting.happenings \in Nat
  BY EventAssumption DEF Typed, People
<1>1. UNCHANGED <<setting, eventLeader, partyLeader, chars, member, at, mayWarp, warps, cleared, disposed, freed>>
  BY DEF Beginning, Wander, LeaveParty, Expel, HandOver, Drop, Die, Revive, Finish, Accident,
     Rejoin, TimerFires, LaterFires, Whole, Ended, Still, Team
<1>2. party' \subseteq party
  BY DEF Beginning, Wander, LeaveParty, Expel, HandOver, Drop, Die, Revive, Finish, Accident,
     Rejoin, TimerFires, LaterFires
<1>3. leaving' \subseteq Players
  <2>1. leaving' = leaving \/ \E p \in setting.team : Drop(p)
    BY DEF Beginning, Wander, LeaveParty, Expel, HandOver, Die, Revive, Finish, Accident, Rejoin,
       TimerFires, LaterFires, Still
  <2>2. ASSUME NEW p \in setting.team, Drop(p) PROVE leaving' = leaving \cup {p}
    BY <2>2 DEF Drop
  <2>3. leaving \subseteq Players
    BY DEF Typed, People
  <2> QED BY <1>0, <2>1, <2>2, <2>3
<1>4. timer' \in BOOLEAN /\ loose' \in BOOLEAN /\ later' \in BOOLEAN
  <2>0. timer \in BOOLEAN /\ loose \in BOOLEAN /\ later \in BOOLEAN
    BY DEF Typed, Flags
  <2>1. CASE Ended
    BY <2>0, <2>1 DEF Ended
  <2>2. CASE TimerFires
    BY <2>0, <2>2 DEF TimerFires
  <2>3. CASE LaterFires
    BY <2>0, <2>3 DEF LaterFires
  <2>4. Ended \/ TimerFires \/ LaterFires
    BY DEF Beginning, Wander, LeaveParty, Expel, HandOver, Drop, Die, Revive, Finish, Accident,
       Rejoin
  <2> QED BY <2>1, <2>2, <2>3, <2>4
<1>5. happened' = happened \/ (happened < setting.happenings /\ happened' = happened + 1)
  BY DEF Beginning, Wander, LeaveParty, Expel, HandOver, Drop, Die, Revive, Finish, Accident,
     Rejoin, TimerFires, LaterFires, Happens
<1>6. happened' \in 0..setting.happenings
  BY <1>0, <1>5 DEF Typed, Counts
<1>7. CallsOK' /\ Counted'
  <2>1. PICK by \in Threads : \E frames : Fresh(frames) /\ Starts(by, frames)
    BY <1>0, BeginningIsFresh
  <2>2. PICK frames : Fresh(frames) /\ Starts(by, frames)
    BY <2>1
  <2>3. CallsOK' /\ Shrinks
    BY <2>2, StartsHold DEF Typed
  <2> QED BY <1>1, <2>3, ShrinkingCounts DEF Typed
<1> QED BY <1>0, <1>1, <1>2, <1>3, <1>4, <1>6, <1>7 DEF Typed, People, Whereabouts, Flags, Counts

\* It holds at the start,
LEMMA Initially ==
  ASSUME Init
  PROVE  Typed
<1>1. CallsOK /\ Counted
  BY InitHolds
<1>2. People
  BY EventAssumption DEF Init, People
<1>3. Whereabouts /\ Flags
  BY DEF Init, Whereabouts, Flags, Places
<1>4. Counts
  <2>1. setting.happenings \in Nat
    BY <1>2, EventAssumption DEF People
  <2>2. freed = 0 /\ happened = 0
    BY DEF Init
  <2> QED BY <2>1, <2>2 DEF Counts
<1> QED BY <1>1, <1>2, <1>3, <1>4 DEF Typed

\* and every step keeps it.
LEMMA TypedStays ==
  ASSUME Typed, [Next]_vars
  PROVE  Typed'
<1>1. ASSUME NEW c \in Calls, Doing(c) PROVE Typed'
  BY <1>1, PeopleStay, WhereaboutsStay, FlagsStay, CountsStay, CallsStay DEF Typed
<1>2. CASE Beginning
  BY <1>2, BeginningStays
<1>3. CASE UNCHANGED vars
  <2>1. UNCHANGED <<setting, chars, member, at, leaving, eventLeader, partyLeader, party, cleared,
                    disposed, timer, loose, later, freed, warps, mayWarp, calls, happened>>
    BY <1>3 DEF vars
  <2> QED BY <2>1 DEF Typed, People, Whereabouts, Flags, Counts, CallsOK, Held, Records, Counted, Marks
<1> QED BY <1>1, <1>2, <1>3 DEF Next, Beginning

\* It has what TypeOK says.
LEMMA TypedIsTypeOK ==
  ASSUME Typed
  PROVE  TypeOK
<1>1. \A c \in Calls : calls[c].by \in Threads \cup {""} /\ calls[c].phase \in Phases
  BY RecordOf DEF Typed, CallsOK, Held
<1>2. DOMAIN calls = Calls
  BY DEF Typed, CallsOK
<1>3. \A p \in Players : warps[p] \in Nat /\ mayWarp[p] \in BOOLEAN
  BY DEF Typed, Counted, Whereabouts
<1>4. {cleared, disposed, timer, loose, later} \subseteq BOOLEAN
  BY DEF Typed, Flags
<1> QED BY <1>1, <1>2, <1>3, <1>4 DEF Typed, People, Whereabouts, Counts, TypeOK

\* The state of an event stays what it is declared to be.  The hard part is
\* canWarpCounter, which changeMap and forceChangeMap count up and down again: no order of
\* the calls of the players' threads, the pool and the timers makes it negative.
THEOREM WellTyped == Spec => []TypeOK
<1>1. Init => Typed
  BY Initially
<1>2. Typed /\ [Next]_vars => Typed'
  BY TypedStays
<1>3. Typed => TypeOK
  BY TypedIsTypeOK
<1> QED BY <1>1, <1>2, <1>3, PTL DEF Spec

-----------------------------------------------------------------------------
(***************************************************************************)
(* The lobby.                                                              *)
(***************************************************************************)
\* Who owes the lobby: a call about to give it back after setEventCleared, or one that
\* is in dispose(boolean) behind the flag.
Paying(c)   == calls[c].phase = "" /\ calls[c].stack # <<>> /\ Item(c).deed.do = "free lobby"
Disposing(c) == calls[c].phase = "sweep" \/ calls[c].phase = "free"
ClearedPays == cleared => freed # 0 \/ \E c \in Calls : Paying(c)
DisposedPays == disposed => freed # 0 \/ cleared \/ \E c \in Calls : Disposing(c)
Pays == ClearedPays /\ DisposedPays
NoLobbyLost == disposed /\ AtRest => freed > 0

\* Only one call changes in a deed.
LEMMA OthersWait ==
  ASSUME CallsOK, NEW c \in Calls, Doing(c)
  PROVE  \A d \in Calls \ {c} : calls'[d] = calls[d]
<1>1. CASE DeedDone(c)
  <2>1. PICK t : Becomes(c, t)
    BY <1>1, DeedsBecome
  <2> QED BY <2>1, BecomesThat
<1>2. CASE \/ DoSeal(c) \/ Sweep(c) \/ Release(c) \/ DoRegister(c) \/ Put(c)
  <2>1. \E r : calls' = [calls EXCEPT ![c] = r]
    BY <1>2 DEF DoSeal, Sweep, Release, DoRegister, Put, Continue, Becomes
  <2>2. PICK r : calls' = [calls EXCEPT ![c] = r]
    BY <2>1
  <2> QED BY <2>2 DEF CallsOK
<1> QED BY <1>1, <1>2 DEF Doing, DeedDone

\* The flags are never taken back, nor is the lobby, and who sets them.
LEMMA Kept ==
  ASSUME NEW c \in Calls, Doing(c)
  PROVE  /\ freed # 0 => freed' # 0
         /\ DoFreeLobby(c) => freed' # 0
         /\ Release(c) /\ ~cleared => freed' # 0
         /\ cleared' = cleared \/ (cleared' /\ DoSetCleared(c))
         /\ disposed' = disposed \/ (disposed' /\ DoSeal(c) /\ ~disposed)
<1>1. Again # 0
  BY DEF Again
<1>2. freed # 0 => freed' # 0
  BY <1>1 DEF Doing, DoUnregister, DoGo, DoWarp, DoLanded, DoPutOut, DoCall, DoExitAll, DoExitOthers,
     DoFirst, DoWarpTeam, DoEndIfBelow, DoIf, DoBreaks, DoHandled, DoDispose, DoSeal, Sweep,
     Release, DoSetCleared, DoFreeLobby, DoStartTimer, DoStopTimer, DoDismiss, DoLater,
     DoRegister, Put, DoInvoke, DoPassLead, DoLead, DoLeadParty, DoStandard, DoVanish, Ended
<1>3. (DoFreeLobby(c) => freed' # 0) /\ (Release(c) /\ ~cleared => freed' # 0)
  BY <1>1 DEF DoFreeLobby, Release
<1>4. cleared' = cleared \/ (cleared' /\ DoSetCleared(c))
  <2>1. CASE DoSetCleared(c)
    BY <2>1, Zenon DEF DoSetCleared
  <2>2. CASE ~DoSetCleared(c)
    BY <2>2 DEF Doing, DoUnregister, DoGo, DoWarp, DoLanded, DoPutOut, DoCall, DoExitAll, DoExitOthers,
     DoFirst, DoWarpTeam, DoEndIfBelow, DoIf, DoBreaks, DoHandled, DoDispose, DoSeal, Sweep,
     Release, DoFreeLobby, DoStartTimer, DoStopTimer, DoDismiss, DoLater,
     DoRegister, Put, DoInvoke, DoPassLead, DoLead, DoLeadParty, DoStandard, DoVanish, Ended
  <2> QED BY <2>1, <2>2
<1>5. disposed' = disposed \/ (disposed' /\ DoSeal(c) /\ ~disposed)
  <2>1. CASE DoSeal(c)
    <3>1. CASE disposed
      BY <2>1, <3>1, Zenon DEF DoSeal
    <3>2. CASE ~disposed
      BY <2>1, <3>2, Zenon DEF DoSeal
    <3> QED BY <3>1, <3>2
  <2>2. CASE ~DoSeal(c)
    BY <2>2 DEF Doing, DoUnregister, DoGo, DoWarp, DoLanded, DoPutOut, DoCall, DoExitAll, DoExitOthers,
     DoFirst, DoWarpTeam, DoEndIfBelow, DoIf, DoBreaks, DoHandled, DoDispose, Sweep,
     Release, DoSetCleared, DoFreeLobby, DoStartTimer, DoStopTimer, DoDismiss, DoLater,
     DoRegister, Put, DoInvoke, DoPassLead, DoLead, DoLeadParty, DoStandard, DoVanish, Ended
  <2> QED BY <2>1, <2>2
<1> QED BY <1>2, <1>3, <1>4, <1>5

\* setEventCleared asks for the lobby next.
LEMMA ClearingPays ==
  ASSUME CallsOK, NEW c \in Calls, DoSetCleared(c)
  PROVE  Paying(c)'
<1>1. /\ calls[c].phase = "" /\ calls[c].stack # <<>> /\ Who(c) \in Players
      /\ With(c, Items(<<FreeLobby>>, Who(c)))
  BY DoesWhat DEF DoSetCleared
<1> DEFINE q == Items(<<FreeLobby>>, Who(c))
           f == [Top(c) EXCEPT !.items = q \o Tail(@)]
<1>2. PICK t, r : t = <<f>> \o Tail(calls[c].stack) /\ r = Tail(Top(c).items)
  OBVIOUS
<1>3. /\ q \in Seq(Quiet) /\ Len(q) = 1 /\ q[1].deed.do = "free lobby"
  <2>1. q \in Seq(Quiet)
    BY <1>1, JavaItems, JavaDeedsAre
  <2>2. Len(q) = 1 /\ q[1].deed = FreeLobby
    BY DEF Items
  <2>3. FreeLobby.do = "free lobby"
    BY DEF FreeLobby, Plain, Deed
  <2> QED BY <2>1, <2>2, <2>3
<1> HIDE DEF q
<1>4. /\ f.items = q \o r /\ t \in Stacks /\ t # <<>> /\ t[1] = f
  BY <1>1, <1>2, <1>3, Pushed
<1>5. Becomes(c, t)
  BY <1>1, <1>2 DEF With, q
<1> HIDE DEF f
<1>6. r \in Seq(Doings)
  <2>1. Top(c).items \in Seq(Doings) /\ Top(c).items # <<>>
    BY <1>1, TopIsFrame
  <2> QED BY <1>2, <2>1
<1>7. (q \o r)[1] = q[1] /\ q \o r # <<>>
  <2>1. q \in Seq(Doings)
    BY <1>3, QuietAreDoings
  <2>2. /\ Len(q \o r) = Len(q) + Len(r) /\ Len(r) \in Nat
        /\ \A i \in 1..(Len(q) + Len(r)) : (q \o r)[i] = IF i <= Len(q) THEN q[i] ELSE r[i - Len(q)]
    BY <1>6, <2>1, ConcatProperties, LenProperties
  <2>3. PICK n, z : n = Len(r) /\ z = q \o r
    OBVIOUS
  <2>4. /\ Len(z) = 1 + n /\ n \in Nat
        /\ \A i \in 1..(1 + n) : z[i] = IF i <= 1 THEN q[i] ELSE r[i - 1]
    BY <1>3, <2>2, <2>3
  <2>5. z[1] = q[1] /\ Len(z) # 0
    BY <2>4
  <2>6. z # <<>>
    BY <2>5, EmptySeq
  <2> QED BY <2>3, <2>5, <2>6
<1>8. Settled(t) = t
  BY <1>4, <1>7, SettledIsLively
<1>9. calls'[c].stack = t /\ calls'[c].phase = ""
  BY <1>1, <1>4, <1>5, <1>8, BecomesThat
<1>10. calls'[c].stack[1].items[1].deed.do = "free lobby"
  BY <1>3, <1>4, <1>7, <1>9
<1> QED BY <1>4, <1>9, <1>10 DEF Paying, Item, Top

\* Every deed keeps the debt.
LEMMA PaysStays ==
  ASSUME CallsOK, Pays, NEW c \in Calls, Doing(c)
  PROVE  Pays'
<1>1. \A d \in Calls \ {c} : calls'[d] = calls[d]
  BY OthersWait
<1>2. ASSUME cleared' PROVE freed' # 0 \/ \E d \in Calls : Paying(d)'
  <2>1. CASE DoSetCleared(c)
    BY <2>1, ClearingPays
  <2>2. CASE ~DoSetCleared(c)
    <3>1. cleared
      BY <1>2, <2>2, Kept
    <3>2. CASE freed # 0
      BY <3>2, Kept
    <3>3. ASSUME NEW d \in Calls \ {c}, Paying(d) PROVE Paying(d)'
      BY <1>1, <3>3 DEF Paying, Item, Top
    <3>4. CASE Paying(c)
      <4>1. DoFreeLobby(c)
        BY <3>4 DEF Paying, Doing, Does, DoUnregister, DoGo, DoWarp, DoLanded, DoPutOut, DoCall,
           DoExitAll, DoExitOthers, DoFirst, DoWarpTeam, DoEndIfBelow, DoIf, DoBreaks, DoHandled,
           DoDispose, DoSeal, Sweep, Release, DoSetCleared, DoStartTimer, DoStopTimer, DoDismiss,
           DoLater, DoRegister, Put, DoInvoke, DoPassLead, DoLead, DoLeadParty, DoStandard, DoVanish
      <4> QED BY <4>1, Kept
    <3> QED BY <3>1, <3>2, <3>3, <3>4 DEF Pays, ClearedPays
  <2> QED BY <2>1, <2>2
<1>3. ASSUME disposed' PROVE freed' # 0 \/ cleared' \/ \E d \in Calls : Disposing(d)'
  <2>1. CASE DoSeal(c) /\ ~disposed
    <3>1. calls[c].stack # <<>>
      BY <2>1 DEF DoSeal, Does
    <3>2. calls'[c].phase = "sweep"
      BY <2>1, <3>1, Phased, PhasesAre DEF DoSeal
    <3> QED BY <3>2 DEF Disposing
  <2>2. CASE ~(DoSeal(c) /\ ~disposed)
    <3>1. disposed
      BY <1>3, <2>2, Kept
    <3>2. CASE freed # 0 \/ cleared
      BY <3>2, Kept
    <3>3. ASSUME NEW d \in Calls \ {c}, Disposing(d) PROVE Disposing(d)'
      BY <1>1, <3>3 DEF Disposing
    <3>4. CASE Disposing(c) /\ ~cleared
      <4>1. Sweep(c) \/ Release(c)
        BY <3>4 DEF Disposing, Doing, Does, DoUnregister, DoGo, DoWarp, DoLanded, DoPutOut, DoCall,
           DoExitAll, DoExitOthers, DoFirst, DoWarpTeam, DoEndIfBelow, DoIf, DoBreaks, DoHandled,
           DoDispose, DoSeal, DoSetCleared, DoFreeLobby, DoStartTimer, DoStopTimer, DoDismiss,
           DoLater, DoRegister, Put, DoInvoke, DoPassLead, DoLead, DoLeadParty, DoStandard, DoVanish
      <4>2. CASE Sweep(c)
        <5>1. calls[c].stack # <<>>
          BY <4>2 DEF CallsOK, Held, Sweep
        <5>2. calls'[c].phase = "free"
          BY <4>2, <5>1, Phased, PhasesAre DEF Sweep
        <5> QED BY <5>2 DEF Disposing
      <4>3. CASE Release(c)
        BY <3>4, <4>3, Kept
      <4> QED BY <4>1, <4>2, <4>3
    <3> QED BY <3>1, <3>2, <3>3, <3>4 DEF Pays, DisposedPays
  <2> QED BY <2>1, <2>2
<1> QED BY <1>2, <1>3 DEF Pays, ClearedPays, DisposedPays

\* So does what happens besides: it takes no place of a call under way.
LEMMA BeginningPays ==
  ASSUME Typed, Pays, Beginning
  PROVE  Pays'
<1>0. setting \in Settings /\ party \subseteq Players /\ partyLeader \in Players
  BY DEF Typed, People
<1>1. UNCHANGED <<cleared, disposed, freed>>
  BY DEF Beginning, Wander, LeaveParty, Expel, HandOver, Drop, Die, Revive, Finish, Accident,
     Rejoin, TimerFires, LaterFires, Ended
<1>2. PICK by \in Threads : \E frames : Fresh(frames) /\ Starts(by, frames)
  BY <1>0, BeginningIsFresh
<1>3. PICK frames : Fresh(frames) /\ Starts(by, frames)
  BY <1>2
<1>4. /\ \A d \in Calls : calls[d].phase # "" => calls'[d] = calls[d]
      /\ \A d \in Calls : calls[d].stack # <<>> => calls'[d] = calls[d]
  BY <1>3, StartsHold DEF Typed
<1>5. \A d \in Calls : /\ Paying(d) => Paying(d)'
                       /\ Disposing(d) => Disposing(d)'
  BY <1>4 DEF Paying, Disposing, Item, Top
<1> QED BY <1>1, <1>5 DEF Pays, ClearedPays, DisposedPays

\* Every step keeps the debt.
LEMMA PaysKept ==
  ASSUME Typed, Pays, [Next]_vars
  PROVE  Pays'
<1>1. ASSUME NEW c \in Calls, Doing(c) PROVE Pays'
  BY <1>1, PaysStays DEF Typed
<1>2. ASSUME Beginning PROVE Pays'
  BY <1>2, BeginningPays
<1>3. ASSUME UNCHANGED vars PROVE Pays'
  <2>1. UNCHANGED <<cleared, disposed, freed, calls>>
    BY <1>3 DEF vars
  <2> QED BY <2>1 DEF Pays, ClearedPays, DisposedPays, Paying, Disposing, Item, Top
<1> QED BY <1>1, <1>2, <1>3 DEF Next, Beginning

\* Nobody who owes a lobby is at rest.
LEMMA PayingIsBusy ==
  ASSUME Typed, Pays
  PROVE  NoLobbyLost
<1> SUFFICES ASSUME disposed, AtRest PROVE freed > 0
  BY DEF NoLobbyLost
<1>1. ASSUME NEW c \in Calls PROVE ~Paying(c) /\ ~Disposing(c)
  <2>1. PICK i : i = Idle
    OBVIOUS
  <2>2. i.phase = "" /\ i.stack = <<>>
    BY <2>1 DEF Idle
  <2>3. calls[c] = i
    BY <2>1 DEF AtRest, Busy
  <2> QED BY <2>2, <2>3 DEF Paying, Disposing
<1>2. freed # 0
  BY <1>1 DEF Pays, ClearedPays, DisposedPays
<1> QED BY <1>2 DEF Typed, Counts

\* setEventCleared gives the lobby back and dispose(boolean) does so unless the event is
\* cleared; whichever of the two comes first, and whatever the script does, an event that is
\* disposed of and has no call under way has given its lobby back to the manager.
THEOREM LobbyNotLost == Spec => []NoLobbyLost
<1>1. Init => Typed /\ Pays
  <2>1. ASSUME Init PROVE Pays
    BY <2>1 DEF Init, Pays, ClearedPays, DisposedPays
  <2> QED BY <2>1, Initially
<1>2. Typed /\ Pays /\ [Next]_vars => (Typed /\ Pays)'
  BY TypedStays, PaysKept
<1>3. Typed /\ Pays => NoLobbyLost
  BY PayingIsBusy
<1> QED BY <1>1, <1>2, <1>3, PTL DEF Spec

-----------------------------------------------------------------------------
(***************************************************************************)
(* The lobby, once.  Cold deeds do not lead to the clearing of the event,  *)
(* nor does anything they put on a stack.                                  *)
(***************************************************************************)
\* All the deeds that do not lead to the clearing, and those of the Java code that do not.
Milds == UNION {M \in SUBSET Deeds : Mild(M)}
ColdDeeds ==
  Milds \cup {Register, PassLead, Lead, LeadParty, Seal, Dismiss, Standard, Vanish, Unregister,
              Dispose, Landed}
  \cup {Go(to) : to \in Ways} \cup {Warp(to) : to \in Ways}
  \cup {Invoke(h) : h \in Handlers \ {"clear"}} \cup {Ask(h) : h \in Handlers \ {"clear"}}
ColdItems  == [deed : ColdDeeds, who : Players]
ColdStacks == Seq(Frames(ColdItems))

\* Whatever a deed that is cold asks for is.
ColdOK(d) ==
  /\ d.do \notin {"set cleared", "free lobby"}
  /\ d.do \in {"call", "invoke", "ask"} => d.to \in Handlers \ {"clear"}
  /\ d.yes \in Seq(Milds) /\ d.no \in Seq(Milds)

\* A larger set has all the sequences.
LEMMA SeqGrows ==
  ASSUME NEW D, NEW E, D \subseteq E
  PROVE  Seq(D) \subseteq Seq(E)
OBVIOUS

\* The mild deeds are, all together.
LEMMA MildsAreMild ==
  /\ Milds \subseteq Deeds /\ Mild(Milds)
  /\ \A M \in SUBSET Deeds : Mild(M) => M \subseteq Milds
<1>1. Milds \subseteq Deeds /\ \A M \in SUBSET Deeds : Mild(M) => M \subseteq Milds
  BY DEF Milds
<1>2. ASSUME NEW d \in Milds
      PROVE  /\ d.do \notin {"set cleared", "free lobby"}
             /\ d.do \in {"call", "invoke", "ask"} => d.to # "clear"
             /\ d.yes \in Seq(Milds) /\ d.no \in Seq(Milds)
  <2>1. PICK M \in SUBSET Deeds : Mild(M) /\ d \in M
    BY DEF Milds
  <2>2. Seq(M) \subseteq Seq(Milds)
    BY <1>1, <2>1, SeqGrows
  <2> QED BY <2>1, <2>2 DEF Mild
<1> QED BY <1>1, <1>2 DEF Mild

\* A script clears once by these if it does by some.
LEMMA MildsWillDo ==
  ASSUME NEW M \in SUBSET Deeds, Mild(M), NEW s, ClearsOnce(s, M)
  PROVE  ClearsOnce(s, Milds)
<1>1. M \subseteq Milds
  BY MildsAreMild
<1>2. Seq(M) \subseteq Seq(Milds)
  BY <1>1, SeqGrows
<1> QED BY <1>1, <1>2 DEF ClearsOnce

\* A cold deed of the Java code.
LEMMA JavaIsCold ==
  ASSUME NEW what, NEW to, what \notin {"set cleared", "free lobby"},
         what \in {"call", "invoke", "ask"} => to \in Handlers \ {"clear"}
  PROVE  ColdOK(Deed(what, to, <<>>, <<>>))
<1> DEFINE d == Deed(what, to, <<>>, <<>>)
<1>1. d.do = what /\ d.to = to /\ d.yes = <<>> /\ d.no = <<>>
  BY DEF Deed
<1>2. <<>> \in Seq(Milds)
  <2> HIDE DEF d
  <2> QED BY EmptySeq
<1> HIDE DEF d
<1>3. ColdOK(d)
  BY <1>1, <1>2 DEF ColdOK
<1> QED BY <1>3 DEF d

\* One without a destination.
LEMMA PlainIsCold ==
  ASSUME NEW what, what \notin {"set cleared", "free lobby"}, what \notin {"call", "invoke", "ask"}
  PROVE  ColdOK(Plain(what))
BY JavaIsCold DEF Plain

\* Every cold deed is one that a call may do, and leads to no other.
LEMMA ColdDeedsAre ==
  ASSUME NEW d \in ColdDeeds
  PROVE  ColdOK(d) /\ d \in OtherDeeds \cup {Landed}
<1>1. CASE d \in Milds
  <2>1. d \in Deeds /\ ColdOK(d)
    BY <1>1, MildsAreMild, DeedsAssumption DEF ColdOK, Mild
  <2> QED BY <2>1 DEF OtherDeeds
<1>2. CASE d \in {Register, PassLead, Lead, LeadParty, Seal, Dismiss, Standard, Vanish,
                    Unregister, Dispose, Landed}
  <2>1. ColdOK(d)
    BY <1>2, PlainIsCold DEF Register, PassLead, Lead, LeadParty, Seal, Dismiss, Standard, Vanish,
       Unregister, Dispose, Landed
  <2> QED BY <1>2, <2>1 DEF OtherDeeds, JavaDeeds
<1>3. CASE d \in {Go(to) : to \in Ways} \cup {Warp(to) : to \in Ways}
  <2>1. ColdOK(d)
    BY <1>3, JavaIsCold DEF Go, Warp
  <2> QED BY <1>3, <2>1 DEF OtherDeeds, JavaDeeds
<1>4. CASE d \in {Invoke(h) : h \in Handlers \ {"clear"}} \cup {Ask(h) : h \in Handlers \ {"clear"}}
  <2>1. ColdOK(d)
    BY <1>4, JavaIsCold DEF Invoke, Ask
  <2> QED BY <1>4, <2>1 DEF OtherDeeds, JavaDeeds
<1> QED BY <1>1, <1>2, <1>3, <1>4 DEF ColdDeeds

\* The cold deeds of the Java code.
LEMMA ColdJavaDeeds ==
  /\ {Register, PassLead, Lead, LeadParty, Seal, Dismiss, Standard, Vanish, Unregister, Dispose,
      Landed} \subseteq ColdDeeds
  /\ \A to \in Ways : Go(to) \in ColdDeeds /\ Warp(to) \in ColdDeeds
  /\ \A h \in Handlers \ {"clear"} : Invoke(h) \in ColdDeeds /\ Ask(h) \in ColdDeeds
BY DEF ColdDeeds

\* Stacks of them are stacks.
LEMMA ColdIsLess ==
  /\ Milds \subseteq ColdDeeds /\ Seq(Milds) \subseteq Seq(ColdDeeds)
  /\ ColdItems \subseteq Doings /\ Seq(ColdItems) \subseteq Seq(Doings)
  /\ Frames(ColdItems) \subseteq Frames(Doings) /\ ColdStacks \subseteq Stacks
<1>1. Milds \subseteq ColdDeeds /\ ColdDeeds \subseteq OtherDeeds \cup {Landed}
  BY ColdDeedsAre DEF ColdDeeds
<1>2. ColdItems \subseteq Doings
  BY <1>1 DEF ColdItems, Doings
<1>3. Seq(Milds) \subseteq Seq(ColdDeeds) /\ Seq(ColdItems) \subseteq Seq(Doings)
  BY <1>1, <1>2, SeqGrows
<1>4. Frames(ColdItems) \subseteq Frames(Doings)
  BY <1>3 DEF Frames
<1> QED BY <1>1, <1>2, <1>3, <1>4, SeqGrows DEF ColdStacks, Stacks

\* Items of cold deeds.
LEMMA ItemsAreCold ==
  ASSUME NEW p \in Players
  PROVE  /\ \A deeds \in Seq(ColdDeeds) : Items(deeds, p) \in Seq(ColdItems)
         /\ \A d \in ColdDeeds : Items(<<d>>, p) \in Seq(ColdItems)
         /\ \A d, e \in ColdDeeds : Items(<<d, e>>, p) \in Seq(ColdItems)
<1>1. \A deeds \in Seq(ColdDeeds) : Items(deeds, p) \in Seq(ColdItems)
  BY ItemsAreDoings DEF ColdItems
<1> QED BY <1>1, OneIsASeq, TwoAreASeq

-----------------------------------------------------------------------------
\* The end of a sequence is one.
LEMMA SuffixIsSeq ==
  ASSUME NEW D, NEW s \in Seq(D), NEW k \in 1..(Len(s) + 1)
  PROVE  SubSeq(s, k, Len(s)) \in Seq(D)
BY SubSeqProperties, LenProperties

\* So is that of one of which only the first element is none of D.
LEMMA SuffixOfTail ==
  ASSUME NEW E, NEW s \in Seq(E), s # <<>>, NEW D, Tail(s) \in Seq(D), NEW k \in 2..(Len(s) + 1)
  PROVE  SubSeq(s, k, Len(s)) \in Seq(D)
<1>1. PICK n, t : n = Len(s) /\ t = Tail(s)
  OBVIOUS
<1>2. n \in Nat /\ Len(t) = n - 1 /\ \A i \in 1..(n - 1) : t[i] = s[i + 1]
  BY <1>1
<1>3. \A i \in 1..(n - 1) : t[i] \in D
  BY <1>1, <1>2
<1>4. PICK u : u = SubSeq(s, k, n)
  OBVIOUS
<1>5. Len(u) = n - k + 1 /\ u \in Seq(E) /\ \A i \in 1..(n - k + 1) : u[i] = s[k + i - 1]
  BY <1>1, <1>2, <1>4, SubSeqProperties
<1>6. ASSUME NEW i \in 1..(n - k + 1) PROVE u[i] \in D
  <2>1. k + i - 2 \in 1..(n - 1) /\ (k + i - 2) + 1 = k + i - 1
    BY <1>1, <1>2
  <2>2. t[k + i - 2] = s[k + i - 1]
    BY <1>2, <2>1
  <2> QED BY <1>3, <1>5, <2>1, <2>2
<1>7. PICK m \in Nat : m = n - k + 1
  BY <1>1, <1>2
<1>8. Len(u) = m /\ u \in Seq(E) /\ \A i \in 1..m : u[i] \in D
  BY <1>5, <1>6, <1>7
<1>9. u \in [1..m -> D]
  BY <1>8
<1>10. u \in Seq(D)
  BY <1>9
<1> QED BY <1>1, <1>4, <1>10

\* A call that goes on with a cold stack.
CGoes(c) == \E t \in ColdStacks : Becomes(c, t)
\* A call that has only cold deeds left once the one at hand is done.
Cool(c) ==
  /\ calls[c].stack # <<>>
  /\ Tail(Top(c).items) \in Seq(ColdItems) /\ Tail(calls[c].stack) \in ColdStacks
Calm(c) == calls[c].stack \in ColdStacks

\* A settled cold stack is cold.
LEMMA SettledIsCold ==
  ASSUME NEW s \in ColdStacks
  PROVE  Settled(s) \in ColdStacks
<1> DEFINE live == {i \in DOMAIN s : s[i].items # <<>>}
<1>0. Len(s) \in Nat /\ DOMAIN s = 1..Len(s)
  BY DEF ColdStacks
<1>1. CASE live = {}
  <2>1. Settled(s) = <<>>
    BY <1>1 DEF Settled
  <2> QED BY <2>1, EmptySeq DEF ColdStacks
<1>2. CASE live # {}
  <2>1. live \subseteq Nat
    BY <1>0
  <2>2. Min(live) \in live
    <3> HIDE DEF live
    <3> QED BY <1>2, <2>1, Smallest
  <2>3. Settled(s) = SubSeq(s, Min(live), Len(s))
    BY <1>2 DEF Settled
  <2>4. Min(live) \in 1..(Len(s) + 1)
    BY <1>0, <2>2
  <2> HIDE DEF live
  <2> QED BY <2>3, <2>4, SuffixIsSeq DEF ColdStacks
<1> QED BY <1>1, <1>2

\* Then the call is calm.
LEMMA GoesCalm ==
  ASSUME CallsOK, NEW c \in Calls, CGoes(c)
  PROVE  /\ Calm(c)'
         /\ calls'[c].phase = IF calls'[c].stack = <<>> THEN "" ELSE calls[c].phase
<1>1. PICK t \in ColdStacks : Becomes(c, t)
  BY DEF CGoes
<1>2. /\ calls'[c].stack = Settled(t)
      /\ calls'[c].phase = IF Settled(t) = <<>> THEN "" ELSE calls[c].phase
  BY <1>1, BecomesThat
<1>3. Settled(t) \in ColdStacks
  BY SettledIsCold
<1> QED BY <1>2, <1>3 DEF Calm

\* The next deed of a calm call is cold, and all below it.
LEMMA CalmIsCool ==
  ASSUME CallsOK, NEW c \in Calls, calls[c].stack # <<>>, Calm(c)
  PROVE  Cool(c) /\ Item(c).deed \in ColdDeeds
<1>1. Top(c).items # <<>>
  BY TopIsFrame
<1>2. Top(c) \in Frames(ColdItems) /\ Tail(calls[c].stack) \in ColdStacks
  BY DEF Calm, ColdStacks, Top
<1>3. Top(c).items \in Seq(ColdItems)
  BY <1>2 DEF Frames
<1>4. Item(c) \in ColdItems /\ Tail(Top(c).items) \in Seq(ColdItems)
  BY <1>1, <1>3 DEF Item
<1> QED BY <1>2, <1>4 DEF Cool, ColdItems

\* With cold deeds first it goes on with a cold stack,
LEMMA WithIsCold ==
  ASSUME CallsOK, NEW c \in Calls, Cool(c), NEW q \in Seq(ColdItems)
  PROVE  <<[Top(c) EXCEPT !.items = q \o Tail(@)]>> \o Tail(calls[c].stack) \in ColdStacks
<1> DEFINE f == [Top(c) EXCEPT !.items = q \o Tail(@)]
<1>1. Top(c) \in Frames(Doings)
  BY TopIsFrame DEF Cool
<1>2. q \o Tail(Top(c).items) \in Seq(ColdItems)
  <2>1. Tail(Top(c).items) \in Seq(ColdItems)
    BY DEF Cool
  <2> QED BY <2>1, ConcatProperties
<1>3. f \in Frames(ColdItems)
  BY <1>1, <1>2 DEF Frames
<1> HIDE DEF f
<1>4. <<f>> \in Seq(Frames(ColdItems))
  BY <1>3, OneIsASeq
<1> QED BY <1>4, ConcatProperties DEF Cool, ColdStacks, f

\* as with its next deed,
LEMMA RestIsCold ==
  ASSUME CallsOK, NEW c \in Calls, Cool(c)
  PROVE  Rest(c) \in ColdStacks
<1>1. <<>> \in Seq(ColdItems)
  BY EmptySeq
<1>2. <<>> \o Tail(Top(c).items) = Tail(Top(c).items)
  BY ConcatEmptySeq DEF Cool
<1>3. <<[Top(c) EXCEPT !.items = <<>> \o Tail(@)]>> \o Tail(calls[c].stack) \in ColdStacks
  BY <1>1, WithIsCold
<1> QED BY <1>2, <1>3 DEF Rest

\* and past an error.
LEMMA PastIsCold ==
  ASSUME CallsOK, NEW c \in Calls, calls[c].stack # <<>>, Tail(calls[c].stack) \in ColdStacks,
         NEW kind
  PROVE  Past(c, kind) \in ColdStacks
<1> DEFINE s == calls[c].stack
           caught == {i \in DOMAIN s : s[i].kind = kind}
<1>1. s \in Stacks /\ s # <<>> /\ Tail(s) \in Seq(Frames(ColdItems))
  BY RecordOf DEF CallsOK, Held, ColdStacks
<1>2. Len(s) \in Nat /\ DOMAIN s = 1..Len(s)
  BY <1>1 DEF Stacks
<1>3. CASE caught = {}
  <2>1. Past(c, kind) = <<>>
    BY <1>3 DEF Past
  <2> QED BY <2>1, EmptySeq DEF ColdStacks
<1>4. CASE caught # {}
  <2>1. caught \subseteq Nat
    BY <1>2
  <2>2. Min(caught) \in caught
    <3> HIDE DEF caught
    <3> QED BY <1>4, <2>1, Smallest
  <2>3. Past(c, kind) = SubSeq(s, Min(caught) + 1, Len(s))
    BY <1>4 DEF Past
  <2>4. Min(caught) + 1 \in 2..(Len(s) + 1)
    BY <1>2, <2>2
  <2> HIDE DEF s, caught
  <2> QED BY <1>1, <2>3, <2>4, SuffixOfTail DEF Stacks, ColdStacks
<1> QED BY <1>3, <1>4

\* So a call goes on with cold deeds first,
LEMMA WithColds ==
  ASSUME CallsOK, NEW c \in Calls, Cool(c), NEW q \in Seq(ColdItems), With(c, q)
  PROVE  CGoes(c)
BY WithIsCold DEF With, CGoes

\* with its next deed, after an error,
LEMMA ContinueColds ==
  ASSUME CallsOK, NEW c \in Calls, Cool(c), Continue(c) \/ Error(c) \/ Crash(c)
  PROVE  CGoes(c)
BY RestIsCold, PastIsCold DEF Cool, Continue, Error, Crash, CGoes

\* and under cold frames.
LEMMA UnderColds ==
  ASSUME CallsOK, NEW c \in Calls, Cool(c), NEW q \in ColdStacks, Under(c, q)
  PROVE  CGoes(c)
<1>1. Rest(c) \in ColdStacks
  BY RestIsCold
<1>2. q \o Rest(c) \in ColdStacks
  BY <1>1, ConcatProperties DEF ColdStacks
<1> QED BY <1>2 DEF Under, CGoes

\* Cold deeds for each of some players.
LEMMA InTurnIsCold ==
  ASSUME NEW S \in SUBSET Players, NEW order \in SetToSeqs(S), NEW f,
         f = [i \in DOMAIN order |-> f[i]],
         \A p \in S : \A i \in DOMAIN order : order[i] = p => f[i] \in Seq(ColdItems)
  PROVE  FlattenSeq(f) \in Seq(ColdItems)
<1>1. Cardinality(S) \in Nat
  BY EventAssumption, FS_Subset, FS_CardinalityType
<1>2. order \in [1..Cardinality(S) -> S]
  BY DEF SetToSeqs
<1>3. f \in [1..Cardinality(S) -> Seq(ColdItems)]
  BY <1>2
<1> QED BY <1>1, <1>3, FlattenIsSeq

-----------------------------------------------------------------------------
\* What a calm call about to do a deed is about.
LEMMA CalmDoes ==
  ASSUME CallsOK, NEW c \in Calls, NEW what, Does(c, what), Calm(c)
  PROVE  /\ Cool(c) /\ calls[c].phase = "" /\ Who(c) \in Players
         /\ what \notin {"set cleared", "free lobby"}
         /\ what \in {"call", "invoke", "ask"} => To(c) \in Handlers \ {"clear"}
         /\ what \in {"go", "warp", "warp team"} => To(c) \in Ways
         /\ \A p \in Players : /\ Items(Item(c).deed.yes, p) \in Seq(ColdItems)
                               /\ Items(Item(c).deed.no, p) \in Seq(ColdItems)
<1>1. /\ calls[c].phase = "" /\ calls[c].stack # <<>> /\ Item(c).deed.do = what
      /\ Who(c) \in Players /\ (what \in {"go", "warp", "warp team"} => To(c) \in Ways)
  BY DoesWhat DEF Does
<1>2. Cool(c) /\ ColdOK(Item(c).deed)
  BY <1>1, CalmIsCool, ColdDeedsAre
<1>3. Item(c).deed.yes \in Seq(ColdDeeds) /\ Item(c).deed.no \in Seq(ColdDeeds)
  BY <1>2, ColdIsLess DEF ColdOK
<1>4. /\ what \notin {"set cleared", "free lobby"}
      /\ what \in {"call", "invoke", "ask"} => To(c) \in Handlers \ {"clear"}
  BY <1>1, <1>2 DEF ColdOK, To
<1> QED BY <1>1, <1>2, <1>3, <1>4, ItemsAreCold

\* The handlers of such a script are cold, but for the clearing.
LEMMA HandlersAreCold ==
  ASSUME ClearsOnce(script, Milds), NEW h \in Handlers \ {"clear"}, NEW p \in Players
  PROVE  /\ Items(script[h], p) \in Seq(ColdItems)
         /\ Invoked(h, "", p) \in Frames(ColdItems)
<1>1. script[h] \in Seq(ColdDeeds)
  BY ColdIsLess DEF ClearsOnce
<1>2. Items(script[h], p) \in Seq(ColdItems)
  BY <1>1, ItemsAreCold
<1> QED BY <1>2, FramesAreMade DEF Invoked

\* The deeds that only let the call go on.
LEMMA ContinuingColds ==
  ASSUME CallsOK, NEW c \in Calls, Calm(c),
         \/ DoUnregister(c) \/ DoWarp(c) \/ DoLanded(c) \/ DoPutOut(c) \/ DoBreaks(c)
         \/ DoFreeLobby(c) \/ DoStartTimer(c) \/ DoStopTimer(c) \/ DoDismiss(c) \/ DoLater(c)
         \/ DoLead(c) \/ DoLeadParty(c) \/ DoVanish(c)
  PROVE  CGoes(c)
<1>1. \E what : Does(c, what)
  BY DEF DoUnregister, DoWarp, DoLanded, DoPutOut, DoBreaks, DoFreeLobby, DoStartTimer,
     DoStopTimer, DoDismiss, DoLater, DoLead, DoLeadParty, DoVanish
<1>2. Cool(c)
  BY <1>1, CalmDoes
<1>3. Continue(c) \/ Error(c) \/ Crash(c)
  BY DEF DoUnregister, DoWarp, DoLanded, DoPutOut, DoBreaks, DoFreeLobby, DoStartTimer,
     DoStopTimer, DoDismiss, DoLater, DoLead, DoLeadParty, DoVanish
<1> QED BY <1>2, <1>3, ContinueColds

\* The disposal puts the seal first, a function of the script another, a question its answer.
LEMMA PuttingColds ==
  ASSUME CallsOK, ClearsOnce(script, Milds), chars \subseteq Players, NEW c \in Calls, Calm(c),
         DoDispose(c) \/ DoCall(c) \/ DoIf(c) \/ DoFirst(c) \/ DoStandard(c)
  PROVE  CGoes(c)
<1>1. \E what : Does(c, what)
  BY DEF DoDispose, DoCall, DoIf, DoFirst, DoStandard
<1>2. /\ Cool(c) /\ Who(c) \in Players
      /\ \A p \in Players : /\ Items(Item(c).deed.yes, p) \in Seq(ColdItems)
                            /\ Items(Item(c).deed.no, p) \in Seq(ColdItems)
  BY <1>1, CalmDoes
<1>3. CASE DoDispose(c)
  <2>1. Items(<<Seal>>, Who(c)) \in Seq(ColdItems)
    BY <1>2, ItemsAreCold, ColdJavaDeeds
  <2> QED BY <1>2, <1>3, <2>1, WithColds DEF DoDispose
<1>4. CASE DoCall(c)
  <2>1. Items(script[To(c)], Who(c)) \in Seq(ColdItems)
    BY <1>2, <1>4, CalmDoes, HandlersAreCold DEF DoCall
  <2> QED BY <1>2, <1>4, <2>1, WithColds DEF DoCall
<1>5. CASE DoIf(c)
  <2>1. PICK answer : With(c, Items(IF answer THEN Item(c).deed.yes ELSE Item(c).deed.no, Who(c)))
    BY <1>5 DEF DoIf
  <2>2. With(c, Items(Item(c).deed.yes, Who(c))) \/ With(c, Items(Item(c).deed.no, Who(c)))
    BY <2>1
  <2> QED BY <1>2, <2>2, WithColds
<1>6. CASE DoFirst(c)
  <2>1. Crash(c) \/ \E p \in Players : With(c, Items(Item(c).deed.yes, p))
    BY <1>6 DEF DoFirst
  <2> QED BY <1>2, <2>1, WithColds, ContinueColds
<1>7. CASE DoStandard(c)
  <2>1. PICK to \in Ways : With(c, Items(<<Go(to)>>, Who(c)))
    BY <1>7 DEF DoStandard, Ways
  <2>2. Items(<<Go(to)>>, Who(c)) \in Seq(ColdItems)
    BY <1>2, ItemsAreCold, ColdJavaDeeds
  <2> QED BY <1>2, <2>1, <2>2, WithColds
<1> QED BY <1>3, <1>4, <1>5, <1>6, <1>7

\* A change of map.
LEMMA GoColds ==
  ASSUME CallsOK, ClearsOnce(script, Milds), NEW c \in Calls, Calm(c), DoGo(c)
  PROVE  CGoes(c)
<1>1. Cool(c) /\ Who(c) \in Players /\ To(c) \in Ways /\ calls[c].stack # <<>>
  BY CalmDoes DEF DoGo, Cool
<1> DEFINE q == Items(<<Warp(To(c)), Landed>>, Who(c))
           t == [Rest(c) EXCEPT ![1].items = q \o @]
           g == Frame("script", To(c), Items(script.changed, Who(c)))
<1>2. q \in Seq(ColdItems)
  BY <1>1, ItemsAreCold, ColdJavaDeeds
<1>3. g \in Frames(ColdItems)
  <2>1. Items(script["changed"], Who(c)) \in Seq(ColdItems)
    BY <1>1, HandlersAreCold DEF Handlers
  <2> QED BY <1>1, <2>1, FramesAreMade
<1>4. Crash(c) \/ Becomes(c, t) \/ Becomes(c, <<g>> \o t)
  BY DEF DoGo
<1> HIDE DEF q, g
<1>5. t \in ColdStacks
  <2>1. t = <<[Top(c) EXCEPT !.items = q \o Tail(@)]>> \o Tail(calls[c].stack)
    BY <1>1, <1>2, ColdIsLess, RestPrefixed
  <2> QED BY <1>1, <1>2, <2>1, WithIsCold
<1> HIDE DEF t
<1>6. <<g>> \o t \in ColdStacks
  <2>1. <<g>> \in Seq(Frames(ColdItems))
    BY <1>3, OneIsASeq
  <2> QED BY <1>5, <2>1, ConcatProperties DEF ColdStacks
<1> QED BY <1>1, <1>4, <1>5, <1>6, ContinueColds DEF CGoes

\* Deeds for each of the players.
LEMMA InTurnColds ==
  ASSUME CallsOK, ClearsOnce(script, Milds), chars \subseteq Players, NEW c \in Calls, Calm(c),
         DoExitAll(c) \/ DoExitOthers(c) \/ DoWarpTeam(c)
  PROVE  CGoes(c)
<1>1. \E what : Does(c, what)
  BY DEF DoExitAll, DoExitOthers, DoWarpTeam
<1>2. Cool(c) /\ Who(c) \in Players
  BY <1>1, CalmDoes
<1>3. \A p \in Players : /\ Items(script["exit"], p) \in Seq(ColdItems)
                         /\ Items(script["removed"], p) \in Seq(ColdItems)
  BY HandlersAreCold DEF Handlers
<1>4. ASSUME NEW order \in SetToSeqs(chars), NEW f, f = [i \in DOMAIN order |-> f[i]],
             \A p \in chars : \A i \in DOMAIN order : order[i] = p => f[i] \in Seq(ColdItems),
             With(c, FlattenSeq(f))
      PROVE  CGoes(c)
  <2>1. FlattenSeq(f) \in Seq(ColdItems)
    BY <1>4, InTurnIsCold
  <2> QED BY <1>2, <1>4, <2>1, WithColds
<1>5. CASE DoExitAll(c)
  <2> DEFINE Of(p) == Items(script["exit"], p)
  <2>1. PICK order \in SetToSeqs(chars) : With(c, FlattenSeq([i \in DOMAIN order |-> Of(order[i])]))
    BY <1>5 DEF DoExitAll, InTurn
  <2>2. \A p \in chars : Of(p) \in Seq(ColdItems)
    BY <1>3
  <2> DEFINE f == [i \in DOMAIN order |-> Of(order[i])]
  <2>3. /\ f = [i \in DOMAIN order |-> f[i]]
        /\ \A p \in chars : \A i \in DOMAIN order : order[i] = p => f[i] \in Seq(ColdItems)
    BY <2>2
  <2>4. With(c, FlattenSeq(f))
    BY <2>1
  <2> HIDE DEF f
  <2> QED BY <2>3, <2>4, <1>4
<1>6. CASE DoExitOthers(c)
  <2> DEFINE Of(p) == Items(IF p = Who(c) THEN script["removed"] ELSE script["exit"], p)
  <2>1. PICK order \in SetToSeqs(chars) : With(c, FlattenSeq([i \in DOMAIN order |-> Of(order[i])]))
    BY <1>6 DEF DoExitOthers, InTurn
  <2>2. \A p \in chars : Of(p) \in Seq(ColdItems)
    BY <1>3
  <2> DEFINE f == [i \in DOMAIN order |-> Of(order[i])]
  <2>3. /\ f = [i \in DOMAIN order |-> f[i]]
        /\ \A p \in chars : \A i \in DOMAIN order : order[i] = p => f[i] \in Seq(ColdItems)
    BY <2>2
  <2>4. With(c, FlattenSeq(f))
    BY <2>1
  <2> HIDE DEF f
  <2> QED BY <2>3, <2>4, <1>4
<1>7. CASE DoWarpTeam(c)
  <2> DEFINE Of(p) == Items(<<Go(To(c))>>, p)
  <2>1. PICK order \in SetToSeqs(chars) : With(c, FlattenSeq([i \in DOMAIN order |-> Of(order[i])]))
    BY <1>7 DEF DoWarpTeam, InTurn
  <2>2. To(c) \in Ways
    BY <1>7, CalmDoes DEF DoWarpTeam
  <2>3. \A p \in chars : Of(p) \in Seq(ColdItems)
    BY <2>2, ItemsAreCold, ColdJavaDeeds
  <2> DEFINE f == [i \in DOMAIN order |-> Of(order[i])]
  <2>4. /\ f = [i \in DOMAIN order |-> f[i]]
        /\ \A p \in chars : \A i \in DOMAIN order : order[i] = p => f[i] \in Seq(ColdItems)
    BY <2>3
  <2>5. With(c, FlattenSeq(f))
    BY <2>1
  <2> HIDE DEF f
  <2> QED BY <2>4, <2>5, <1>4
<1> QED BY <1>5, <1>6, <1>7

\* disposeIfPlayerBelow's own frame.
LEMMA EndIfBelowColds ==
  ASSUME CallsOK, chars \subseteq Players, NEW c \in Calls, Calm(c), DoEndIfBelow(c)
  PROVE  CGoes(c)
<1>1. Cool(c) /\ Who(c) \in Players
  BY CalmDoes DEF DoEndIfBelow
<1>2. CASE Continue(c)
  BY <1>1, <1>2, ContinueColds
<1>3. CASE ~Continue(c)
  <2> DEFINE Of(p) == Items(<<Unregister, Go("out")>>, p)
  <2>1. PICK order \in SetToSeqs(chars) :
          Under(c, <<Frame("safe", "", FlattenSeq([i \in DOMAIN order |-> Of(order[i])])
                                       \o Items(<<Dispose>>, Who(c)))>>)
    BY <1>3 DEF DoEndIfBelow
  <2>2. \A p \in chars : Of(p) \in Seq(ColdItems)
    BY ItemsAreCold, ColdJavaDeeds DEF Ways
  <2> DEFINE f == [i \in DOMAIN order |-> Of(order[i])]
             q == FlattenSeq(f) \o Items(<<Dispose>>, Who(c))
  <2>3. /\ f = [i \in DOMAIN order |-> f[i]]
        /\ \A p \in chars : \A i \in DOMAIN order : order[i] = p => f[i] \in Seq(ColdItems)
    BY <2>2
  <2>4. Under(c, <<Frame("safe", "", q)>>)
    BY <2>1
  <2>5. FlattenSeq(f) \in Seq(ColdItems)
    <3> HIDE DEF f
    <3> QED BY <2>3, InTurnIsCold
  <2>6. Items(<<Dispose>>, Who(c)) \in Seq(ColdItems)
    BY <1>1, ItemsAreCold, ColdJavaDeeds
  <2> HIDE DEF f
  <2>7. q \in Seq(ColdItems)
    BY <2>5, <2>6
  <2> HIDE DEF q
  <2>8. <<Frame("safe", "", q)>> \in ColdStacks
    <3>1. Frame("safe", "", q) \in Frames(ColdItems)
      BY <2>7, FramesAreMade
    <3> QED BY <3>1, OneIsASeq DEF ColdStacks
  <2> QED BY <1>1, <2>4, <2>8, UnderColds
<1> QED BY <1>2, <1>3

\* The standard respawn is left out of the frame below.
LEMMA HandledColds ==
  ASSUME CallsOK, NEW c \in Calls, Calm(c), DoHandled(c)
  PROVE  CGoes(c)
<1>1. Cool(c)
  BY CalmDoes DEF DoHandled
<1>2. PICK r \in ColdStacks : r = Rest(c)
  BY <1>1, RestIsCold
<1>3. Becomes(c, IF Len(r) > 1 /\ r[2].items # <<>> THEN [r EXCEPT ![2].items = Tail(@)] ELSE r)
  BY <1>2 DEF DoHandled
<1>4. CASE ~(Len(r) > 1 /\ r[2].items # <<>>)
  <2>1. Becomes(c, r)
    BY <1>3, <1>4
  <2> QED BY <2>1 DEF CGoes
<1>5. CASE Len(r) > 1 /\ r[2].items # <<>>
  <2> DEFINE f == [r[2] EXCEPT !.items = Tail(@)]
             t == [r EXCEPT ![2] = f]
  <2>1. Becomes(c, t)
    BY <1>3, <1>5
  <2>2. 2 \in 1..Len(r) /\ r[2] \in Frames(ColdItems) /\ r[2].items \in Seq(ColdItems)
    <3>1. Len(r) \in Nat
      BY DEF ColdStacks
    <3>2. 2 \in 1..Len(r)
      BY <1>5, <3>1
    <3>3. r[2] \in Frames(ColdItems)
      BY <3>2 DEF ColdStacks
    <3> QED BY <3>2, <3>3 DEF Frames
  <2>3. Tail(r[2].items) \in Seq(ColdItems)
    BY <1>5, <2>2
  <2>4. f \in Frames(ColdItems)
    BY <2>2, <2>3 DEF Frames
  <2> HIDE DEF f
  <2>5. t \in ColdStacks
    BY <2>2, <2>4, ExceptSeq DEF ColdStacks
  <2> QED BY <2>1, <2>5 DEF CGoes
<1> QED BY <1>4, <1>5

\* A handler begins, or not.
LEMMA InvokeColds ==
  ASSUME CallsOK, ClearsOnce(script, Milds), NEW c \in Calls, Calm(c), DoInvoke(c)
  PROVE  CGoes(c)
<1>1. Cool(c) /\ Who(c) \in Players /\ To(c) \in Handlers \ {"clear"}
  BY CalmDoes DEF DoInvoke
<1>2. CASE Continue(c)
  BY <1>1, <1>2, ContinueColds
<1>3. CASE ~Continue(c)
  <2>1. Under(c, <<Invoked(To(c), "", Who(c))>>)
    BY <1>3 DEF DoInvoke
  <2>2. Invoked(To(c), "", Who(c)) \in Frames(ColdItems)
    BY <1>1, HandlersAreCold
  <2>3. <<Invoked(To(c), "", Who(c))>> \in ColdStacks
    BY <2>2, OneIsASeq DEF ColdStacks
  <2> QED BY <1>1, <2>1, <2>3, UnderColds
<1> QED BY <1>2, <1>3

\* The event is told of its new leader, or only the party is.
LEMMA PassLeadColds ==
  ASSUME CallsOK, NEW c \in Calls, Calm(c), DoPassLead(c)
  PROVE  CGoes(c)
<1>1. Cool(c) /\ Who(c) \in Players /\ calls[c].stack # <<>>
  BY CalmDoes DEF DoPassLead, Cool
<1> DEFINE q == Items(<<LeadParty>>, Who(c))
           n == Items(<<Invoke("chief"), Lead>>, Who(c))
           t == [Rest(c) EXCEPT ![1].items = q \o @]
<1>2. q \in Seq(ColdItems)
  BY <1>1, ItemsAreCold, ColdJavaDeeds
<1>3. n \in Seq(ColdItems)
  <2>1. Invoke("chief") \in ColdDeeds /\ Lead \in ColdDeeds
    BY ColdJavaDeeds DEF Handlers
  <2> QED BY <1>1, <2>1, ItemsAreCold
<1>4. With(c, q) \/ Becomes(c, <<Frame("sync", "", n)>> \o t)
  BY DEF DoPassLead
<1> HIDE DEF q, n
<1>5. t \in ColdStacks
  <2>1. t = <<[Top(c) EXCEPT !.items = q \o Tail(@)]>> \o Tail(calls[c].stack)
    BY <1>1, <1>2, ColdIsLess, RestPrefixed
  <2> QED BY <1>1, <1>2, <2>1, WithIsCold
<1> HIDE DEF t
<1>6. <<Frame("sync", "", n)>> \o t \in ColdStacks
  <2>1. Frame("sync", "", n) \in Frames(ColdItems)
    BY <1>3, FramesAreMade
  <2>2. <<Frame("sync", "", n)>> \in Seq(Frames(ColdItems))
    BY <2>1, OneIsASeq
  <2> QED BY <1>5, <2>2, ConcatProperties DEF ColdStacks
<1> QED BY <1>1, <1>2, <1>4, <1>6, WithColds DEF CGoes

\* A deed outside the monitor keeps a calm call calm.
LEMMA DeedsCalm ==
  ASSUME CallsOK, ClearsOnce(script, Milds), chars \subseteq Players, NEW c \in Calls, Calm(c),
         DeedDone(c)
  PROVE  Calm(c)' /\ calls'[c].phase = ""
<1>1. CASE DoSetCleared(c)
  BY <1>1, CalmDoes DEF DoSetCleared
<1>2. CASE ~DoSetCleared(c)
  <2>1. CGoes(c)
    BY <1>2, ContinuingColds, PuttingColds, GoColds, InTurnColds, EndIfBelowColds, HandledColds,
       InvokeColds, PassLeadColds DEF DeedDone
  <2>2. calls[c].phase = ""
    BY DeedsBecome
  <2> QED BY <2>1, <2>2, GoesCalm
<1> QED BY <1>1, <1>2

-----------------------------------------------------------------------------
\* A call that leaves the monitor goes on with what is left.
LEMMA LeavesWith ==
  ASSUME CallsOK, NEW c \in Calls, NEW left,
         calls' = [calls EXCEPT ![c] = IF left = <<>> THEN Idle
                                       ELSE [@ EXCEPT !.stack = left, !.phase = ""]]
  PROVE  calls'[c].stack = left /\ calls'[c].phase = ""
<1>1. calls[c] \in Records
  BY DEF CallsOK, Held
<1> DEFINE new == IF left = <<>> THEN Idle
                  ELSE [by |-> calls[c].by, phase |-> "", about |-> calls[c].about, stack |-> left]
<1>2. [calls[c] EXCEPT !.stack = left, !.phase = ""]
      = [by |-> calls[c].by, phase |-> "", about |-> calls[c].about, stack |-> left]
  BY <1>1, RecordWithTwo
<1>3. calls' = [calls EXCEPT ![c] = new]
  BY <1>2
<1>4. new.stack = left /\ new.phase = ""
  BY DEF Idle
<1> HIDE DEF new
<1>5. calls'[c] = new
  BY <1>3 DEF CallsOK
<1> QED BY <1>4, <1>5

\* The steps in the monitor keep a calm call calm, and only two of them are on the way to the
\* lobby.
LEMMA MonitorCalms ==
  ASSUME CallsOK, NEW c \in Calls, Calm(c),
         DoSeal(c) \/ Sweep(c) \/ Release(c) \/ DoRegister(c) \/ Put(c)
  PROVE  Calm(c)' /\ (Disposing(c)' => Sweep(c) \/ (DoSeal(c) /\ ~disposed))
<1>1. CASE DoSeal(c)
  <2>1. Cool(c) /\ calls[c].phase = "" /\ calls[c].stack # <<>>
    BY <1>1, CalmDoes DEF DoSeal, Cool
  <2>2. CASE disposed
    <3>1. Continue(c)
      BY <1>1, <2>2 DEF DoSeal
    <3>2. Calm(c)' /\ calls'[c].phase = ""
      BY <2>1, <3>1, ContinueColds, GoesCalm
    <3> QED BY <3>2 DEF Disposing
  <2>3. CASE ~disposed
    <3>1. calls'[c].stack = calls[c].stack
      BY <1>1, <2>1, <2>3, Phased, PhasesAre DEF DoSeal
    <3> QED BY <1>1, <2>3, <3>1 DEF Calm
  <2> QED BY <2>2, <2>3
<1>2. CASE Sweep(c)
  <2>1. calls[c].stack # <<>>
    BY <1>2 DEF CallsOK, Held, Sweep
  <2>2. calls'[c].stack = calls[c].stack
    BY <1>2, <2>1, Phased, PhasesAre DEF Sweep
  <2> QED BY <1>2, <2>2 DEF Calm
<1>3. CASE Release(c)
  <2>1. calls[c].stack # <<>>
    BY <1>3 DEF CallsOK, Held, Release
  <2>2. Settled(Rest(c)) \in ColdStacks
    BY <2>1, CalmIsCool, RestIsCold, SettledIsCold
  <2> DEFINE left == Settled(Rest(c))
  <2>3. calls' = [calls EXCEPT ![c] = IF left = <<>> THEN Idle
                                      ELSE [@ EXCEPT !.stack = left, !.phase = ""]]
    BY <1>3 DEF Release
  <2>4. calls'[c].stack = left /\ calls'[c].phase = ""
    BY <2>3, LeavesWith
  <2> QED BY <2>2, <2>4 DEF Calm, Disposing
<1>4. CASE Put(c)
  <2>1. calls[c].stack # <<>>
    BY <1>4 DEF CallsOK, Held, Put
  <2>2. CASE calls[c].about \in chars
    <3> DEFINE left == Settled(Tail(calls[c].stack))
    <3>1. calls' = [calls EXCEPT ![c] = IF left = <<>> THEN Idle
                                        ELSE [@ EXCEPT !.stack = left, !.phase = ""]]
      BY <1>4, <2>2 DEF Put
    <3>2. calls'[c].stack = left /\ calls'[c].phase = ""
      BY <3>1, LeavesWith
    <3>3. left \in ColdStacks
      BY <2>1, CalmIsCool, SettledIsCold DEF Cool
    <3> QED BY <3>2, <3>3 DEF Calm, Disposing
  <2>3. CASE calls[c].about \notin chars
    <3>1. calls'[c].stack = calls[c].stack /\ calls'[c].phase = ""
      BY <1>4, <2>1, <2>3, Phased, PhasesAre DEF Put
    <3> QED BY <3>1 DEF Calm, Disposing
  <2> QED BY <2>2, <2>3
<1>5. CASE DoRegister(c)
  <2>1. Cool(c) /\ calls[c].phase = "" /\ Who(c) \in Players
    BY <1>5, CalmDoes DEF DoRegister
  <2>2. CASE Continue(c)
    <3>1. Calm(c)' /\ calls'[c].phase = ""
      BY <2>1, <2>2, ContinueColds, GoesCalm
    <3> QED BY <3>1 DEF Disposing
  <2>3. CASE ~Continue(c)
    <3> DEFINE g == Frame("sync", "", Items(<<Invoke("entry")>>, Who(c)))
               x == <<g>> \o Rest(c)
               new == [calls[c] EXCEPT !.phase = "put", !.about = Who(c), !.stack = x]
    <3>1. calls' = [calls EXCEPT ![c] = new]
      BY <1>5, <2>3 DEF DoRegister
    <3>2. g \in Frames(ColdItems)
      <4>1. Invoke("entry") \in ColdDeeds
        BY ColdJavaDeeds DEF Handlers
      <4>2. Items(<<Invoke("entry")>>, Who(c)) \in Seq(ColdItems)
        BY <2>1, <4>1, ItemsAreCold
      <4> QED BY <4>2, FramesAreMade
    <3> HIDE DEF g
    <3>3. x \in ColdStacks
      <4>1. <<g>> \in Seq(Frames(ColdItems)) /\ Rest(c) \in Seq(Frames(ColdItems))
        BY <2>1, <3>2, OneIsASeq, RestIsCold DEF ColdStacks
      <4> QED BY <4>1, ConcatProperties DEF ColdStacks
    <3> HIDE DEF x
    <3>4. new.stack = x /\ new.phase = "put"
      <4>1. calls[c] \in Records
        BY DEF CallsOK, Held
      <4>2. [calls[c] EXCEPT !.phase = "put", !.about = Who(c), !.stack = x]
            = [by |-> calls[c].by, phase |-> "put", about |-> Who(c), stack |-> x]
        BY <4>1, RecordWithThree
      <4> QED BY <4>2
    <3> HIDE DEF new
    <3>5. calls'[c] = new
      BY <3>1 DEF CallsOK
    <3> QED BY <3>3, <3>4, <3>5 DEF Calm, Disposing
  <2> QED BY <2>2, <2>3
<1> QED BY <1>1, <1>2, <1>3, <1>4, <1>5

-----------------------------------------------------------------------------
\* The one call that clears the event: it asks the script to, the script is in its clearPQ and
\* has yet to do so, the lobby is what comes next.
Asking(c) ==
  /\ calls[c].phase = ""
  /\ \E p \in Players : calls[c].stack = <<Java(<<Ask("clear")>>, p)>>
ClearsAt(items, i) ==
  /\ items[i].deed = SetCleared
  /\ \A j \in 1..(i - 1) : items[j].deed = StopTimer
  /\ \A j \in (i + 1)..Len(items) : items[j] \in ColdItems
Clearing(c) ==
  /\ calls[c].phase = "" /\ calls[c].stack # <<>> /\ Tail(calls[c].stack) \in ColdStacks
  /\ \E i \in 1..Len(Top(c).items) : ClearsAt(Top(c).items, i)
Giving(c) == calls[c].phase = "" /\ Cool(c) /\ Item(c).deed = FreeLobby

\* What a call outside the monitor does when that is its next deed.
LEMMA WhatIsDone ==
  ASSUME NEW c \in Calls, Doing(c), calls[c].phase = ""
  PROVE  /\ Item(c).deed.do = "ask" => DoInvoke(c)
         /\ Item(c).deed.do = "stop timer" => DoStopTimer(c)
         /\ Item(c).deed.do = "set cleared" => DoSetCleared(c)
         /\ Item(c).deed.do = "free lobby" => DoFreeLobby(c)
BY DEF Doing, Does, DoUnregister, DoGo, DoWarp, DoLanded, DoPutOut, DoCall, DoExitAll, DoExitOthers,
   DoFirst, DoWarpTeam, DoEndIfBelow, DoIf, DoBreaks, DoHandled, DoDispose, DoSeal, Sweep,
   Release, DoSetCleared, DoFreeLobby, DoStartTimer, DoStopTimer, DoDismiss, DoLater,
   DoRegister, Put, DoInvoke, DoPassLead, DoLead, DoLeadParty, DoStandard, DoVanish

\* The names of these deeds.
LEMMA DeedNames ==
  /\ StopTimer.do = "stop timer" /\ SetCleared.do = "set cleared" /\ FreeLobby.do = "free lobby"
  /\ \A h \in Handlers : Ask(h).do = "ask" /\ Ask(h).to = h
BY DEF StopTimer, SetCleared, FreeLobby, Ask, Plain, Deed

\* What clearPQ consists of: mild deeds, or one place where it clears the event.
LEMMA ClearItems ==
  ASSUME setting \in Settings, ClearsOnce(script, Milds), NEW p \in Players
  PROVE  LET x == Items(script["clear"], p) IN
         /\ x \in Seq(Quiet)
         /\ x \in Seq(ColdItems) \/ \E i \in 1..Len(x) : ClearsAt(x, i)
<1>1. PICK s : s = script["clear"]
  OBVIOUS
<1>2. s \in Seq(OtherDeeds)
  BY <1>1, DeedsAssumption, QuietAreDoings DEF script, Handlers
<1> DEFINE x == Items(s, p)
<1>3. /\ x \in Seq(Quiet) /\ Len(x) = Len(s) /\ Len(s) \in Nat
      /\ \A i \in 1..Len(s) : x[i].deed = s[i] /\ x[i].who = p
  <2>1. x \in Seq(Quiet) /\ Len(s) \in Nat
    BY <1>2, ScriptsAreQuiet
  <2>2. Len(x) = Len(s) /\ \A i \in 1..Len(s) : x[i] = [deed |-> s[i], who |-> p]
    BY <1>2, ItemsAreDoings
  <2> HIDE DEF x
  <2>3. ASSUME NEW i \in 1..Len(s) PROVE x[i].deed = s[i] /\ x[i].who = p
    <3>1. PICK e : e = s[i]
      OBVIOUS
    <3>2. x[i] = [deed |-> e, who |-> p]
      BY <2>2, <3>1
    <3> QED BY <3>1, <3>2
  <2> QED BY <2>1, <2>2, <2>3
<1> HIDE DEF x
<1>4. \A i \in 1..Len(s) : \/ s[i] \in Milds
                           \/ s[i] = SetCleared /\ \A j \in 1..(i - 1) : s[j] = StopTimer
  <2>1. DOMAIN s = 1..Len(s)
    BY <1>2
  <2> QED BY <1>1, <2>1 DEF ClearsOnce
<1>5. ASSUME NEW i \in 1..Len(s), s[i] \in Milds PROVE x[i] \in ColdItems
  <2>1. x[i] \in Quiet /\ x[i].deed \in ColdDeeds
    BY <1>3, <1>5, ColdIsLess
  <2> QED BY <2>1 DEF Quiet, ColdItems
<1>6. CASE \A i \in 1..Len(s) : s[i] \in Milds
  <2>1. \A i \in 1..Len(x) : x[i] \in ColdItems
    BY <1>3, <1>5, <1>6
  <2>2. x \in Seq(ColdItems)
    BY <1>3, <2>1
  <2> QED BY <1>1, <1>3, <2>2 DEF x
<1>7. ASSUME NEW i \in 1..Len(s), s[i] \notin Milds
      PROVE  ClearsAt(x, i) /\ i \in 1..Len(x)
  <2>1. s[i] = SetCleared /\ \A j \in 1..(i - 1) : s[j] = StopTimer
    BY <1>4, <1>7
  <2>2. x[i].deed = SetCleared
    BY <1>3, <2>1
  <2>3. ASSUME NEW j \in 1..(i - 1) PROVE x[j].deed = StopTimer
    <3>1. j \in 1..Len(s)
      BY <1>3
    <3> QED BY <1>3, <2>1, <3>1
  <2>4. ASSUME NEW j \in (i + 1)..Len(s) PROVE x[j] \in ColdItems
    <3>1. j \in 1..Len(s) /\ i \in 1..(j - 1)
      BY <1>3
    <3>2. SetCleared # StopTimer
      BY DeedNames
    <3>3. s[j] \in Milds
      BY <1>4, <2>1, <3>1, <3>2
    <3> QED BY <1>5, <3>1, <3>3
  <2> QED BY <1>3, <2>2, <2>3, <2>4 DEF ClearsAt
<1> QED BY <1>1, <1>3, <1>6, <1>7 DEF x

-----------------------------------------------------------------------------
\* A frame put on a stack is its head.
LEMMA HeadAndTail ==
  ASSUME NEW D, NEW u \in Seq(D), NEW g
  PROVE  Tail(<<g>> \o u) = u /\ (<<g>> \o u)[1] = g /\ <<g>> \o u # <<>>
<1>1. PICK E : E = D \cup {g}
  OBVIOUS
<1>2. u \in Seq(E) /\ g \in E
  BY <1>1, SeqGrows
<1>3. PICK s : s = <<g>> \o u
  OBVIOUS
<1>4. /\ s \in Seq(E) /\ Len(s) = Len(u) + 1 /\ Len(u) \in Nat
      /\ \A i \in 1..Len(s) : s[i] = IF i = 1 THEN g ELSE u[i - 1]
  <2>1. <<g>> \in Seq(E) /\ Len(<<g>>) = 1 /\ <<g>>[1] = g
    BY <1>2
  <2>2. /\ s \in Seq(E) /\ Len(s) = 1 + Len(u)
        /\ \A i \in 1..(1 + Len(u)) : s[i] = IF i <= 1 THEN <<g>>[i] ELSE u[i - 1]
    BY <1>2, <1>3, <2>1, ConcatProperties
  <2> QED BY <1>2, <2>1, <2>2, LenProperties
<1>5. s # <<>> /\ s[1] = g
  BY <1>4
<1>6. Tail(s) \in Seq(E) /\ Len(Tail(s)) = Len(u) /\ \A i \in 1..Len(u) : Tail(s)[i] = u[i]
  <2>1. PICK n : n = Len(u)
    OBVIOUS
  <2>2. n \in Nat /\ Len(s) = n + 1
    BY <1>4, <2>1
  <2>3. /\ Tail(s) \in Seq(E) /\ Len(Tail(s)) = Len(s) - 1
        /\ \A i \in 1..(Len(s) - 1) : Tail(s)[i] = s[i + 1]
    BY <1>4, <1>5, HeadTailProperties
  <2>4. Len(Tail(s)) = n
    BY <2>2, <2>3
  <2>5. ASSUME NEW i \in 1..n PROVE Tail(s)[i] = u[i]
    <3>1. i \in 1..(Len(s) - 1) /\ i + 1 \in 1..Len(s) /\ i + 1 # 1 /\ (i + 1) - 1 = i
      BY <2>2
    <3> QED BY <1>4, <2>3, <3>1
  <2> QED BY <2>1, <2>3, <2>4, <2>5
<1>7. Tail(s) = u
  BY <1>2, <1>6, SeqEqual
<1> QED BY <1>3, <1>5, <1>7

\* A call at a place in its items where it clears the event.
LEMMA ClearingStack ==
  ASSUME NEW c \in Calls, NEW g, NEW u \in ColdStacks, NEW x, x = g.items, NEW i \in 1..Len(x),
         ClearsAt(x, i), calls'[c].stack = <<g>> \o u, calls'[c].phase = ""
  PROVE  Clearing(c)'
<1>1. PICK s : s = calls'[c].stack
  OBVIOUS
<1>2. Tail(s) = u /\ s[1] = g /\ s # <<>>
  BY <1>1, HeadAndTail DEF ColdStacks
<1>3. s[1].items = x
  BY <1>2
<1>4. calls'[c].stack # <<>> /\ Tail(calls'[c].stack) \in ColdStacks /\ calls'[c].stack[1].items = x
  BY <1>1, <1>2, <1>3
<1>5. \E j \in 1..Len(calls'[c].stack[1].items) : ClearsAt(calls'[c].stack[1].items, j)
  BY <1>4
<1> QED BY <1>4, <1>5 DEF Clearing, Top

\* The call that asks the script to clear the event does so, or goes on.
LEMMA AskingAnswers ==
  ASSUME CallsOK, setting \in Settings, ClearsOnce(script, Milds), NEW c \in Calls, Asking(c),
         Doing(c)
  PROVE  DoInvoke(c) /\ calls'[c].phase = "" /\ (Calm(c)' \/ Clearing(c)')
<1>1. PICK p \in Players : calls[c].stack = <<Java(<<Ask("clear")>>, p)>>
  BY DEF Asking
<1>2. PICK a : a = Ask("clear")
  OBVIOUS
<1>3. a.do = "ask" /\ a.to = "clear"
  BY <1>2, DeedNames DEF Handlers
<1>4. PICK x : x = Items(<<a>>, p)
  OBVIOUS
<1>5. Len(x) = 1 /\ x[1] = [deed |-> a, who |-> p]
  <2>1. PICK s : s = <<a>>
    OBVIOUS
  <2>2. s \in Seq({a}) /\ Len(s) = 1 /\ s[1] = a
    BY <2>1
  <2>3. Len(x) = Len(s) /\ \A i \in 1..Len(s) : x[i] = [deed |-> s[i], who |-> p]
    BY <1>4, <2>1, <2>2, ItemsAreDoings
  <2>4. x[1] = [deed |-> s[1], who |-> p]
    BY <2>2, <2>3
  <2> QED BY <2>2, <2>3, <2>4
<1>6. Top(c).items = x /\ calls[c].stack # <<>> /\ Tail(calls[c].stack) = <<>>
  <2>1. PICK f : f = Java(<<a>>, p)
    OBVIOUS
  <2>2. f.items = x
    BY <1>4, <2>1 DEF Java, Frame
  <2>3. calls[c].stack = <<f>>
    BY <1>1, <1>2, <2>1
  <2> QED BY <2>2, <2>3 DEF Top
<1>7. x \in Seq(Doings)
  BY <1>6, TopIsFrame
<1>8. Tail(x) = <<>> /\ Item(c) = [deed |-> a, who |-> p]
  <2>1. Len(Tail(x)) = 0 /\ Tail(x) \in Seq(Doings)
    <3>1. Len(x) = 1 /\ x # <<>>
      BY <1>5
    <3>2. Tail(x) \in Seq(Doings) /\ Len(Tail(x)) = Len(x) - 1
      BY <1>7, <3>1, HeadTailProperties
    <3> QED BY <3>1, <3>2
  <2>2. Tail(x) = <<>>
    BY <2>1, EmptySeq
  <2>3. Item(c) = x[1]
    BY <1>6 DEF Item
  <2> QED BY <1>5, <2>2, <2>3
<1>9. Item(c).deed = a /\ To(c) = "clear" /\ Who(c) = p
  BY <1>3, <1>8 DEF To, Who
<1>10. Cool(c) /\ calls[c].phase = ""
  <2>1. <<>> \in Seq(ColdItems) /\ <<>> \in ColdStacks
    BY EmptySeq DEF ColdStacks
  <2> QED BY <1>6, <1>8, <2>1 DEF Cool, Asking
<1>11. DoInvoke(c)
  BY <1>3, <1>9, <1>10, WhatIsDone
<1>12. CASE Continue(c)
  BY <1>10, <1>11, <1>12, ContinueColds, GoesCalm
<1>13. CASE ~Continue(c)
  <2>1. Under(c, <<Invoked("clear", "", p)>>)
    BY <1>9, <1>11, <1>13 DEF DoInvoke
  <2> DEFINE z == Items(script["clear"], p)  g == Invoked("clear", "", p)
  <2>2. g.items = z /\ g = Frame("script", "", z)
    BY DEF Invoked, Frame
  <2>3. z \in Seq(Quiet) /\ (z \in Seq(ColdItems) \/ \E i \in 1..Len(z) : ClearsAt(z, i))
    BY ClearItems
  <2>4. g \in Frames(Quiet)
    BY HandlersAreQuiet DEF Handlers
  <2> HIDE DEF z
  <2>5. CASE z \in Seq(ColdItems)
    <3>1. g \in Frames(ColdItems)
      BY <2>2, <2>5, FramesAreMade
    <3>2. <<g>> \in ColdStacks
      BY <3>1, OneIsASeq DEF ColdStacks
    <3>3. CGoes(c)
      BY <1>10, <2>1, <3>2, UnderColds
    <3> QED BY <1>10, <1>11, <3>3, GoesCalm
  <2>6. ASSUME NEW i \in 1..Len(z), ClearsAt(z, i)
        PROVE  calls'[c].phase = "" /\ Clearing(c)'
    <3>1. PICK t : t = <<g>> \o Rest(c)
      OBVIOUS
    <3>2. Becomes(c, t)
      BY <2>1, <3>1 DEF Under
    <3>3. t \in Stacks
      <4>1. <<g>> \in Seq(Frames(Quiet)) /\ Rest(c) \in Stacks
        BY <1>6, <2>4, OneIsASeq, RestIsWithin
      <4> QED BY <3>1, <4>1, LandingCat
    <3>4. Rest(c) \in ColdStacks
      BY <1>10, RestIsCold
    <3>5. t[1] = g /\ t # <<>>
      BY <3>1, <3>4, HeadAndTail DEF ColdStacks
    <3>6. z # <<>>
      BY <2>6
    <3>7. Settled(t) = t
      BY <2>2, <3>3, <3>5, <3>6, SettledIsLively
    <3>8. calls'[c].stack = t /\ calls'[c].phase = ""
      BY <1>10, <3>2, <3>5, <3>7, BecomesThat
    <3> HIDE DEF g
    <3> QED BY <2>2, <2>6, <3>1, <3>4, <3>8, ClearingStack
  <2> QED BY <1>10, <1>11, <2>3, <2>5, <2>6
<1> QED BY <1>11, <1>12, <1>13

-----------------------------------------------------------------------------
\* What is left of the clearing once one deed before it is done.
LEMMA ClearsNext ==
  ASSUME NEW x \in Seq(Doings), NEW i \in 1..Len(x), ClearsAt(x, i)
  PROVE  /\ x # <<>> /\ Tail(x) \in Seq(Doings)
         /\ i = 1 => x[1].deed = SetCleared /\ Tail(x) \in Seq(ColdItems)
         /\ i # 1 => /\ x[1].deed = StopTimer /\ Tail(x) # <<>>
                     /\ i - 1 \in 1..Len(Tail(x)) /\ ClearsAt(Tail(x), i - 1)
<1>1. PICK n, r : n = Len(x) /\ r = Tail(x)
  OBVIOUS
<1>2. n \in Nat /\ i \in 1..n /\ x # <<>>
  BY <1>1
<1>3. r \in Seq(Doings) /\ Len(r) = n - 1 /\ \A j \in 1..(n - 1) : r[j] = x[j + 1]
  BY <1>1, <1>2, HeadTailProperties
<1>4. /\ x[i].deed = SetCleared /\ \A j \in 1..(i - 1) : x[j].deed = StopTimer
      /\ \A j \in (i + 1)..n : x[j] \in ColdItems
  BY <1>1 DEF ClearsAt
<1>5. ASSUME i = 1 PROVE r \in Seq(ColdItems)
  <2>1. \A j \in 1..(n - 1) : r[j] \in ColdItems
    <3>1. \A j \in 1..(n - 1) : j + 1 \in (i + 1)..n
      BY <1>2, <1>5
    <3> QED BY <1>3, <1>4, <3>1
  <2>2. PICK m \in Nat : m = n - 1
    BY <1>2
  <2>3. r \in [1..m -> ColdItems]
    BY <1>3, <2>1, <2>2
  <2> QED BY <2>3
<1>6. ASSUME i # 1
      PROVE  /\ x[1].deed = StopTimer /\ r # <<>>
             /\ i - 1 \in 1..Len(r) /\ ClearsAt(r, i - 1)
  <2>1. PICK k : k = i - 1
    OBVIOUS
  <2>2. k \in 1..(n - 1) /\ 1 \in 1..(i - 1) /\ k + 1 = i
    BY <1>2, <1>6, <2>1
  <2>3. r[k].deed = SetCleared
    BY <1>3, <1>4, <2>2
  <2>4. ASSUME NEW j \in 1..(k - 1) PROVE r[j].deed = StopTimer
    <3>1. j \in 1..(n - 1) /\ j + 1 \in 1..(i - 1)
      BY <1>2, <2>2
    <3> QED BY <1>3, <1>4, <3>1
  <2>5. ASSUME NEW j \in (k + 1)..(n - 1) PROVE r[j] \in ColdItems
    <3>1. j \in 1..(n - 1) /\ j + 1 \in (i + 1)..n
      BY <1>2, <2>2
    <3> QED BY <1>3, <1>4, <3>1
  <2>6. ClearsAt(r, k)
    BY <1>3, <2>3, <2>4, <2>5 DEF ClearsAt
  <2>7. r # <<>>
    BY <1>3, <2>2
  <2> QED BY <1>3, <1>4, <2>1, <2>2, <2>6, <2>7
<1> QED BY <1>1, <1>2, <1>3, <1>4, <1>5, <1>6

\* The place where the script clears the event is reached, or given up.
LEMMA ClearingGoesOn ==
  ASSUME CallsOK, NEW c \in Calls, Clearing(c), Doing(c)
  PROVE  \/ DoStopTimer(c) /\ calls'[c].phase = "" /\ (Calm(c)' \/ Clearing(c)')
         \/ DoSetCleared(c) /\ calls'[c].phase = "" /\ Giving(c)'
<1>1. /\ calls[c].phase = "" /\ calls[c].stack # <<>> /\ Tail(calls[c].stack) \in ColdStacks
      /\ Top(c) \in Frames(Doings) /\ Top(c).items \in Seq(Doings) /\ Who(c) \in Players
  BY TopIsFrame DEF Clearing
<1>2. PICK x : x = Top(c).items
  OBVIOUS
<1>3. PICK i \in 1..Len(x) : ClearsAt(x, i)
  BY <1>2 DEF Clearing
<1>4. PICK r, u : r = Tail(x) /\ u = Tail(calls[c].stack)
  OBVIOUS
<1>5. /\ x \in Seq(Doings) /\ x # <<>> /\ r \in Seq(Doings) /\ Item(c).deed = x[1].deed
      /\ i = 1 => x[1].deed = SetCleared /\ r \in Seq(ColdItems)
      /\ i # 1 => /\ x[1].deed = StopTimer /\ r # <<>>
                  /\ i - 1 \in 1..Len(r) /\ ClearsAt(r, i - 1)
  BY <1>1, <1>2, <1>3, <1>4, ClearsNext DEF Item
<1>6. CASE i # 1
  <2>1. DoStopTimer(c)
    BY <1>1, <1>5, <1>6, DeedNames, WhatIsDone
  <2>2. CASE Crash(c)
    <3>1. CGoes(c)
      BY <1>1, <2>2, PastIsCold DEF Crash, CGoes
    <3> QED BY <1>1, <2>1, <3>1, GoesCalm
  <2>3. CASE Continue(c)
    <3>1. PICK t : t = Rest(c)
      OBVIOUS
    <3>2. t \in Stacks /\ t # <<>> /\ t[1].items = r
      BY <1>1, <1>2, <1>4, <3>1, RestIsWithin
    <3>3. Settled(t) = t
      BY <1>5, <1>6, <3>2, SettledIsLively
    <3>4. calls'[c].stack = t /\ calls'[c].phase = ""
      BY <1>1, <2>3, <3>1, <3>2, <3>3, BecomesThat DEF Continue
    <3>5. PICK g : g = [Top(c) EXCEPT !.items = Tail(@)]
      OBVIOUS
    <3>6. g.items = r /\ t = <<g>> \o u
      BY <1>1, <1>2, <1>4, <3>1, <3>5 DEF Rest, Frames
    <3> QED BY <1>1, <1>4, <1>5, <1>6, <2>1, <3>4, <3>6, ClearingStack
  <2> QED BY <2>1, <2>2, <2>3 DEF DoStopTimer
<1>7. CASE i = 1
  <2>1. DoSetCleared(c)
    BY <1>1, <1>5, <1>7, DeedNames, WhatIsDone
  <2>2. PICK q : q = Items(<<FreeLobby>>, Who(c))
    OBVIOUS
  <2>3. q \in Seq(Quiet) /\ \E y : q = <<y>> /\ y.deed = FreeLobby
    <3>1. q \in Seq(Quiet)
      BY <1>1, <2>2, JavaItems, JavaDeedsAre
    <3>2. PICK s : s = <<FreeLobby>>
      OBVIOUS
    <3>3. s \in Seq(OtherDeeds) /\ Len(s) = 1 /\ s[1] = FreeLobby
      BY <3>2, JavaDeedsAre
    <3>4. Len(q) = Len(s) /\ \A j \in 1..Len(s) : q[j] = [deed |-> s[j], who |-> Who(c)]
      BY <1>1, <2>2, <3>2, <3>3, ItemsAreDoings
    <3>5. Len(q) = 1 /\ q[1] = [deed |-> s[1], who |-> Who(c)]
      BY <3>3, <3>4
    <3>6. q = <<q[1]>> /\ q[1].deed = FreeLobby
      BY <3>1, <3>3, <3>5
    <3> QED BY <3>1, <3>6
  <2>4. PICK y : q = <<y>> /\ y.deed = FreeLobby
    BY <2>3
  <2>5. PICK f : f = [Top(c) EXCEPT !.items = q \o Tail(@)]
    OBVIOUS
  <2>6. PICK t : t = <<f>> \o u
    OBVIOUS
  <2>7. f.items = q \o r /\ t \in Stacks /\ t # <<>> /\ t[1] = f
    BY <1>1, <1>2, <1>4, <2>3, <2>5, <2>6, Pushed
  <2>8. Becomes(c, t)
    BY <1>4, <2>1, <2>2, <2>5, <2>6 DEF DoSetCleared, With
  <2>9. Tail(q \o r) = r /\ (q \o r)[1] = y /\ q \o r # <<>>
    BY <1>5, <2>4, HeadAndTail
  <2>10. Settled(t) = t
    BY <2>7, <2>9, SettledIsLively
  <2>11. calls'[c].stack = t /\ calls'[c].phase = ""
    BY <1>1, <2>7, <2>8, <2>10, BecomesThat
  <2>12. Tail(t) = u
    BY <1>1, <1>4, <2>6, HeadAndTail DEF ColdStacks
  <2>13. PICK z : z = q \o r
    OBVIOUS
  <2>14. z[1].deed = FreeLobby /\ Tail(z) = r /\ t[1].items = z
    BY <2>4, <2>7, <2>9, <2>13
  <2>15. Giving(c)'
    BY <1>1, <1>4, <1>5, <1>7, <2>7, <2>11, <2>12, <2>14 DEF Giving, Cool, Item, Top
  <2> QED BY <2>1, <2>11, <2>15
<1> QED BY <1>6, <1>7

\* Then it gives the lobby back.
LEMMA GivingEnds ==
  ASSUME CallsOK, NEW c \in Calls, Giving(c), Doing(c)
  PROVE  DoFreeLobby(c) /\ calls'[c].phase = "" /\ Calm(c)'
<1>1. calls[c].phase = "" /\ Cool(c) /\ Item(c).deed = FreeLobby
  BY DEF Giving
<1>2. DoFreeLobby(c)
  BY <1>1, DeedNames, WhatIsDone
<1>3. CGoes(c)
  BY <1>1, <1>2, ContinueColds DEF DoFreeLobby
<1> QED BY <1>1, <1>2, <1>3, GoesCalm

-----------------------------------------------------------------------------
\* A call that is over has neither a phase nor deeds.
LEMMA IdleHas ==
  ASSUME NEW c \in Calls, ~Busy(c)
  PROVE  calls[c].phase = "" /\ calls[c].stack = <<>>
<1>1. PICK i : i = Idle
  OBVIOUS
<1>2. i.phase = "" /\ i.stack = <<>>
  BY <1>1 DEF Idle
<1>3. calls[c] = i
  BY <1>1 DEF Busy
<1> QED BY <1>2, <1>3

\* Whoever does something is busy.
LEMMA BusyDoes ==
  ASSUME NEW c \in Calls, Doing(c)
  PROVE  Busy(c)
<1>1. calls[c].stack # <<>> \/ calls[c].phase # ""
  BY DEF Doing, Does, DoUnregister, DoGo, DoWarp, DoLanded, DoPutOut, DoCall,
     DoExitAll, DoExitOthers, DoFirst, DoWarpTeam, DoEndIfBelow, DoIf, DoBreaks, DoHandled,
     DoDispose, DoSeal, Sweep, Release, DoSetCleared, DoFreeLobby, DoStartTimer, DoStopTimer,
     DoDismiss, DoLater, DoRegister, Put, DoInvoke, DoPassLead, DoLead, DoLeadParty, DoStandard,
     DoVanish
<1> QED BY <1>1, IdleHas

\* The lobby is given back by two deeds alone, and whether calls overlapped is told by no deed.
LEMMA FreedStays ==
  ASSUME NEW c \in Calls, Doing(c)
  PROVE  /\ setting' = setting
         /\ freed' = freed \/ (DoFreeLobby(c) /\ freed' = Again)
            \/ (Release(c) /\ ~cleared /\ freed' = Again)
<1>1. setting' = setting
  BY DEF Doing, DoUnregister, DoGo, DoWarp, DoLanded, DoPutOut, DoCall, DoExitAll, DoExitOthers,
     DoFirst, DoWarpTeam, DoEndIfBelow, DoIf, DoBreaks, DoHandled, DoDispose, DoSeal, Sweep,
     Release, DoSetCleared, DoFreeLobby, DoStartTimer, DoStopTimer, DoDismiss, DoLater,
     DoRegister, Put, DoInvoke, DoPassLead, DoLead, DoLeadParty, DoStandard, DoVanish, Apart
<1>2. CASE DoFreeLobby(c)
  BY <1>1, <1>2 DEF DoFreeLobby
<1>3. CASE Release(c)
  BY <1>1, <1>3 DEF Release
<1>4. CASE ~DoFreeLobby(c) /\ ~Release(c)
  BY <1>1, <1>4 DEF Doing, DoUnregister, DoGo, DoWarp, DoLanded, DoPutOut, DoCall, DoExitAll, DoExitOthers,
     DoFirst, DoWarpTeam, DoEndIfBelow, DoIf, DoBreaks, DoHandled, DoDispose, DoSeal, Sweep,
     DoSetCleared, DoStartTimer, DoStopTimer, DoDismiss, DoLater,
     DoRegister, Put, DoInvoke, DoPassLead, DoLead, DoLeadParty, DoStandard, DoVanish, Ended
<1> QED BY <1>1, <1>2, <1>3, <1>4

\* What is remembered of the past.
Historical ==
  past = [came |-> past.came, missed |-> past.missed, overlapped |-> past.overlapped,
          crashed |-> past.crashed]

\* One thing of it changes, or two.
LEMMA PastWith ==
  ASSUME Historical, NEW x, NEW y
  PROVE  /\ [past EXCEPT !.crashed = x] = [came |-> past.came, missed |-> past.missed,
              overlapped |-> past.overlapped, crashed |-> x]
         /\ [past EXCEPT !.missed = x] = [came |-> past.came, missed |-> x,
              overlapped |-> past.overlapped, crashed |-> past.crashed]
         /\ [past EXCEPT !.overlapped = x] = [came |-> past.came, missed |-> past.missed,
              overlapped |-> x, crashed |-> past.crashed]
         /\ [past EXCEPT !.came = x, !.missed = y] = [came |-> x, missed |-> y,
              overlapped |-> past.overlapped, crashed |-> past.crashed]
<1>1. PICK a, m, o, k : past = [came |-> a, missed |-> m, overlapped |-> o, crashed |-> k]
  BY DEF Historical
<1>2. past.came = a /\ past.missed = m /\ past.overlapped = o /\ past.crashed = k
  BY <1>1
<1>3. [past EXCEPT !.crashed = x] = [came |-> a, missed |-> m, overlapped |-> o, crashed |-> x]
  BY <1>1
<1>4. [past EXCEPT !.missed = x] = [came |-> a, missed |-> x, overlapped |-> o, crashed |-> k]
  BY <1>1
<1>5. [past EXCEPT !.overlapped = x] = [came |-> a, missed |-> m, overlapped |-> x, crashed |-> k]
  BY <1>1
<1> DEFINE one == [past EXCEPT !.came = x]
<1>6. one = [came |-> x, missed |-> m, overlapped |-> o, crashed |-> k]
  BY <1>1
<1> HIDE DEF one
<1>7. [one EXCEPT !.missed = y] = [came |-> x, missed |-> y, overlapped |-> o, crashed |-> k]
  BY <1>6
<1> QED BY <1>2, <1>3, <1>4, <1>5, <1>7 DEF one

\* No deed changes whether calls overlapped.
LEMMA PastStays ==
  ASSUME Historical, NEW c \in Calls, Doing(c)
  PROVE  Historical' /\ past'.overlapped = past.overlapped
<1>1. CASE UNCHANGED past
  BY <1>1 DEF Historical
<1>2. CASE past' = [past EXCEPT !.crashed = TRUE]
  <2>1. past' = [came |-> past.came, missed |-> past.missed, overlapped |-> past.overlapped,
                 crashed |-> TRUE]
    BY <1>2, PastWith
  <2> QED BY <2>1 DEF Historical
<1>3. ASSUME NEW x, past' = [past EXCEPT !.missed = x]
      PROVE  Historical' /\ past'.overlapped = past.overlapped
  <2>1. past' = [came |-> past.came, missed |-> x, overlapped |-> past.overlapped,
                 crashed |-> past.crashed]
    BY <1>3, PastWith
  <2> QED BY <2>1 DEF Historical
<1>4. ASSUME NEW x, NEW y, past' = [past EXCEPT !.came = x, !.missed = y]
      PROVE  Historical' /\ past'.overlapped = past.overlapped
  <2>1. past' = [came |-> x, missed |-> y, overlapped |-> past.overlapped,
                 crashed |-> past.crashed]
    BY <1>4, PastWith
  <2> QED BY <2>1 DEF Historical
<1>5. CASE DoWarp(c)
  <2>1. \/ UNCHANGED past \/ past' = [past EXCEPT !.crashed = TRUE]
        \/ \E x : past' = [past EXCEPT !.missed = x]
    BY <1>5 DEF DoWarp, Crash
  <2> QED BY <1>1, <1>2, <1>3, <2>1
<1>6. CASE Put(c)
  <2>1. UNCHANGED past \/ \E x, y : past' = [past EXCEPT !.came = x, !.missed = y]
    BY <1>6 DEF Put
  <2> QED BY <1>1, <1>4, <2>1
<1>7. CASE DoGo(c) \/ DoFirst(c) \/ DoStartTimer(c) \/ DoStopTimer(c) \/ DoDismiss(c)
  <2>1. UNCHANGED past \/ past' = [past EXCEPT !.crashed = TRUE]
    BY <1>7 DEF DoGo, DoFirst, DoStartTimer, DoStopTimer, DoDismiss, Crash
  <2> QED BY <1>1, <1>2, <2>1
<1>8. CASE ~(DoWarp(c) \/ Put(c) \/ DoGo(c) \/ DoFirst(c) \/ DoStartTimer(c) \/ DoStopTimer(c)
             \/ DoDismiss(c))
  <2>1. UNCHANGED past
    BY <1>8 DEF Doing, DoUnregister, DoLanded, DoPutOut, DoCall, DoExitAll, DoExitOthers,
       DoWarpTeam, DoEndIfBelow, DoIf, DoBreaks, DoHandled, DoDispose, DoSeal, Sweep,
       Release, DoSetCleared, DoFreeLobby, DoLater,
       DoRegister, DoInvoke, DoPassLead, DoLead, DoLeadParty, DoStandard, DoVanish, Moves
  <2> QED BY <1>1, <2>1
<1> QED BY <1>5, <1>6, <1>7, <1>8

-----------------------------------------------------------------------------
\* A beginning is remembered by whether anything was under way.
LEMMA StartsTell ==
  ASSUME Historical, NEW by, NEW frames, Starts(by, frames)
  PROVE  Historical' /\ (~past'.overlapped => ~past.overlapped /\ AtRest)
<1>1. PICK o : o = (past.overlapped \/ \E d \in Calls : Busy(d))
  OBVIOUS
<1>2. past' = [past EXCEPT !.overlapped = o]
  BY <1>1 DEF Starts
<1>3. past' = [came |-> past.came, missed |-> past.missed, overlapped |-> o,
               crashed |-> past.crashed]
  BY <1>2, PastWith
<1>4. Historical' /\ past'.overlapped = o
  BY <1>3 DEF Historical
<1>5. ~o => ~past.overlapped /\ AtRest
  BY <1>1, Zenon DEF AtRest
<1> QED BY <1>4, <1>5

\* When nothing was, the call that begins is the only one.
LEMMA StartsAlone ==
  ASSUME CallsOK, AtRest, NEW by, NEW frames, Starts(by, frames)
  PROVE  \E c \in Calls : /\ calls'[c].stack = frames /\ calls'[c].phase = ""
                          /\ \A d \in Calls \ {c} : calls'[d] = Idle
<1> DEFINE new == [by |-> by, phase |-> "", about |-> Leader, stack |-> frames]
<1>1. PICK c \in Calls : calls' = [calls EXCEPT ![c] = new]
  BY DEF Starts
<1>2. new.stack = frames /\ new.phase = ""
  OBVIOUS
<1> HIDE DEF new
<1>3. calls'[c] = new /\ \A d \in Calls \ {c} : calls'[d] = calls[d]
  BY <1>1 DEF CallsOK
<1>4. \A d \in Calls \ {c} : calls'[d] = Idle
  BY <1>3 DEF AtRest, Busy
<1> QED BY <1>2, <1>3, <1>4

\* A call may begin with cold deeds.
Cold(frames) == Fresh(frames) /\ frames \in ColdStacks

\* One or two of the Java code.
LEMMA JavaIsColdAndFresh ==
  ASSUME NEW d \in ColdDeeds \ {Landed}, NEW e \in ColdDeeds \ {Landed}, NEW p \in Players
  PROVE  Cold(<<Java(<<d>>, p)>>) /\ Cold(<<Java(<<d, e>>, p)>>)
<1>1. d \in OtherDeeds /\ e \in OtherDeeds
  BY ColdDeedsAre
<1>2. Fresh(<<Java(<<d>>, p)>>) /\ Fresh(<<Java(<<d, e>>, p)>>)
  BY <1>1, JavaIsFresh
<1>3. Items(<<d>>, p) \in Seq(ColdItems) /\ Items(<<d, e>>, p) \in Seq(ColdItems)
  BY ItemsAreCold
<1>4. Java(<<d>>, p) \in Frames(ColdItems) /\ Java(<<d, e>>, p) \in Frames(ColdItems)
  BY <1>3, FramesAreMade DEF Java
<1>5. <<Java(<<d>>, p)>> \in ColdStacks /\ <<Java(<<d, e>>, p)>> \in ColdStacks
  BY <1>4, OneIsASeq DEF ColdStacks
<1> QED BY <1>2, <1>5 DEF Cold

\* A disconnection does.
LEMMA DropIsCold ==
  ASSUME party \subseteq Players, NEW p \in Players, Drop(p)
  PROVE  \E frames : frames \in ColdStacks /\ Starts("pool", frames)
<1> DEFINE near == {q \in party \ {p} : at[q] = at[p]}
           heirs == IF p = partyLeader /\ p \in party THEN near ELSE {}
           lost == Items(<<Ask("lost")>>, p)
<1>1. PICK passing \in {Items(<<PassLead>>, q) : q \in heirs} \cup {<<>>} :
        Happens("pool", <<Frame("safe", "", passing \o lost), Java(<<Vanish>>, p)>>)
  BY DEF Drop
<1>2. heirs \subseteq Players
  OBVIOUS
<1> HIDE DEF heirs
<1>3. lost \in Seq(ColdItems)
  <2>1. Ask("lost") \in ColdDeeds
    BY ColdJavaDeeds DEF Handlers
  <2> QED BY <2>1, ItemsAreCold
<1>4. passing \in Seq(ColdItems)
  <2>1. <<>> \in Seq(ColdItems)
    BY EmptySeq
  <2> QED BY <1>1, <1>2, <2>1, ItemsAreCold, ColdJavaDeeds
<1>5. Items(<<Vanish>>, p) \in Seq(ColdItems)
  BY ItemsAreCold, ColdJavaDeeds
<1> DEFINE x == passing \o lost
           f == Frame("safe", "", x)  g == Java(<<Vanish>>, p)
<1> HIDE DEF lost
<1>6. x \in Seq(ColdItems)
  BY <1>3, <1>4, ConcatProperties
<1>7. Starts("pool", <<f, g>>)
  BY <1>1 DEF Happens, lost
<1> HIDE DEF x
<1>8. f \in Frames(ColdItems) /\ g \in Frames(ColdItems)
  BY <1>5, <1>6, FramesAreMade DEF Java
<1> HIDE DEF f, g
<1>9. <<f, g>> \in ColdStacks
  BY <1>8, TwoAreASeq DEF ColdStacks
<1> QED BY <1>7, <1>9

\* Whatever happens begins with cold deeds, but for the clearing.
LEMMA BeginningIsCold ==
  ASSUME setting \in Settings, party \subseteq Players, Beginning
  PROVE  \E by, frames :
           /\ Starts(by, frames)
           /\ \/ frames \in ColdStacks
              \/ /\ ~cleared /\ member # {}
                 /\ \E p \in Players : frames = <<Java(<<Ask("clear")>>, p)>>
<1> DEFINE Begun == \E by, frames : Starts(by, frames) /\ frames \in ColdStacks
<1>1. setting.team \subseteq Players /\ Leader \in Players
  BY EventAssumption
<1>2. \A h \in Handlers \ {"clear"}, p \in Players :
        <<Java(<<Ask(h)>>, p)>> \in ColdStacks /\ <<Java(<<Invoke(h)>>, p)>> \in ColdStacks
  <2> SUFFICES ASSUME NEW h \in Handlers \ {"clear"}, NEW p \in Players
               PROVE  <<Java(<<Ask(h)>>, p)>> \in ColdStacks /\ <<Java(<<Invoke(h)>>, p)>> \in ColdStacks
    OBVIOUS
  <2>1. Ask(h) \in ColdDeeds \ {Landed} /\ Invoke(h) \in ColdDeeds \ {Landed}
    BY ColdJavaDeeds DEF Ask, Invoke, Landed, Plain, Deed
  <2> QED BY <2>1, JavaIsColdAndFresh DEF Cold
<1>3. \A d \in {Register, PassLead, Dismiss, Standard} : d \in ColdDeeds \ {Landed}
  <2>1. /\ Register.do = "register" /\ PassLead.do = "pass lead" /\ Dismiss.do = "dismiss"
        /\ Standard.do = "standard" /\ Landed.do = "landed"
    BY DEF Register, PassLead, Dismiss, Standard, Landed, Plain, Deed
  <2> QED BY <2>1, ColdJavaDeeds
<1>4. ASSUME NEW p \in setting.team, NEW to \in {"in", "out"}, Wander(p, to)
      PROVE  Begun
  <2>1. Go(to) \in ColdDeeds \ {Landed}
    BY ColdJavaDeeds DEF Ways, Go, Landed, Plain, Deed
  <2>2. <<Java(<<Go(to)>>, p)>> \in ColdStacks
    BY <1>1, <2>1, JavaIsColdAndFresh DEF Cold
  <2> QED BY <1>4, <2>2 DEF Wander, Happens
<1>5. ASSUME NEW p \in setting.team, LeaveParty(p) PROVE Begun
  BY <1>1, <1>2, <1>5 DEF LeaveParty, Happens, Handlers
<1>6. ASSUME NEW p \in setting.team, Expel(p) PROVE Begun
  BY <1>1, <1>2, <1>6 DEF Expel, Happens, Handlers
<1>7. ASSUME NEW p \in setting.team, HandOver(p) PROVE Begun
  BY <1>1, <1>3, <1>7, JavaIsColdAndFresh DEF HandOver, Happens, Cold
<1>8. ASSUME NEW p \in setting.team, Drop(p) PROVE Begun
  BY <1>1, <1>8, DropIsCold
<1>9. ASSUME NEW p \in setting.team, Die(p) PROVE Begun
  BY <1>1, <1>2, <1>9 DEF Die, Happens, Handlers
<1>10. ASSUME NEW p \in setting.team, Revive(p) PROVE Begun
  <2>1. Ask("revive") \in ColdDeeds \ {Landed}
    BY ColdJavaDeeds DEF Handlers, Ask, Landed, Plain, Deed
  <2>2. <<Java(<<Ask("revive"), Standard>>, p)>> \in ColdStacks
    BY <1>1, <1>3, <2>1, JavaIsColdAndFresh DEF Cold
  <2> QED BY <1>10, <2>2 DEF Revive, Happens
<1>11. ASSUME NEW p \in setting.team, Finish(p)
       PROVE  /\ ~cleared /\ member # {}
              /\ \E by : Starts(by, <<Java(<<Ask("clear")>>, p)>>)
  BY <1>11 DEF Finish, Happens
<1>12. ASSUME NEW p \in setting.team, Accident(p) PROVE Begun
  BY <1>1, <1>2, <1>12 DEF Accident, Happens, Handlers
<1>13. ASSUME NEW p \in setting.team, Rejoin(p) PROVE Begun
  BY <1>1, <1>3, <1>13, JavaIsColdAndFresh DEF Rejoin, Happens, Cold
<1>14. ASSUME TimerFires PROVE Begun
  <2>1. Invoke("timeout") \in ColdDeeds \ {Landed}
    BY ColdJavaDeeds DEF Handlers, Invoke, Landed, Plain, Deed
  <2>2. <<Java(<<Dismiss, Invoke("timeout")>>, Leader)>> \in ColdStacks
    BY <1>1, <1>3, <2>1, JavaIsColdAndFresh DEF Cold
  <2> QED BY <1>14, <2>2 DEF TimerFires
<1>15. ASSUME LaterFires PROVE Begun
  <2>1. <<Java(<<Invoke("later")>>, Leader)>> \in ColdStacks
    BY <1>1, <1>2 DEF Handlers
  <2>2. PICK frames : frames = <<Java(<<Invoke("later")>>, Leader)>>
    OBVIOUS
  <2>3. Starts("worker", frames) /\ frames \in ColdStacks
    BY <1>15, <2>1, <2>2 DEF LaterFires
  <2> QED BY <2>3
<1>16. CASE \E p \in setting.team : Finish(p)
  BY <1>1, <1>11, <1>16
<1>17. CASE ~\E p \in setting.team : Finish(p)
  <2>1. Begun
    BY <1>4, <1>5, <1>6, <1>7, <1>8, <1>9, <1>10, <1>12, <1>13, <1>14, <1>15, <1>17 DEF Beginning
  <2> QED BY <2>1
<1> QED BY <1>16, <1>17

-----------------------------------------------------------------------------
\* While calls have never overlapped: there is one at a time, it is calm or it is the one that
\* clears the event and is where the flag says it is, and the lobby was given back at most once.
Lone == \A c, d \in Calls : Busy(c) /\ Busy(d) => c = d
OnItsWay(c) ==
  /\ Disposing(c) => disposed /\ (~cleared => freed = 0)
  /\ \/ Calm(c)
     \/ (Asking(c) \/ Clearing(c)) /\ ~cleared /\ ~disposed
     \/ Giving(c) /\ cleared /\ ~disposed /\ freed = 0
Once ==
  /\ Lone /\ freed < 2 /\ (~cleared /\ ~disposed => freed = 0)
  /\ \A c \in Calls : OnItsWay(c)
OnceInv == Historical /\ (~past.overlapped /\ ClearsOnce(script, Milds) => Once)

\* A calm call that is not disposing is on its way.
LEMMA CalmIsOnItsWay ==
  ASSUME NEW c \in Calls, Calm(c)', calls'[c].phase = ""
  PROVE  OnItsWay(c)'
BY DEF OnItsWay, Disposing

\* So is one that is over.
LEMMA IdleIsOnItsWay ==
  ASSUME NEW c \in Calls, calls'[c] = Idle
  PROVE  OnItsWay(c)'
<1>1. PICK i : i = Idle
  OBVIOUS
<1>2. i.phase = "" /\ i.stack = <<>>
  BY <1>1 DEF Idle
<1>3. calls'[c].phase = "" /\ calls'[c].stack = <<>>
  BY <1>1, <1>2
<1>4. <<>> \in ColdStacks
  BY EmptySeq DEF ColdStacks
<1>5. Calm(c)'
  BY <1>3, <1>4 DEF Calm
<1> QED BY <1>3, <1>5, CalmIsOnItsWay

\* The rest of Once, and of the call at hand, is all there is.
LEMMA OnceOf ==
  ASSUME NEW c \in Calls, \A d \in Calls \ {c} : calls'[d] = Idle, freed' < 2,
         ~cleared' /\ ~disposed' => freed' = 0, OnItsWay(c)'
  PROVE  Once'
<1>1. \A d \in Calls : OnItsWay(d)'
  BY IdleIsOnItsWay
<1>2. Lone'
  BY DEF Lone, Busy
<1> QED BY <1>1, <1>2 DEF Once

-----------------------------------------------------------------------------
\* Steps in the monitor keep it,
LEMMA OnceInMonitor ==
  ASSUME CallsOK, Flags, Once, NEW c \in Calls, Doing(c), Calm(c), freed \in 0..2,
         \A d \in Calls \ {c} : calls'[d] = Idle,
         DoSeal(c) \/ Sweep(c) \/ Release(c) \/ DoRegister(c) \/ Put(c)
  PROVE  Once'
<1>1. Calm(c)' /\ (Disposing(c)' => Sweep(c) \/ (DoSeal(c) /\ ~disposed))
  BY MonitorCalms
<1>2. OnItsWay(c) /\ freed < 2 /\ (~cleared /\ ~disposed => freed = 0)
  BY DEF Once
<1>3. ~DoSetCleared(c) /\ ~DoFreeLobby(c)
  BY CalmDoes DEF DoSetCleared, DoFreeLobby
<1>4. cleared' = cleared
  BY <1>3, Kept
<1>5. CASE DoSeal(c) /\ ~disposed
  <2>1. disposed' = TRUE /\ freed' = freed
    BY <1>5 DEF DoSeal
  <2>2. OnItsWay(c)'
    BY <1>1, <1>2, <1>4, <1>5, <2>1 DEF OnItsWay
  <2> QED BY <1>2, <2>1, <2>2, OnceOf
<1>6. CASE Sweep(c)
  <2>1. disposed' = disposed /\ freed' = freed
    BY <1>6 DEF Sweep, Ended
  <2>2. Disposing(c)
    BY <1>6 DEF Sweep, Disposing
  <2>3. disposed /\ (~cleared => freed = 0)
    BY <1>2, <2>2 DEF OnItsWay
  <2>4. OnItsWay(c)'
    BY <1>1, <1>4, <2>1, <2>3 DEF OnItsWay
  <2> QED BY <1>2, <2>1, <2>3, <2>4, OnceOf
<1>7. CASE Release(c)
  <2>1. calls[c].phase = "free" /\ disposed' = disposed
    BY <1>7 DEF Release
  <2>2. disposed /\ (~cleared => freed = 0)
    BY <1>2, <2>1 DEF OnItsWay, Disposing
  <2>3. freed' < 2
    BY <1>2, <1>7, <2>2 DEF Release, Again
  <2>4. ~Disposing(c)'
    BY <1>1, <2>1, <2>2 DEF Sweep
  <2>5. OnItsWay(c)'
    BY <1>1, <2>4 DEF OnItsWay
  <2> QED BY <2>1, <2>2, <2>3, <2>5, OnceOf
<1>8. CASE ~(DoSeal(c) /\ ~disposed) /\ ~Sweep(c) /\ ~Release(c)
  <2>1. disposed' = disposed /\ freed' = freed
    BY <1>3, <1>8, Kept, FreedStays
  <2>2. OnItsWay(c)'
    BY <1>1, <1>8 DEF OnItsWay
  <2> QED BY <1>2, <1>4, <2>1, <2>2, OnceOf
<1> QED BY <1>5, <1>6, <1>7, <1>8

\* as does every deed of a calm call,
LEMMA OnceInCalm ==
  ASSUME CallsOK, Flags, Once, NEW c \in Calls, Doing(c), Calm(c), freed \in 0..2,
         chars \subseteq Players, ClearsOnce(script, Milds),
         \A d \in Calls \ {c} : calls'[d] = Idle
  PROVE  Once'
<1>1. CASE DoSeal(c) \/ Sweep(c) \/ Release(c) \/ DoRegister(c) \/ Put(c)
  BY <1>1, OnceInMonitor
<1>2. CASE ~(DoSeal(c) \/ Sweep(c) \/ Release(c) \/ DoRegister(c) \/ Put(c))
  <2>1. DeedDone(c)
    BY <1>2 DEF Doing, DeedDone
  <2>2. Calm(c)' /\ calls'[c].phase = ""
    BY <2>1, DeedsCalm
  <2>3. ~DoSetCleared(c) /\ ~DoFreeLobby(c)
    BY CalmDoes DEF DoSetCleared, DoFreeLobby
  <2>4. cleared' = cleared /\ disposed' = disposed /\ freed' = freed
    BY <1>2, <2>3, Kept, FreedStays
  <2>5. freed < 2 /\ (~cleared /\ ~disposed => freed = 0)
    BY DEF Once
  <2> QED BY <2>2, <2>4, <2>5, CalmIsOnItsWay, OnceOf
<1> QED BY <1>1, <1>2

\* and those of the call that clears the event.
LEMMA OnceStays ==
  ASSUME CallsOK, Flags, Once, NEW c \in Calls, Doing(c), freed \in 0..2,
         setting \in Settings, chars \subseteq Players, ClearsOnce(script, Milds)
  PROVE  Once'
<1>1. \A d \in Calls \ {c} : calls'[d] = Idle
  <2>1. Busy(c) /\ \A d \in Calls \ {c} : calls'[d] = calls[d]
    BY BusyDoes, OthersWait
  <2>2. \A d \in Calls \ {c} : ~Busy(d)
    BY <2>1 DEF Once, Lone
  <2> QED BY <2>1, <2>2 DEF Busy
<1>2. OnItsWay(c) /\ freed < 2 /\ (~cleared /\ ~disposed => freed = 0)
  BY DEF Once
<1>3. CASE Calm(c)
  BY <1>1, <1>3, OnceInCalm
<1>4. CASE Asking(c) /\ ~cleared /\ ~disposed
  <2>1. DoInvoke(c) /\ calls'[c].phase = "" /\ (Calm(c)' \/ Clearing(c)')
    BY <1>4, AskingAnswers
  <2>2. cleared' = cleared /\ disposed' = disposed /\ freed' = freed
    BY <2>1 DEF DoInvoke, Ended
  <2>3. OnItsWay(c)'
    BY <1>4, <2>1, <2>2 DEF OnItsWay, Disposing
  <2> QED BY <1>1, <1>2, <2>2, <2>3, OnceOf
<1>5. CASE Clearing(c) /\ ~cleared /\ ~disposed
  <2>1. CASE DoStopTimer(c) /\ calls'[c].phase = "" /\ (Calm(c)' \/ Clearing(c)')
    <3>1. cleared' = cleared /\ disposed' = disposed /\ freed' = freed
      BY <2>1 DEF DoStopTimer
    <3>2. OnItsWay(c)'
      BY <1>5, <2>1, <3>1 DEF OnItsWay, Disposing
    <3> QED BY <1>1, <1>2, <3>1, <3>2, OnceOf
  <2>2. CASE DoSetCleared(c) /\ calls'[c].phase = "" /\ Giving(c)'
    <3>1. cleared' = TRUE /\ disposed' = disposed /\ freed' = freed
      BY <2>2 DEF DoSetCleared
    <3>2. OnItsWay(c)'
      BY <1>2, <1>5, <2>2, <3>1 DEF OnItsWay, Disposing
    <3> QED BY <1>1, <1>2, <3>1, <3>2, OnceOf
  <2> QED BY <1>5, <2>1, <2>2, ClearingGoesOn
<1>6. CASE Giving(c) /\ cleared /\ ~disposed /\ freed = 0
  <2>1. DoFreeLobby(c) /\ calls'[c].phase = "" /\ Calm(c)'
    BY <1>6, GivingEnds
  <2>2. cleared' = cleared /\ disposed' = disposed /\ freed' = 1
    BY <1>6, <2>1 DEF DoFreeLobby, Again
  <2>3. OnItsWay(c)'
    BY <2>1, CalmIsOnItsWay
  <2>4. freed' < 2 /\ cleared'
    BY <1>6, <2>2
  <2> QED BY <1>1, <2>3, <2>4, OnceOf
<1> QED BY <1>2, <1>3, <1>4, <1>5, <1>6 DEF OnItsWay

\* So does what happens when nothing is under way.
LEMMA OnceBegins ==
  ASSUME Typed, IInv, Historical, Beginning, ~past.overlapped => Once, ~past'.overlapped
  PROVE  Once'
<1>0. setting \in Settings /\ party \subseteq Players /\ CallsOK
  BY DEF Typed, People
<1>1. UNCHANGED <<cleared, disposed, freed>>
  BY DEF Beginning, Wander, LeaveParty, Expel, HandOver, Drop, Die, Revive, Finish, Accident,
     Rejoin, TimerFires, LaterFires, Ended
<1>2. PICK by, frames :
        /\ Starts(by, frames)
        /\ \/ frames \in ColdStacks
           \/ /\ ~cleared /\ member # {}
              /\ \E p \in Players : frames = <<Java(<<Ask("clear")>>, p)>>
  BY <1>0, BeginningIsCold
<1>3. ~past.overlapped /\ AtRest
  BY <1>2, StartsTell
<1>4. freed < 2 /\ (~cleared /\ ~disposed => freed = 0)
  BY <1>3 DEF Once
<1>5. PICK c \in Calls : /\ calls'[c].stack = frames /\ calls'[c].phase = ""
                         /\ \A d \in Calls \ {c} : calls'[d] = Idle
  BY <1>0, <1>2, <1>3, StartsAlone
<1>6. member # {} => ~disposed
  <2>1. \A d \in Calls : calls[d].phase # "sweep"
    BY <1>3, IdleHas DEF AtRest
  <2> QED BY <2>1 DEF IInv, DisposedIsEmpty
<1>7. OnItsWay(c)'
  <2>1. CASE frames \in ColdStacks
    BY <1>5, <2>1, CalmIsOnItsWay DEF Calm
  <2>2. CASE /\ ~cleared /\ member # {}
             /\ \E p \in Players : frames = <<Java(<<Ask("clear")>>, p)>>
    <3>1. Asking(c)'
      BY <1>5, <2>2 DEF Asking
    <3> QED BY <1>1, <1>5, <1>6, <2>2, <3>1 DEF OnItsWay, Disposing
  <2> QED BY <1>2, <2>1, <2>2
<1> QED BY <1>1, <1>4, <1>5, <1>7, OnceOf

\* And at the start the one call enters the team into the event.
LEMMA OnceAtFirst ==
  ASSUME Init
  PROVE  OnceInv
<1> DEFINE Entering(order) == Frame("java", "", [i \in DOMAIN order |-> [deed |-> Register, who |-> order[i]]])
           S(order) == <<Invoked("setup", "", Leader), Entering(order)>>
<1>1. PICK order \in SetToSeqs(party) :
        calls = [c \in Calls |->
          IF c # Min(Calls) THEN Idle
          ELSE [by |-> Leader, phase |-> "", about |-> Leader, stack |-> Settled(S(order))]]
  BY DEF Init
<1>2. Leader \in Players /\ party \subseteq Players
  BY EventAssumption DEF Init
<1>3. Historical
  <2>1. past = [came |-> {}, missed |-> {}, overlapped |-> FALSE, crashed |-> FALSE]
    BY DEF Init
  <2> QED BY <2>1 DEF Historical
<1>4. Entering(order) \in Frames(ColdItems)
  <2>1. party \in SUBSET Players /\ IsFiniteSet(Players)
    BY <1>2, EventAssumption
  <2>2. Cardinality(party) \in Nat
    BY <2>1, FS_Subset, FS_CardinalityType
  <2>3. order \in [1..Cardinality(party) -> party]
    BY DEF SetToSeqs
  <2> DEFINE f == [i \in DOMAIN order |-> [deed |-> Register, who |-> order[i]]]
  <2>4. \A i \in 1..Cardinality(party) : [deed |-> Register, who |-> order[i]] \in ColdItems
    BY <1>2, <2>3, ColdJavaDeeds DEF ColdItems
  <2>5. f \in [1..Cardinality(party) -> ColdItems]
    BY <2>3, <2>4
  <2> HIDE DEF f
  <2>6. f \in Seq(ColdItems)
    BY <2>2, <2>5
  <2>7. Frame("java", "", f) \in Frames(ColdItems)
    BY <2>6, FramesAreMade
  <2> QED BY <2>7 DEF f
<1>5. ASSUME ClearsOnce(script, Milds) PROVE Once
  <2>1. Settled(S(order)) \in ColdStacks
    <3> HIDE DEF Entering
    <3>1. Invoked("setup", "", Leader) \in Frames(ColdItems)
      BY <1>2, <1>5, HandlersAreCold DEF Handlers
    <3>2. S(order) \in ColdStacks
      BY <1>4, <3>1, TwoAreASeq DEF ColdStacks
    <3> HIDE DEF S
    <3> QED BY <3>2, SettledIsCold
  <2>2. PICK s \in ColdStacks : s = Settled(S(order))
    BY <2>1
  <2> DEFINE first == [by |-> Leader, phase |-> "", about |-> Leader, stack |-> s]
  <2>3. calls = [c \in Calls |-> IF c # Min(Calls) THEN Idle ELSE first]
    BY <1>1, <2>2
  <2>4. first.phase = "" /\ first.stack \in ColdStacks
    OBVIOUS
  <2>5. Idle.phase = "" /\ Idle.stack \in ColdStacks
    <3>1. <<>> \in ColdStacks
      BY EmptySeq DEF ColdStacks
    <3> QED BY <3>1 DEF Idle
  <2> HIDE DEF first
  <2>6. Lone
    BY <2>3 DEF Lone, Busy
  <2>7. \A c \in Calls : calls[c].phase = "" /\ calls[c].stack \in ColdStacks
    BY <2>3, <2>4, <2>5
  <2>8. \A c \in Calls : OnItsWay(c)
    BY <2>7 DEF OnItsWay, Disposing, Calm
  <2>9. freed = 0
    BY DEF Init
  <2> QED BY <2>6, <2>8, <2>9 DEF Once
<1> QED BY <1>3, <1>5 DEF OnceInv

\* Every step keeps what is known of the lobby.
LEMMA OnceKeeps ==
  ASSUME Typed, IInv, OnceInv, [Next]_vars
  PROVE  OnceInv'
<1>0. CallsOK /\ Flags /\ setting \in Settings /\ chars \subseteq Players /\ freed \in 0..2
  BY DEF Typed, People, Counts
<1>1. ASSUME NEW c \in Calls, Doing(c) PROVE OnceInv'
  <2>1. Historical' /\ past'.overlapped = past.overlapped /\ setting' = setting
    BY <1>1, PastStays, FreedStays DEF OnceInv
  <2>2. ASSUME ~past'.overlapped, ClearsOnce(script', Milds) PROVE Once'
    <3>1. ClearsOnce(script, Milds)
      BY <2>1, <2>2 DEF script
    <3>2. Once
      BY <2>1, <2>2, <3>1 DEF OnceInv
    <3> QED BY <1>0, <1>1, <3>1, <3>2, OnceStays
  <2> QED BY <2>1, <2>2 DEF OnceInv
<1>2. CASE Beginning
  <2>1. setting' = setting
    BY <1>2 DEF Beginning, Wander, LeaveParty, Expel, HandOver, Drop, Die, Revive, Finish, Accident,
       Rejoin, TimerFires, LaterFires, Whole
  <2>2. \E by, frames : Starts(by, frames)
    BY <1>0, <1>2, BeginningIsCold DEF Typed, People
  <2>3. Historical'
    BY <2>2, StartsTell DEF OnceInv
  <2>4. ASSUME ~past'.overlapped, ClearsOnce(script', Milds) PROVE Once'
    <3>1. ClearsOnce(script, Milds)
      BY <2>1, <2>4 DEF script
    <3> QED BY <1>2, <2>4, <3>1, OnceBegins DEF OnceInv
  <2> QED BY <2>3, <2>4 DEF OnceInv
<1>3. CASE UNCHANGED vars
  BY <1>3 DEF vars, OnceInv, Historical, script, Once, Lone, Busy, OnItsWay, Disposing, Calm,
     Asking, Clearing, Giving, Cool, Item, Top
<1> QED BY <1>1, <1>2, <1>3 DEF Next, Beginning

\* What is said of the lobby follows.
LEMMA OnceIsReturned ==
  ASSUME Typed, Pays, OnceInv, NEW M \in SUBSET Deeds, Mild(M), ClearsOnce(script, M)
  PROVE  LobbyReturned
<1>1. NoLobbyLost /\ freed \in 0..2
  BY PayingIsBusy DEF Typed, Counts
<1>2. ~past.overlapped => freed < 2
  BY MildsWillDo DEF OnceInv, Once
<1> QED BY <1>1, <1>2 DEF NoLobbyLost, LobbyReturned

\* A script that clears the event in its clearPQ alone, once and before anything that may go
\* wrong but stopping the timer, gives its lobby back exactly once, unless calls overlap:
\* by setEventCleared, and then dispose(boolean) sees the flag, or by dispose(boolean), and
\* then no player has the event any more to ask for its clearing.
THEOREM LobbyGivenBackOnce ==
  ASSUME NEW M \in SUBSET Deeds, Mild(M)
  PROVE  Spec => [](ClearsOnce(script, M) => LobbyReturned)
<1>1. Init => Typed /\ Pays /\ IInv /\ OnceInv
  <2>1. ASSUME Init PROVE Pays
    BY <2>1 DEF Init, Pays, ClearedPays, DisposedPays
  <2> QED BY <2>1, Initially, InitIsSafe, OnceAtFirst
<1>2. Typed /\ Pays /\ IInv /\ OnceInv /\ [Next]_vars => (Typed /\ Pays /\ IInv /\ OnceInv)'
  <2> SUFFICES ASSUME Typed, Pays, IInv, OnceInv, [Next]_vars
               PROVE  Typed' /\ Pays' /\ IInv' /\ OnceInv'
    OBVIOUS
  <2> QED BY TypedStays, PaysKept, NextKeeps, OnceKeeps
<1>3. Typed /\ Pays /\ IInv /\ OnceInv => (ClearsOnce(script, M) => LobbyReturned)
  BY OnceIsReturned
<1> QED BY <1>1, <1>2, <1>3, PTL DEF Spec

-----------------------------------------------------------------------------
\* The script is one that ends its events by itself, by these deeds.
Willing == Tame \subseteq Deeds /\ EndsItself(script, Tame, Enders)
\* What its calls consist of: the timer is stopped only before a deed that sees to the end.
TameDeeds  == Tame \cup JavaDeeds \cup {Landed}
TameItems  == [deed : TameDeeds, who : Players]
Guarded(q) == \A i \in 1..Len(q) : q[i].deed.do = "stop timer" =>
                \E j \in 1..Len(q) : i < j /\ q[j].deed \in Enders
TameSeqs   == {q \in Seq(TameItems) : Guarded(q)}
TameFrames == {f \in Frames(TameItems) : Guarded(f.items)}
TameStacks == Seq(TameFrames)
\* What has the end still before it.
Ender(d)  == d \in Enders \/ d = Seal \/ \E h \in Handlers : d = Invoke(h) /\ Some(script[h], Enders)
EndsIn(q) == \E j \in 1..Len(q) : Ender(q[j].deed)
Ends(s)   == \E i \in 1..Len(s) : EndsIn(s[i].items)

TameOK(d) ==
  /\ d.do \notin {"breaks", "handled"}
  /\ d.yes \in Seq(Tame) /\ d.no \in Seq(Tame)
  /\ StopsBefore(d.yes, Enders) /\ StopsBefore(d.no, Enders)

\* An empty sequence has no elements.
LEMMA NothingFirst == \A i \in DOMAIN <<>> : FALSE
OBVIOUS

\* A deed with no answers to it is tame.
LEMMA JavaIsTame ==
  ASSUME NEW what, NEW to, what \notin {"breaks", "handled", "stop timer"}
  PROVE  TameOK(Deed(what, to, <<>>, <<>>)) /\ Deed(what, to, <<>>, <<>>).do # "stop timer"
<1> DEFINE d == Deed(what, to, <<>>, <<>>)
<1>1. d.do = what /\ d.to = to /\ d.yes = <<>> /\ d.no = <<>>
  BY DEF Deed
<1>2. <<>> \in Seq(Tame) /\ StopsBefore(<<>>, Enders)
  BY EmptySeq, NothingFirst DEF StopsBefore
<1> HIDE DEF d
<1> QED BY <1>1, <1>2 DEF TameOK, d

\* The same of one that names nothing either.
LEMMA PlainIsTame ==
  ASSUME NEW what, what \notin {"breaks", "handled", "stop timer"}
  PROVE  TameOK(Plain(what)) /\ Plain(what).do # "stop timer"
BY JavaIsTame DEF Plain

\* The deeds of the Java code are tame, and do not stop the timer.
LEMMA JavaDeedsAreTame ==
  ASSUME NEW d \in JavaDeeds \cup {Landed}
  PROVE  TameOK(d) /\ d.do # "stop timer"
<1>1. CASE d \in {Register, PassLead, Lead, LeadParty, Seal, FreeLobby, Dismiss, Standard, Vanish,
                  Unregister, Dispose, Landed}
  BY <1>1, PlainIsTame DEF Register, PassLead, Lead, LeadParty, Seal, FreeLobby, Dismiss, Standard,
     Vanish, Unregister, Dispose, Landed
<1>2. CASE d \in {Go(to) : to \in Ways} \cup {Warp(to) : to \in Ways}
  BY <1>2, JavaIsTame DEF Go, Warp
<1>3. CASE d \in {Invoke(h) : h \in Handlers} \cup {Ask(h) : h \in Handlers}
  BY <1>3, JavaIsTame DEF Invoke, Ask
<1> QED BY <1>1, <1>2, <1>3 DEF JavaDeeds

\* Whatever a tame call consists of is tame, and a deed of the model.
LEMMA TameDeedsAre ==
  ASSUME Willing, NEW d \in TameDeeds
  PROVE  TameOK(d) /\ d \in OtherDeeds \cup {Landed}
<1>1. CASE d \in Tame
  <2>1. d \in Deeds /\ TameOK(d)
    BY <1>1 DEF Willing, EndsItself, TameOK
  <2> QED BY <2>1 DEF OtherDeeds
<1>2. CASE d \in JavaDeeds \cup {Landed}
  BY <1>2, JavaDeedsAreTame DEF OtherDeeds
<1> QED BY <1>1, <1>2 DEF TameDeeds

\* Stacks of them are stacks.
LEMMA TameIsLess ==
  ASSUME Willing
  PROVE  /\ Seq(Tame) \subseteq Seq(TameDeeds)
         /\ TameItems \subseteq Doings /\ Seq(TameItems) \subseteq Seq(Doings)
         /\ Frames(TameItems) \subseteq Frames(Doings) /\ TameStacks \subseteq Stacks
<1>1. Tame \subseteq TameDeeds /\ TameDeeds \subseteq OtherDeeds \cup {Landed}
  BY TameDeedsAre DEF TameDeeds
<1>2. TameItems \subseteq Doings
  BY <1>1 DEF TameItems, Doings
<1>3. Seq(Tame) \subseteq Seq(TameDeeds) /\ Seq(TameItems) \subseteq Seq(Doings)
  BY <1>1, <1>2, SeqGrows
<1>4. Frames(TameItems) \subseteq Frames(Doings)
  BY <1>3 DEF Frames
<1>5. TameFrames \subseteq Frames(Doings)
  BY <1>4 DEF TameFrames
<1> QED BY <1>2, <1>3, <1>4, <1>5, SeqGrows DEF TameStacks, Stacks

-----------------------------------------------------------------------------
\* Two tame sequences in a row are one, and it has the enders of both.
LEMMA TameCat ==
  ASSUME NEW q \in TameSeqs, NEW r \in TameSeqs
  PROVE  q \o r \in TameSeqs /\ (EndsIn(q) \/ EndsIn(r) => EndsIn(q \o r))
<1>1. q \in Seq(TameItems) /\ r \in Seq(TameItems)
  BY DEF TameSeqs
<1>2. PICK m, n : m = Len(q) /\ n = Len(r)
  OBVIOUS
<1>3. /\ m \in Nat /\ n \in Nat /\ q \o r \in Seq(TameItems) /\ Len(q \o r) = m + n
      /\ \A i \in 1..m : (q \o r)[i] = q[i]
      /\ \A i \in 1..n : (q \o r)[m + i] = r[i]
  BY <1>1, <1>2
<1>4. PICK u : u = q \o r
  OBVIOUS
<1>5. /\ u \in Seq(TameItems) /\ Len(u) = m + n
      /\ \A i \in 1..m : u[i] = q[i]
      /\ \A i \in 1..n : m + i \in 1..(m + n) /\ u[m + i] = r[i]
  BY <1>3, <1>4
<1>6. ASSUME NEW i \in 1..(m + n), u[i].deed.do = "stop timer"
      PROVE  \E j \in 1..(m + n) : i < j /\ u[j].deed \in Enders
  <2>1. CASE i \in 1..m
    <3>1. q[i].deed.do = "stop timer"
      BY <1>5, <1>6, <2>1
    <3>2. PICK j \in 1..m : i < j /\ q[j].deed \in Enders
      BY <1>2, <2>1, <3>1 DEF TameSeqs, Guarded
    <3>3. j \in 1..(m + n) /\ u[j] = q[j]
      BY <1>3, <1>5, <3>2
    <3> QED BY <3>2, <3>3
  <2>2. CASE i \notin 1..m
    <3>1. i - m \in 1..n /\ m + (i - m) = i
      BY <1>3, <2>2
    <3>2. r[i - m].deed.do = "stop timer"
      BY <1>5, <1>6, <3>1
    <3>3. PICK j \in 1..n : i - m < j /\ r[j].deed \in Enders
      BY <1>2, <3>1, <3>2 DEF TameSeqs, Guarded
    <3>4. m + j \in 1..(m + n) /\ u[m + j] = r[j] /\ i < m + j
      BY <1>3, <1>5, <3>3
    <3> QED BY <3>3, <3>4
  <2> QED BY <2>1, <2>2
<1>7. u \in TameSeqs
  BY <1>5, <1>6 DEF TameSeqs, Guarded
<1>8. ASSUME EndsIn(q) PROVE EndsIn(u)
  <2>1. PICK j \in 1..m : Ender(q[j].deed)
    BY <1>2, <1>8 DEF EndsIn
  <2>2. j \in 1..Len(u) /\ u[j] = q[j]
    BY <1>3, <1>5, <2>1
  <2> QED BY <2>1, <2>2 DEF EndsIn
<1>9. ASSUME EndsIn(r) PROVE EndsIn(u)
  <2>1. PICK j \in 1..n : Ender(r[j].deed)
    BY <1>2, <1>9 DEF EndsIn
  <2>2. m + j \in 1..Len(u) /\ u[m + j] = r[j]
    BY <1>3, <1>5, <2>1
  <2> QED BY <2>1, <2>2 DEF EndsIn
<1> QED BY <1>4, <1>7, <1>8, <1>9

\* The rest of one is tame and has its enders but the first deed; there is one if that stops
\* the timer.
LEMMA TameTail ==
  ASSUME NEW r \in TameSeqs, r # <<>>
  PROVE  /\ r[1] \in TameItems /\ Tail(r) \in TameSeqs
         /\ EndsIn(r) => Ender(r[1].deed) \/ EndsIn(Tail(r))
         /\ r[1].deed.do = "stop timer" => EndsIn(r)
<1>1. PICK n, t : n = Len(r) /\ t = Tail(r)
  OBVIOUS
<1>2. r \in Seq(TameItems)
  BY DEF TameSeqs
<1>3. /\ n \in Nat /\ n >= 1 /\ t \in Seq(TameItems) /\ Len(t) = n - 1
      /\ \A i \in 1..(n - 1) : t[i] = r[i + 1]
  BY <1>1, <1>2
<1>4. ASSUME NEW j \in 1..n, j > 1 PROVE j - 1 \in 1..(n - 1) /\ t[j - 1] = r[j]
  <2>1. j - 1 \in 1..(n - 1) /\ (j - 1) + 1 = j
    BY <1>3, <1>4
  <2> QED BY <1>3, <2>1
<1>5. t \in TameSeqs
  <2>1. ASSUME NEW i \in 1..(n - 1), t[i].deed.do = "stop timer"
        PROVE  \E j \in 1..(n - 1) : i < j /\ t[j].deed \in Enders
    <3>0. i + 1 \in 1..n /\ t[i] = r[i + 1]
      BY <1>3
    <3>1. i + 1 \in 1..n /\ r[i + 1].deed.do = "stop timer"
      BY <2>1, <3>0
    <3>2. PICK j \in 1..n : i + 1 < j /\ r[j].deed \in Enders
      BY <1>1, <3>1 DEF TameSeqs, Guarded
    <3>3. j > 1 /\ i < j - 1
      BY <3>2
    <3> QED BY <1>4, <3>2, <3>3
  <2> QED BY <1>3, <2>1 DEF TameSeqs, Guarded
<1>6. ASSUME NEW j \in 1..n, Ender(r[j].deed), j > 1
      PROVE  EndsIn(t)
  BY <1>3, <1>4, <1>6 DEF EndsIn
<1>7. ASSUME EndsIn(r) PROVE Ender(r[1].deed) \/ EndsIn(t)
  <2>1. PICK j \in 1..n : Ender(r[j].deed)
    BY <1>1, <1>7 DEF EndsIn
  <2>2. j = 1 \/ j > 1
    BY <1>3
  <2> QED BY <1>6, <2>1, <2>2
<1>8. ASSUME r[1].deed.do = "stop timer" PROVE EndsIn(r)
  <2>1. 1 \in 1..n
    BY <1>3
  <2>2. PICK j \in 1..n : 1 < j /\ r[j].deed \in Enders
    BY <1>1, <1>8, <2>1 DEF TameSeqs, Guarded
  <2> QED BY <1>1, <2>2 DEF EndsIn, Ender
<1>9. r[1] \in TameItems
  BY <1>2
<1> QED BY <1>1, <1>5, <1>7, <1>8, <1>9

\* Items that do not stop the timer.
StillItems == [deed : {d \in TameDeeds : d.do # "stop timer"}, who : Players]
\* Deeds that do not touch the timer make a tame sequence.
LEMMA StillIsTame ==
  ASSUME NEW q \in Seq(StillItems)
  PROVE  q \in TameSeqs
<1>1. StillItems \subseteq TameItems
  BY DEF StillItems, TameItems
<1>2. q \in Seq(TameItems)
  BY <1>1, SeqGrows
<1>3. ASSUME NEW i \in 1..Len(q) PROVE q[i].deed.do # "stop timer"
  <2>1. q[i] \in StillItems
    OBVIOUS
  <2>2. q[i].deed \in {d \in TameDeeds : d.do # "stop timer"}
    BY <2>1 DEF StillItems
  <2> QED BY <2>2
<1> QED BY <1>2, <1>3 DEF TameSeqs, Guarded

\* The deeds of the Java code do not.
LEMMA JavaIsStill ==
  ASSUME NEW p \in Players, NEW d \in JavaDeeds \cup {Landed}, NEW e \in JavaDeeds \cup {Landed}
  PROVE  /\ Items(<<d>>, p) \in Seq(StillItems) /\ Items(<<d, e>>, p) \in Seq(StillItems)
         /\ Ender(d) => EndsIn(Items(<<d>>, p)) /\ EndsIn(Items(<<d, e>>, p))
         /\ Ender(e) => EndsIn(Items(<<d, e>>, p))
<1> DEFINE S == {x \in TameDeeds : x.do # "stop timer"}
<1>1. d \in S /\ e \in S
  BY JavaDeedsAreTame DEF TameDeeds
<1> HIDE DEF S
<1>2. <<d>> \in Seq(S) /\ <<d, e>> \in Seq(S)
  BY <1>1, OneIsASeq, TwoAreASeq
<1>3. PICK x, y : x = <<d>> /\ y = <<d, e>>
  OBVIOUS
<1>4. Len(x) = 1 /\ x[1] = d /\ Len(y) = 2 /\ y[1] = d /\ y[2] = e /\ x \in Seq(S) /\ y \in Seq(S)
  BY <1>2, <1>3
<1>5. PICK u, v : u = Items(x, p) /\ v = Items(y, p)
  OBVIOUS
<1>6. /\ u \in Seq([deed : S, who : Players]) /\ Len(u) = 1
      /\ \A i \in 1..1 : u[i] = [deed |-> x[i], who |-> p]
  BY <1>4, <1>5, ItemsAreDoings
<1>7. /\ v \in Seq([deed : S, who : Players]) /\ Len(v) = 2
      /\ \A i \in 1..2 : v[i] = [deed |-> y[i], who |-> p]
  <2>1. /\ v \in Seq([deed : S, who : Players]) /\ Len(v) = Len(y)
        /\ \A i \in 1..Len(y) : v[i] = [deed |-> y[i], who |-> p]
    BY <1>4, <1>5, ItemsAreDoings
  <2> QED BY <1>4, <2>1
<1>8. u[1].deed = d /\ v[1].deed = d /\ v[2].deed = e
  BY <1>4, <1>6, <1>7
<1>9. u \in Seq(StillItems) /\ v \in Seq(StillItems)
  BY <1>6, <1>7 DEF StillItems, S
<1>10. (Ender(d) => EndsIn(u) /\ EndsIn(v)) /\ (Ender(e) => EndsIn(v))
  BY <1>6, <1>7, <1>8 DEF EndsIn
<1> QED BY <1>3, <1>5, <1>9, <1>10

\* A handler or an answer is tame, and has an ender if it sees to the end.
LEMMA HandlerIsTame ==
  ASSUME NEW deeds \in Seq(TameDeeds), StopsBefore(deeds, Enders), NEW p \in Players
  PROVE  Items(deeds, p) \in TameSeqs /\ (Some(deeds, Enders) => EndsIn(Items(deeds, p)))
<1>1. PICK q, n : q = Items(deeds, p) /\ n = Len(deeds)
  OBVIOUS
<1>2. q \in Seq(TameItems) /\ Len(q) = n /\ \A i \in 1..n : q[i] = [deed |-> deeds[i], who |-> p]
  BY <1>1, ItemsAreDoings DEF TameItems
<1>3. \A i \in 1..n : q[i].deed = deeds[i]
  BY <1>2
<1>4. DOMAIN deeds = 1..n
  BY <1>1
<1>5. Guarded(q)
  BY <1>2, <1>3, <1>4 DEF Guarded, StopsBefore
<1>6. Some(deeds, Enders) => EndsIn(q)
  BY <1>2, <1>3, <1>4 DEF Some, EndsIn, Ender
<1> QED BY <1>1, <1>2, <1>5, <1>6 DEF TameSeqs
-----------------------------------------------------------------------------
\* Two tame stacks one on the other,
LEMMA TameOnTop ==
  ASSUME NEW t \in TameStacks, NEW s \in TameStacks
  PROVE  t \o s \in TameStacks /\ (Ends(t) \/ Ends(s) => Ends(t \o s))
<1>1. PICK m, n, u : m = Len(t) /\ n = Len(s) /\ u = t \o s
  OBVIOUS
<1>2. /\ m \in Nat /\ n \in Nat /\ u \in TameStacks /\ Len(u) = m + n
      /\ \A i \in 1..m : u[i] = t[i]
      /\ \A i \in 1..n : u[m + i] = s[i]
  BY <1>1 DEF TameStacks
<1>3. ASSUME Ends(t) PROVE Ends(u)
  <2>1. PICK i \in 1..m : EndsIn(t[i].items)
    BY <1>1, <1>3 DEF Ends
  <2>2. i \in 1..Len(u) /\ u[i] = t[i]
    BY <1>2, <2>1
  <2> QED BY <2>1, <2>2 DEF Ends
<1>4. ASSUME Ends(s) PROVE Ends(u)
  <2>1. PICK i \in 1..n : EndsIn(s[i].items)
    BY <1>1, <1>4 DEF Ends
  <2>2. m + i \in 1..Len(u) /\ u[m + i] = s[i]
    BY <1>2, <2>1
  <2> QED BY <2>1, <2>2 DEF Ends
<1> QED BY <1>1, <1>2, <1>3, <1>4

\* one frame,
LEMMA OneTameFrame ==
  ASSUME NEW f \in TameFrames
  PROVE  <<f>> \in TameStacks /\ (EndsIn(f.items) => Ends(<<f>>))
<1>1. PICK s : s = <<f>>
  OBVIOUS
<1>2. s \in TameStacks /\ Len(s) = 1 /\ s[1] = f
  BY <1>1 DEF TameStacks
<1>3. EndsIn(f.items) => Ends(s)
  BY <1>2 DEF Ends
<1> QED BY <1>1, <1>2, <1>3

\* made of a tame sequence,
LEMMA FrameIsTame ==
  ASSUME NEW kind \in {"script", "sync", "safe", "java"}, NEW to \in Ways \cup {""},
         NEW items \in TameSeqs
  PROVE  Frame(kind, to, items) \in TameFrames /\ Frame(kind, to, items).items = items
<1>1. items \in Seq(TameItems) /\ Guarded(items)
  BY DEF TameSeqs
<1>2. Frame(kind, to, items) \in Frames(TameItems) /\ Frame(kind, to, items).items = items
  BY <1>1 DEF Frame, Frames
<1> QED BY <1>1, <1>2 DEF TameFrames

\* and what is below the top.
LEMMA TameBelow ==
  ASSUME NEW s \in TameStacks, s # <<>>
  PROVE  /\ s[1] \in TameFrames /\ s[1].items \in TameSeqs /\ Tail(s) \in TameStacks
         /\ Ends(s) => EndsIn(s[1].items) \/ Ends(Tail(s))
         /\ EndsIn(s[1].items) => Ends(s)
<1>1. PICK n, t : n = Len(s) /\ t = Tail(s)
  OBVIOUS
<1>2. /\ n \in Nat /\ n >= 1 /\ t \in TameStacks /\ Len(t) = n - 1 /\ s[1] \in TameFrames
      /\ \A i \in 1..(n - 1) : t[i] = s[i + 1]
  BY <1>1 DEF TameStacks
<1>3. s[1].items \in TameSeqs
  BY <1>2 DEF TameFrames, Frames, TameSeqs
<1>4. ASSUME Ends(s), ~EndsIn(s[1].items) PROVE Ends(t)
  <2>1. PICK i \in 1..n : EndsIn(s[i].items)
    BY <1>1, <1>4 DEF Ends
  <2>2. i # 1
    BY <1>4, <2>1
  <2>3. i - 1 \in 1..(n - 1) /\ (i - 1) + 1 = i
    BY <1>2, <2>1, <2>2
  <2>4. t[i - 1] = s[i]
    BY <1>2, <2>3
  <2> QED BY <1>2, <2>1, <2>3, <2>4 DEF Ends
<1>5. EndsIn(s[1].items) => Ends(s)
  BY <1>1, <1>2 DEF Ends
<1> QED BY <1>1, <1>2, <1>3, <1>4, <1>5

\* Settling takes no deeds away.
LEMMA SettledIsTame ==
  ASSUME NEW s \in TameStacks
  PROVE  Settled(s) \in TameStacks /\ (Ends(s) => Ends(Settled(s)))
<1> DEFINE live == {i \in DOMAIN s : s[i].items # <<>>}
<1>0. Len(s) \in Nat /\ DOMAIN s = 1..Len(s) /\ \A i \in 1..Len(s) : s[i].items \in Seq(TameItems)
  <2>1. s \in Seq(TameFrames)
    BY DEF TameStacks
  <2>2. Len(s) \in Nat /\ DOMAIN s = 1..Len(s) /\ \A i \in 1..Len(s) : s[i] \in TameFrames
    BY <2>1
  <2>3. \A f \in TameFrames : f.items \in Seq(TameItems)
    BY DEF TameFrames, Frames
  <2> QED BY <2>2, <2>3
<1>1. ASSUME NEW i \in 1..Len(s), EndsIn(s[i].items) PROVE i \in live
  <2>1. Len(s[i].items) # 0
    BY <1>0, <1>1 DEF EndsIn
  <2>2. s[i].items # <<>>
    BY <2>1, EmptySeq
  <2> QED BY <1>0, <2>2
<1>2. CASE live = {}
  <2>1. Settled(s) = <<>>
    BY <1>2 DEF Settled
  <2>2. <<>> \in TameStacks
    BY EmptySeq DEF TameStacks
  <2> HIDE DEF live
  <2> QED BY <1>1, <1>2, <2>1, <2>2 DEF Ends
<1>3. CASE live # {}
  <2>1. live \subseteq Nat
    BY <1>0
  <2> DEFINE k == Min(live)
  <2>2. k \in live /\ \A y \in live : k <= y
    <3> HIDE DEF live
    <3> QED BY <1>3, <2>1, Smallest
  <2>3. Settled(s) = SubSeq(s, k, Len(s))
    BY <1>3 DEF Settled
  <2>4. k \in 1..Len(s)
    BY <1>0, <2>2
  <2> HIDE DEF k, live
  <2>5. PICK n, u : n = Len(s) /\ u = SubSeq(s, k, n)
    OBVIOUS
  <2>6. /\ n \in Nat /\ u \in TameStacks /\ Len(u) = n - k + 1
        /\ \A i \in 1..(n - k + 1) : u[i] = s[k + i - 1]
    BY <1>0, <2>4, <2>5, SubSeqProperties DEF TameStacks
  <2>7. ASSUME Ends(s) PROVE Ends(u)
    <3>1. PICK i \in 1..n : EndsIn(s[i].items)
      BY <2>5, <2>7 DEF Ends
    <3>2. k <= i
      BY <1>1, <2>2, <2>5, <3>1
    <3>3. i - k + 1 \in 1..(n - k + 1) /\ k + (i - k + 1) - 1 = i
      BY <2>4, <2>5, <2>6, <3>1, <3>2
    <3>4. u[i - k + 1] = s[i]
      BY <2>6, <3>3
    <3> QED BY <2>6, <3>1, <3>3, <3>4 DEF Ends
  <2> QED BY <2>3, <2>5, <2>6, <2>7
<1> QED BY <1>2, <1>3

-----------------------------------------------------------------------------
\* A call whose stack is tame, and that it goes on with one: with an ender if it is sure to,
\* or had one below the deed at hand.
Ready(c) == calls[c].stack # <<>> /\ calls[c].stack \in TameStacks
Lasts(c, t, sure) ==
  t \in TameStacks /\ (sure \/ (Ends(calls[c].stack) /\ ~Ender(Item(c).deed)) => Ends(t))
TGoes(c, sure) == \E t : Becomes(c, t) /\ Lasts(c, t, sure)

\* A call that goes on has a tame rest, and the end before it in the deed or in the rest.
LEMMA ReadyHas ==
  ASSUME CallsOK, Willing, NEW c \in Calls, Ready(c)
  PROVE  /\ Top(c) \in TameFrames /\ Top(c).items \in TameSeqs /\ Top(c).items # <<>>
         /\ Tail(calls[c].stack) \in TameStacks /\ Tail(Top(c).items) \in TameSeqs
         /\ Item(c).deed \in TameDeeds /\ TameOK(Item(c).deed) /\ Who(c) \in Players
         /\ Ends(calls[c].stack) /\ ~Ender(Item(c).deed)
            => EndsIn(Tail(Top(c).items)) \/ Ends(Tail(calls[c].stack))
         /\ Item(c).deed.do = "stop timer" => Ends(calls[c].stack)
<1>1. calls[c].stack # <<>> /\ calls[c].stack \in TameStacks
  BY DEF Ready
<1>2. Top(c).items # <<>> /\ Who(c) \in Players
  BY <1>1, TopIsFrame
<1>3. /\ Top(c) \in TameFrames /\ Top(c).items \in TameSeqs /\ Tail(calls[c].stack) \in TameStacks
      /\ Ends(calls[c].stack) => EndsIn(Top(c).items) \/ Ends(Tail(calls[c].stack))
      /\ EndsIn(Top(c).items) => Ends(calls[c].stack)
  BY <1>1, TameBelow DEF Top
<1>4. /\ Item(c) \in TameItems /\ Tail(Top(c).items) \in TameSeqs
      /\ EndsIn(Top(c).items) => Ender(Item(c).deed) \/ EndsIn(Tail(Top(c).items))
      /\ Item(c).deed.do = "stop timer" => EndsIn(Top(c).items)
  BY <1>2, <1>3, TameTail DEF Item
<1>5. Item(c).deed \in TameDeeds
  BY <1>4 DEF TameItems
<1>6. TameOK(Item(c).deed)
  BY <1>5, TameDeedsAre
<1> QED BY <1>2, <1>3, <1>4, <1>5, <1>6

\* With tame items first,
LEMMA WithIsTame ==
  ASSUME CallsOK, Willing, NEW c \in Calls, Ready(c), NEW q \in TameSeqs
  PROVE  Lasts(c, <<[Top(c) EXCEPT !.items = q \o Tail(@)]>> \o Tail(calls[c].stack), EndsIn(q))
<1> DEFINE f == [Top(c) EXCEPT !.items = q \o Tail(@)]
           r == Tail(Top(c).items)
           u == Tail(calls[c].stack)
<1>1. /\ Top(c) \in TameFrames /\ r \in TameSeqs /\ u \in TameStacks
      /\ Ends(calls[c].stack) /\ ~Ender(Item(c).deed) => EndsIn(r) \/ Ends(u)
  BY ReadyHas
<1>2. q \o r \in TameSeqs /\ (EndsIn(q) \/ EndsIn(r) => EndsIn(q \o r))
  BY <1>1, TameCat
<1>3. f \in TameFrames /\ f.items = q \o r
  <2>1. Top(c) \in Frames(TameItems) /\ q \o r \in Seq(TameItems) /\ Guarded(q \o r)
    BY <1>1, <1>2 DEF TameFrames, TameSeqs
  <2>2. f \in Frames(TameItems) /\ f.items = q \o r
    BY <2>1 DEF Frames
  <2> HIDE DEF f
  <2> QED BY <2>1, <2>2 DEF TameFrames
<1> HIDE DEF f, r, u
<1>4. <<f>> \in TameStacks /\ (EndsIn(q \o r) => Ends(<<f>>))
  BY <1>3, OneTameFrame
<1>5. <<f>> \o u \in TameStacks /\ (Ends(<<f>>) \/ Ends(u) => Ends(<<f>> \o u))
  BY <1>1, <1>4, TameOnTop
<1>6. Lasts(c, <<f>> \o u, EndsIn(q))
  BY <1>1, <1>2, <1>4, <1>5 DEF Lasts
<1> QED BY <1>6 DEF f, u

\* with the next deed,
LEMMA RestIsTame ==
  ASSUME CallsOK, Willing, NEW c \in Calls, Ready(c)
  PROVE  Lasts(c, Rest(c), FALSE)
<1>1. PICK q : q = <<>>
  OBVIOUS
<1>2. q \in Seq(StillItems)
  BY <1>1, EmptySeq
<1>3. Lasts(c, <<[Top(c) EXCEPT !.items = q \o Tail(@)]>> \o Tail(calls[c].stack), EndsIn(q))
  BY <1>2, StillIsTame, WithIsTame
<1>4. Tail(Top(c).items) \in Seq(TameItems)
  BY ReadyHas DEF TameSeqs
<1>5. q \o Tail(Top(c).items) = Tail(Top(c).items)
  BY <1>1, <1>4, ConcatEmptySeq
<1>6. Lasts(c, Rest(c), EndsIn(q))
  BY <1>3, <1>5 DEF Rest
<1> QED BY <1>6 DEF Lasts

\* and past an exception a stack stays tame.
LEMMA PastIsTame ==
  ASSUME CallsOK, NEW c \in Calls, Ready(c), NEW kind
  PROVE  Past(c, kind) \in TameStacks
<1> DEFINE s == calls[c].stack
           caught == {i \in DOMAIN s : s[i].kind = kind}
<1>1. s \in TameStacks
  BY DEF Ready
<1>2. Len(s) \in Nat /\ DOMAIN s = 1..Len(s)
  BY <1>1 DEF TameStacks
<1>3. CASE caught = {}
  <2>1. Past(c, kind) = <<>>
    BY <1>3 DEF Past
  <2> QED BY <2>1, EmptySeq DEF TameStacks
<1>4. CASE caught # {}
  <2>1. caught \subseteq Nat
    BY <1>2
  <2>2. Min(caught) \in caught
    <3> HIDE DEF caught
    <3> QED BY <1>4, <2>1, Smallest
  <2>3. Past(c, kind) = SubSeq(s, Min(caught) + 1, Len(s))
    BY <1>4 DEF Past
  <2>4. Min(caught) + 1 \in 1..(Len(s) + 1)
    BY <1>2, <2>2
  <2> HIDE DEF s, caught
  <2> QED BY <1>1, <2>3, <2>4, SuffixIsSeq DEF TameStacks
<1> QED BY <1>3, <1>4

\* So a call goes on.
LEMMA WithTames ==
  ASSUME CallsOK, Willing, NEW c \in Calls, Ready(c), NEW q \in TameSeqs, With(c, q)
  PROVE  TGoes(c, EndsIn(q))
BY WithIsTame DEF With, TGoes

\* A deed that is only taken off leaves a tame call.
LEMMA ContinueTames ==
  ASSUME CallsOK, Willing, NEW c \in Calls, Ready(c), Continue(c)
  PROVE  TGoes(c, FALSE)
BY RestIsTame DEF Continue, TGoes

\* So does one that puts something tame on top, which may bring the end.
LEMMA UnderTames ==
  ASSUME CallsOK, Willing, NEW c \in Calls, Ready(c), NEW q \in TameStacks, Under(c, q)
  PROVE  TGoes(c, Ends(q))
<1>1. Lasts(c, Rest(c), FALSE)
  BY RestIsTame
<1>2. q \o Rest(c) \in TameStacks /\ (Ends(q) \/ Ends(Rest(c)) => Ends(q \o Rest(c)))
  BY <1>1, TameOnTop DEF Lasts
<1>3. Lasts(c, q \o Rest(c), Ends(q))
  BY <1>1, <1>2 DEF Lasts
<1> QED BY <1>3 DEF Under, TGoes

-----------------------------------------------------------------------------
\* What the end is sure by, whatever becomes of the calls; a call that goes on with a tame
\* stack, and with the end before it as long as it is not sure by that.
Assured ==
  \/ past.crashed \/ disposed \/ cleared
  \/ (timer \/ loose) /\ Some(script["timeout"], Enders)
  \/ later /\ Some(script["later"], Enders)
EGoes(c) == \E t \in TameStacks : Becomes(c, t) /\ (Ends(calls[c].stack) => Ends(t) \/ Assured')

\* What a call that went on tamely looks like afterwards.
LEMMA GoesTame ==
  ASSUME CallsOK, NEW c \in Calls, EGoes(c)
  PROVE  /\ calls'[c].stack \in TameStacks
         /\ calls'[c].phase = IF calls'[c].stack = <<>> THEN "" ELSE calls[c].phase
         /\ Ends(calls[c].stack) => Ends(calls'[c].stack) \/ Assured'
<1>1. PICK t \in TameStacks : Becomes(c, t) /\ (Ends(calls[c].stack) => Ends(t) \/ Assured')
  BY DEF EGoes
<1>2. /\ calls'[c].stack = Settled(t)
      /\ calls'[c].phase = IF Settled(t) = <<>> THEN "" ELSE calls[c].phase
  BY <1>1, BecomesThat
<1>3. Settled(t) \in TameStacks /\ (Ends(t) => Ends(Settled(t)))
  BY SettledIsTame
<1> QED BY <1>1, <1>2, <1>3

\* A deed that was the end before its call must bring another, or the end is assured.
LEMMA TGoesEnds ==
  ASSUME NEW c \in Calls, NEW sure, TGoes(c, sure), Ender(Item(c).deed) => sure \/ Assured'
  PROVE  EGoes(c)
<1>1. PICK t : Becomes(c, t) /\ Lasts(c, t, sure)
  BY DEF TGoes
<1> QED BY <1>1 DEF Lasts, EGoes

\* A RuntimeException excuses everything.
LEMMA CrashTames ==
  ASSUME CallsOK, Historical, NEW c \in Calls, Ready(c), Crash(c)
  PROVE  EGoes(c)
<1>1. past' = [past EXCEPT !.crashed = TRUE] /\ Becomes(c, Past(c, "safe"))
  BY DEF Crash
<1>2. past' = [came |-> past.came, missed |-> past.missed, overlapped |-> past.overlapped,
               crashed |-> TRUE]
  BY <1>1, PastWith
<1>3. Assured'
  BY <1>2 DEF Assured
<1> QED BY <1>1, <1>3, PastIsTame DEF EGoes

\* The deeds that have the end before them.
Ending == {"dispose", "set cleared", "start timer", "later", "call", "first", "if", "seal", "invoke"}
\* The deeds that are the end before a call, and what they lead to.
LEMMA EnderIs ==
  ASSUME Willing, NEW d, Ender(d)
  PROVE  /\ d.do \in Ending
         /\ d.do = "start timer" => Some(script["timeout"], Enders)
         /\ d.do = "later" => Some(script["later"], Enders)
         /\ d.do \in {"call", "invoke"} => Some(script[d.to], Enders)
         /\ d.do \in {"first", "if"} => Some(d.yes, Enders)
         /\ d.do = "if" => Some(d.no, Enders)
<1>1. CASE d \in Enders
  <2>1. \/ d.do \in {"dispose", "set cleared"}
        \/ d.do = "start timer" /\ Some(script["timeout"], Enders)
        \/ d.do = "later" /\ Some(script["later"], Enders)
        \/ d.do = "call" /\ Some(script[d.to], Enders)
        \/ d.do = "first" /\ Some(d.yes, Enders)
        \/ d.do = "if" /\ Some(d.yes, Enders) /\ Some(d.no, Enders)
    BY <1>1 DEF Willing, EndsItself, SeesToEnd
  <2> QED BY <2>1 DEF Ending
<1>2. CASE d = Seal
  BY <1>2 DEF Seal, Plain, Deed, Ending
<1>3. ASSUME NEW h \in Handlers, d = Invoke(h), Some(script[h], Enders)
      PROVE  d.do = "invoke" /\ Some(script[d.to], Enders)
  BY <1>3 DEF Invoke, Deed
<1> QED BY <1>1, <1>2, <1>3 DEF Ender, Ending

\* Handlers and answers are tame, and have the end before them if they see to it.
LEMMA HandlersAreTame ==
  ASSUME Willing, NEW h \in Handlers, NEW p \in Players
  PROVE  /\ Items(script[h], p) \in TameSeqs
         /\ Some(script[h], Enders) => EndsIn(Items(script[h], p))
<1>1. script[h] \in Seq(Tame) /\ StopsBefore(script[h], Enders)
  BY DEF Willing, EndsItself
<1>2. script[h] \in Seq(TameDeeds)
  BY <1>1, TameIsLess
<1> QED BY <1>1, <1>2, HandlerIsTame

\* Calling a handler of the script makes a tame stack, with the end in it if the handler has it.
LEMMA InvokedIsTame ==
  ASSUME Willing, NEW h \in Handlers, NEW p \in Players, NEW to \in Ways \cup {""}
  PROVE  /\ <<Frame("script", to, Items(script[h], p))>> \in TameStacks
         /\ Some(script[h], Enders) => Ends(<<Frame("script", to, Items(script[h], p))>>)
<1>1. PICK q \in TameSeqs : q = Items(script[h], p) /\ (Some(script[h], Enders) => EndsIn(q))
  BY HandlersAreTame
<1>2. Frame("script", to, q) \in TameFrames /\ Frame("script", to, q).items = q
  BY FrameIsTame
<1> QED BY <1>1, <1>2, OneTameFrame

\* What a tame call about to do a deed is about.
LEMMA TameDoes ==
  ASSUME CallsOK, Willing, NEW c \in Calls, NEW what, Does(c, what),
         calls[c].stack \in TameStacks
  PROVE  /\ Ready(c) /\ calls[c].phase = "" /\ Item(c).deed.do = what /\ Who(c) \in Players
         /\ what \notin {"breaks", "handled"}
         /\ what \in {"call", "invoke", "ask"} => To(c) \in Handlers
         /\ what \in {"go", "warp", "warp team"} => To(c) \in Ways
         /\ \A p \in Players :
              /\ Items(Item(c).deed.yes, p) \in TameSeqs /\ Items(Item(c).deed.no, p) \in TameSeqs
              /\ Some(Item(c).deed.yes, Enders) => EndsIn(Items(Item(c).deed.yes, p))
              /\ Some(Item(c).deed.no, Enders) => EndsIn(Items(Item(c).deed.no, p))
<1>1. /\ calls[c].phase = "" /\ calls[c].stack # <<>> /\ Item(c).deed.do = what
      /\ Who(c) \in Players
      /\ what \in {"call", "invoke", "ask"} => To(c) \in Handlers
      /\ what \in {"go", "warp", "warp team"} => To(c) \in Ways
  BY DoesWhat DEF Does
<1>2. Ready(c)
  BY <1>1 DEF Ready
<1>3. TameOK(Item(c).deed)
  BY <1>2, ReadyHas
<1>4. /\ Item(c).deed.yes \in Seq(TameDeeds) /\ Item(c).deed.no \in Seq(TameDeeds)
      /\ StopsBefore(Item(c).deed.yes, Enders) /\ StopsBefore(Item(c).deed.no, Enders)
      /\ what \notin {"breaks", "handled"}
  BY <1>1, <1>3, TameIsLess DEF TameOK
<1> QED BY <1>1, <1>2, <1>4, HandlerIsTame

\* The deeds that only let the call go on.
LEMMA ContinuingTames ==
  ASSUME CallsOK, Historical, Willing, NEW c \in Calls, calls[c].stack \in TameStacks,
         \/ DoUnregister(c) \/ DoWarp(c) \/ DoLanded(c) \/ DoPutOut(c) \/ DoFreeLobby(c)
         \/ DoDismiss(c) \/ DoLead(c) \/ DoLeadParty(c) \/ DoVanish(c)
  PROVE  EGoes(c)
<1>1. PICK what : what \notin Ending /\ Does(c, what)
  BY DEF DoUnregister, DoWarp, DoLanded, DoPutOut, DoFreeLobby, DoDismiss, DoLead, DoLeadParty,
     DoVanish, Ending
<1>2. Ready(c) /\ ~Ender(Item(c).deed)
  BY <1>1, TameDoes, EnderIs
<1>3. Continue(c) \/ Crash(c)
  BY DEF DoUnregister, DoWarp, DoLanded, DoPutOut, DoFreeLobby, DoDismiss, DoLead, DoLeadParty,
     DoVanish
<1> QED BY <1>2, <1>3, CrashTames, ContinueTames, TGoesEnds

\* Those about tasks: what is started sees to the end, and the timer is stopped before what does.
LEMMA TaskTames ==
  ASSUME CallsOK, Historical, Willing, setting' = setting, NEW c \in Calls,
         calls[c].stack \in TameStacks, DoStartTimer(c) \/ DoLater(c) \/ DoStopTimer(c)
  PROVE  /\ EGoes(c)
         /\ DoStopTimer(c) => Ends(calls'[c].stack) \/ Assured'
<1>1. CASE DoStartTimer(c)
  <2>1. Ready(c) /\ Item(c).deed.do = "start timer"
    BY <1>1, TameDoes DEF DoStartTimer
  <2>2. ~DoStopTimer(c)
    BY <2>1 DEF DoStopTimer, Does
  <2>3. CASE Crash(c)
    BY <2>1, <2>2, <2>3, CrashTames
  <2>4. CASE ~Crash(c)
    <3>1. Continue(c) /\ timer' = TRUE
      BY <1>1, <2>4 DEF DoStartTimer
    <3>2. Ender(Item(c).deed) => Assured'
      BY <2>1, <3>1, EnderIs DEF Assured, script
    <3> QED BY <2>1, <2>2, <3>1, <3>2, ContinueTames, TGoesEnds
  <2> QED BY <2>3, <2>4
<1>2. CASE DoLater(c)
  <2>1. Ready(c) /\ Item(c).deed.do = "later"
    BY <1>2, TameDoes DEF DoLater
  <2>2. ~DoStopTimer(c)
    BY <2>1 DEF DoStopTimer, Does
  <2>3. Continue(c) /\ (later' \/ disposed')
    BY <1>2 DEF DoLater
  <2>4. Ender(Item(c).deed) => Assured'
    BY <2>1, <2>3, EnderIs DEF Assured, script
  <2> QED BY <2>1, <2>2, <2>3, <2>4, ContinueTames, TGoesEnds
<1>3. CASE DoStopTimer(c)
  <2>1. Ready(c) /\ Item(c).deed.do = "stop timer" /\ ~Ender(Item(c).deed)
    BY <1>3, TameDoes, EnderIs DEF DoStopTimer, Ending
  <2>2. CASE Crash(c)
    <3>1. past' = [came |-> past.came, missed |-> past.missed, overlapped |-> past.overlapped,
                   crashed |-> TRUE]
      BY <2>2, PastWith DEF Crash
    <3>2. Assured'
      BY <3>1 DEF Assured
    <3> QED BY <2>1, <2>2, <3>2, CrashTames
  <2>3. CASE ~Crash(c)
    <3>1. Continue(c)
      BY <1>3, <2>3 DEF DoStopTimer
    <3>2. EGoes(c)
      BY <2>1, <3>1, ContinueTames, TGoesEnds
    <3>3. Ends(calls[c].stack)
      BY <2>1, ReadyHas
    <3> QED BY <3>2, <3>3, GoesTame
  <2> QED BY <2>2, <2>3
<1> QED BY <1>1, <1>2, <1>3

\* One deed or two of the Java code are tame, and all of them are among those.
LEMMA JavaAhead ==
  ASSUME NEW p \in Players, NEW d \in JavaDeeds \cup {Landed}, NEW e \in JavaDeeds \cup {Landed}
  PROVE  /\ Items(<<d>>, p) \in TameSeqs /\ Items(<<d, e>>, p) \in TameSeqs
         /\ Ender(d) => EndsIn(Items(<<d>>, p)) /\ EndsIn(Items(<<d, e>>, p))
         /\ Ender(e) => EndsIn(Items(<<d, e>>, p))
BY JavaIsStill, StillIsTame

\* The deeds that the Java code is made of.
LEMMA JavaHas ==
  /\ {Register, PassLead, Lead, LeadParty, Seal, FreeLobby, Dismiss, Standard, Vanish,
      Unregister, Dispose} \subseteq JavaDeeds
  /\ \A to \in Ways : Go(to) \in JavaDeeds /\ Warp(to) \in JavaDeeds
  /\ \A h \in Handlers : Invoke(h) \in JavaDeeds /\ Ask(h) \in JavaDeeds
BY DEF JavaDeeds

\* The disposal puts the seal first, which sees to the end; a function of the script another, a
\* question its answer, of which the one given does if either may be.
LEMMA PuttingTames ==
  ASSUME CallsOK, Historical, Willing, chars \subseteq Players, NEW c \in Calls,
         calls[c].stack \in TameStacks,
         DoDispose(c) \/ DoSetCleared(c) \/ DoCall(c) \/ DoIf(c) \/ DoFirst(c) \/ DoStandard(c)
  PROVE  EGoes(c)
<1>1. CASE DoDispose(c)
  <2>1. Ready(c) /\ Who(c) \in Players
    BY <1>1, TameDoes DEF DoDispose
  <2>2. Items(<<Seal>>, Who(c)) \in TameSeqs /\ EndsIn(Items(<<Seal>>, Who(c)))
    BY <2>1, JavaAhead, JavaHas DEF Ender
  <2> QED BY <1>1, <2>1, <2>2, WithTames, TGoesEnds DEF DoDispose
<1>2. CASE DoSetCleared(c)
  <2>1. Ready(c) /\ Who(c) \in Players
    BY <1>2, TameDoes DEF DoSetCleared
  <2>2. Items(<<FreeLobby>>, Who(c)) \in TameSeqs
    BY <2>1, JavaAhead, JavaHas
  <2>3. Assured'
    BY <1>2 DEF DoSetCleared, Assured
  <2> QED BY <1>2, <2>1, <2>2, <2>3, WithTames, TGoesEnds DEF DoSetCleared
<1>3. CASE DoCall(c)
  <2>1. Ready(c) /\ Who(c) \in Players /\ To(c) \in Handlers /\ Item(c).deed.do = "call"
    BY <1>3, TameDoes DEF DoCall
  <2>2. PICK q \in TameSeqs :
          q = Items(script[To(c)], Who(c)) /\ (Some(script[To(c)], Enders) => EndsIn(q))
    BY <2>1, HandlersAreTame
  <2>3. TGoes(c, EndsIn(q))
    BY <1>3, <2>1, <2>2, WithTames DEF DoCall
  <2>4. Ender(Item(c).deed) => EndsIn(q)
    BY <2>1, <2>2, EnderIs DEF To
  <2> QED BY <2>3, <2>4, TGoesEnds
<1>4. CASE DoIf(c)
  <2>1. Ready(c) /\ Who(c) \in Players /\ Item(c).deed.do = "if"
    BY <1>4, TameDoes DEF DoIf
  <2>2. PICK answer : With(c, Items(IF answer THEN Item(c).deed.yes ELSE Item(c).deed.no, Who(c)))
    BY <1>4 DEF DoIf
  <2>3. PICK q : /\ q = Items(Item(c).deed.yes, Who(c)) \/ q = Items(Item(c).deed.no, Who(c))
                 /\ With(c, q)
    BY <2>2
  <2>4. q \in TameSeqs /\ (Some(Item(c).deed.yes, Enders) /\ Some(Item(c).deed.no, Enders) => EndsIn(q))
    BY <1>4, <2>1, <2>3, TameDoes DEF DoIf
  <2>5. Ender(Item(c).deed) => EndsIn(q)
    BY <2>1, <2>4, EnderIs
  <2> QED BY <2>1, <2>3, <2>4, <2>5, WithTames, TGoesEnds
<1>5. CASE DoFirst(c)
  <2>1. Ready(c) /\ Item(c).deed.do = "first"
    BY <1>5, TameDoes DEF DoFirst
  <2>2. CASE Crash(c)
    BY <2>1, <2>2, CrashTames
  <2>3. CASE ~Crash(c)
    <3>1. PICK p \in Players : With(c, Items(Item(c).deed.yes, p))
      BY <1>5, <2>3 DEF DoFirst
    <3>2. PICK q : q = Items(Item(c).deed.yes, p)
      OBVIOUS
    <3>3. q \in TameSeqs /\ (Some(Item(c).deed.yes, Enders) => EndsIn(q))
      BY <1>5, <3>2, TameDoes DEF DoFirst
    <3>4. Ender(Item(c).deed) => EndsIn(q)
      BY <2>1, <3>3, EnderIs
    <3> QED BY <2>1, <3>1, <3>2, <3>3, <3>4, WithTames, TGoesEnds
  <2> QED BY <2>2, <2>3
<1>6. CASE DoStandard(c)
  <2>1. Ready(c) /\ Who(c) \in Players /\ Item(c).deed.do = "standard"
    BY <1>6, TameDoes DEF DoStandard
  <2>2. PICK to \in Ways : With(c, Items(<<Go(to)>>, Who(c)))
    BY <1>6 DEF DoStandard, Ways
  <2>3. Items(<<Go(to)>>, Who(c)) \in TameSeqs
    BY <2>1, JavaAhead, JavaHas
  <2>4. ~Ender(Item(c).deed)
    BY <2>1, EnderIs DEF Ending
  <2> QED BY <2>1, <2>2, <2>3, <2>4, WithTames, TGoesEnds
<1> QED BY <1>1, <1>2, <1>3, <1>4, <1>5, <1>6

\* A change of map does not, and what it puts first and above is tame.
LEMMA AboveTames ==
  ASSUME CallsOK, Willing, NEW c \in Calls, Ready(c), NEW q \in TameSeqs, NEW g \in TameStacks,
         ~Ender(Item(c).deed),
         \/ Becomes(c, [Rest(c) EXCEPT ![1].items = q \o @])
         \/ Becomes(c, g \o [Rest(c) EXCEPT ![1].items = q \o @])
  PROVE  EGoes(c)
<1> DEFINE t == [Rest(c) EXCEPT ![1].items = q \o @]
<1>1. calls[c].stack # <<>> /\ q \in Seq(Doings)
  BY TameIsLess DEF Ready, TameSeqs
<1>2. t = <<[Top(c) EXCEPT !.items = q \o Tail(@)]>> \o Tail(calls[c].stack)
  BY <1>1, RestPrefixed
<1>3. Lasts(c, t, EndsIn(q))
  BY <1>2, WithIsTame
<1>4. Becomes(c, t) \/ Becomes(c, g \o t)
  OBVIOUS
<1> HIDE DEF t
<1>5. t \in TameStacks /\ (Ends(calls[c].stack) => Ends(t))
  BY <1>3 DEF Lasts
<1>6. g \o t \in TameStacks /\ (Ends(t) => Ends(g \o t))
  BY <1>5, TameOnTop
<1> QED BY <1>4, <1>5, <1>6 DEF EGoes

\* A change of map is tame: it asks the script first, and is counted off last.
LEMMA GoTames ==
  ASSUME CallsOK, Historical, Willing, NEW c \in Calls, calls[c].stack \in TameStacks, DoGo(c)
  PROVE  EGoes(c)
<1>1. Ready(c) /\ Who(c) \in Players /\ To(c) \in Ways /\ Item(c).deed.do = "go"
  BY TameDoes DEF DoGo
<1>2. ~Ender(Item(c).deed)
  BY <1>1, EnderIs DEF Ending
<1>3. CASE Crash(c)
  BY <1>1, <1>3, CrashTames
<1>4. CASE ~Crash(c)
  <2> DEFINE q == Items(<<Warp(To(c)), Landed>>, Who(c))
             g == <<Frame("script", To(c), Items(script["changed"], Who(c)))>>
  <2>1. q \in TameSeqs
    BY <1>1, JavaAhead, JavaHas
  <2>2. g \in TameStacks
    BY <1>1, InvokedIsTame DEF Handlers
  <2>3. \/ Becomes(c, [Rest(c) EXCEPT ![1].items = q \o @])
        \/ Becomes(c, g \o [Rest(c) EXCEPT ![1].items = q \o @])
    BY <1>4 DEF DoGo
  <2> HIDE DEF q, g
  <2> QED BY <1>1, <1>2, <2>1, <2>2, <2>3, AboveTames
<1> QED BY <1>3, <1>4

\* The event is told of its new leader, or only the party is.
LEMMA PassLeadTames ==
  ASSUME CallsOK, Willing, NEW c \in Calls, calls[c].stack \in TameStacks, DoPassLead(c)
  PROVE  EGoes(c)
<1>1. Ready(c) /\ Who(c) \in Players /\ Item(c).deed.do = "pass lead"
  BY TameDoes DEF DoPassLead
<1>2. ~Ender(Item(c).deed)
  BY <1>1, EnderIs DEF Ending
<1> DEFINE q == Items(<<LeadParty>>, Who(c))
           n == Items(<<Invoke("chief"), Lead>>, Who(c))
           g == <<Frame("sync", "", n)>>
<1>3. q \in TameSeqs
  BY <1>1, JavaAhead, JavaHas
<1>4. n \in TameSeqs
  <2>1. Invoke("chief") \in JavaDeeds /\ Lead \in JavaDeeds
    BY JavaHas DEF Handlers
  <2> QED BY <1>1, <2>1, JavaAhead
<1>5. With(c, q) \/ Becomes(c, g \o [Rest(c) EXCEPT ![1].items = q \o @])
  BY DEF DoPassLead
<1> HIDE DEF q, n
<1>6. g \in TameStacks
  BY <1>4, FrameIsTame, OneTameFrame
<1> HIDE DEF g
<1>7. CASE With(c, q)
  BY <1>1, <1>2, <1>3, <1>7, WithTames, TGoesEnds
<1>8. CASE ~With(c, q)
  BY <1>1, <1>2, <1>3, <1>5, <1>6, <1>8, AboveTames
<1> QED BY <1>7, <1>8

\* A handler begins, or not: not when the event is disposed of.
LEMMA InvokeTames ==
  ASSUME CallsOK, Willing, NEW c \in Calls, calls[c].stack \in TameStacks, DoInvoke(c)
  PROVE  EGoes(c)
<1>1. Ready(c) /\ Who(c) \in Players /\ To(c) \in Handlers /\ Item(c).deed.do \in {"invoke", "ask"}
  BY TameDoes DEF DoInvoke
<1>2. Item(c).deed.do = "ask" => ~Ender(Item(c).deed)
  BY EnderIs DEF Ending
<1>3. CASE disposed \/ (Item(c).deed.do = "ask" /\ Who(c) \notin member)
  <2>1. Continue(c) /\ (disposed => Assured')
    BY <1>3 DEF DoInvoke, Ended, Assured
  <2> QED BY <1>1, <1>2, <1>3, <2>1, ContinueTames, TGoesEnds
<1>4. CASE ~(disposed \/ (Item(c).deed.do = "ask" /\ Who(c) \notin member))
  <2> DEFINE g == <<Frame("script", "", Items(script[To(c)], Who(c)))>>
  <2>1. Under(c, g)
    BY <1>4 DEF DoInvoke, Invoked
  <2>2. g \in TameStacks /\ (Some(script[To(c)], Enders) => Ends(g))
    BY <1>1, InvokedIsTame
  <2> HIDE DEF g
  <2>3. Ender(Item(c).deed) => Ends(g)
    BY <1>1, <1>2, <2>2, EnderIs DEF To
  <2> QED BY <1>1, <2>1, <2>2, <2>3, UnderTames, TGoesEnds
<1> QED BY <1>3, <1>4

\* Deeds for each of some players that do not stop the timer are tame.
LEMMA InTurnIsTame ==
  ASSUME NEW S \in SUBSET Players, NEW order \in SetToSeqs(S), NEW f,
         f = [i \in DOMAIN order |-> f[i]],
         \A p \in S : \A i \in DOMAIN order : order[i] = p => f[i] \in Seq(StillItems)
  PROVE  FlattenSeq(f) \in TameSeqs
<1>1. Cardinality(S) \in Nat
  BY EventAssumption, FS_Subset, FS_CardinalityType
<1>2. order \in [1..Cardinality(S) -> S]
  BY DEF SetToSeqs
<1>3. f \in [1..Cardinality(S) -> Seq(StillItems)]
  BY <1>2
<1>4. FlattenSeq(f) \in Seq(StillItems)
  BY <1>1, <1>3, FlattenIsSeq
<1> QED BY <1>4, StillIsTame

\* Nor do the exits of a script.
LEMMA ExitsAreStill ==
  ASSUME Willing, NEW p \in Players
  PROVE  Items(script["exit"], p) \in Seq(StillItems) /\ Items(script["removed"], p) \in Seq(StillItems)
<1> DEFINE D == {d \in TameDeeds : d.do # "stop timer"}
<1>1. ASSUME NEW h \in {"exit", "removed"} PROVE Items(script[h], p) \in Seq(StillItems)
  <2>1. script[h] \in Seq(Tame)
    BY DEF Willing, EndsItself, Handlers
  <2>2. PICK q \in Seq(Tame) : q = script[h]
    BY <2>1
  <2>3. \A i \in DOMAIN q : q[i].do # "stop timer"
    BY <2>2 DEF Willing, EndsItself
  <2>4. \A i \in 1..Len(q) : q[i] \in D
    <3>1. DOMAIN q = 1..Len(q) /\ \A i \in 1..Len(q) : q[i] \in Tame
      OBVIOUS
    <3> QED BY <2>3, <3>1 DEF TameDeeds
  <2> HIDE DEF D
  <2>5. q \in Seq(D)
    BY <2>4
  <2>6. Items(q, p) \in Seq([deed : D, who : Players])
    BY <2>5, ItemsAreDoings
  <2> QED BY <2>2, <2>6 DEF D, StillItems
<1> QED BY <1>1

\* A walk over the players does for each of them what does not touch the timer.
LEMMA InTurnTames ==
  ASSUME CallsOK, Willing, chars \subseteq Players, NEW c \in Calls, calls[c].stack \in TameStacks,
         DoExitAll(c) \/ DoExitOthers(c) \/ DoWarpTeam(c)
  PROVE  EGoes(c)
<1>1. PICK what \in {"exit all", "exit others", "warp team"} : Does(c, what)
  BY DEF DoExitAll, DoExitOthers, DoWarpTeam
<1>2. Ready(c) /\ ~Ender(Item(c).deed)
  BY <1>1, TameDoes, EnderIs DEF Ending
<1>3. ASSUME NEW order \in SetToSeqs(chars), NEW f, f = [i \in DOMAIN order |-> f[i]],
             \A p \in chars : \A i \in DOMAIN order : order[i] = p => f[i] \in Seq(StillItems),
             With(c, FlattenSeq(f))
      PROVE  EGoes(c)
  <2>1. FlattenSeq(f) \in TameSeqs
    BY <1>3, InTurnIsTame
  <2> QED BY <1>2, <1>3, <2>1, WithTames, TGoesEnds
<1>4. CASE DoExitAll(c)
  <2> DEFINE Of(p) == Items(script["exit"], p)
  <2>1. PICK order \in SetToSeqs(chars) : With(c, FlattenSeq([i \in DOMAIN order |-> Of(order[i])]))
    BY <1>4 DEF DoExitAll, InTurn
  <2>2. \A p \in chars : Of(p) \in Seq(StillItems)
    BY ExitsAreStill
  <2> DEFINE f == [i \in DOMAIN order |-> Of(order[i])]
  <2>3. /\ f = [i \in DOMAIN order |-> f[i]]
        /\ \A p \in chars : \A i \in DOMAIN order : order[i] = p => f[i] \in Seq(StillItems)
    BY <2>2
  <2>4. With(c, FlattenSeq(f))
    BY <2>1
  <2> HIDE DEF f
  <2> QED BY <2>3, <2>4, <1>3
<1>5. CASE DoExitOthers(c)
  <2> DEFINE Of(p) == Items(IF p = Who(c) THEN script["removed"] ELSE script["exit"], p)
  <2>1. PICK order \in SetToSeqs(chars) : With(c, FlattenSeq([i \in DOMAIN order |-> Of(order[i])]))
    BY <1>5 DEF DoExitOthers, InTurn
  <2>2. \A p \in chars : Of(p) \in Seq(StillItems)
    BY ExitsAreStill
  <2> DEFINE f == [i \in DOMAIN order |-> Of(order[i])]
  <2>3. /\ f = [i \in DOMAIN order |-> f[i]]
        /\ \A p \in chars : \A i \in DOMAIN order : order[i] = p => f[i] \in Seq(StillItems)
    BY <2>2
  <2>4. With(c, FlattenSeq(f))
    BY <2>1
  <2> HIDE DEF f
  <2> QED BY <2>3, <2>4, <1>3
<1>6. CASE DoWarpTeam(c)
  <2> DEFINE Of(p) == Items(<<Go(To(c))>>, p)
  <2>1. PICK order \in SetToSeqs(chars) : With(c, FlattenSeq([i \in DOMAIN order |-> Of(order[i])]))
    BY <1>6 DEF DoWarpTeam, InTurn
  <2>2. Go(To(c)) \in JavaDeeds
    BY <1>6, TameDoes, JavaHas DEF DoWarpTeam
  <2>3. \A p \in chars : Of(p) \in Seq(StillItems)
    BY <2>2, JavaIsStill
  <2> DEFINE f == [i \in DOMAIN order |-> Of(order[i])]
  <2>4. /\ f = [i \in DOMAIN order |-> f[i]]
        /\ \A p \in chars : \A i \in DOMAIN order : order[i] = p => f[i] \in Seq(StillItems)
    BY <2>3
  <2>5. With(c, FlattenSeq(f))
    BY <2>1
  <2> HIDE DEF f
  <2> QED BY <2>4, <2>5, <1>3
<1> QED BY <1>4, <1>5, <1>6

\* disposeIfPlayerBelow's own frame is tame.
LEMMA EndIfBelowTames ==
  ASSUME CallsOK, Willing, chars \subseteq Players, NEW c \in Calls, calls[c].stack \in TameStacks,
         DoEndIfBelow(c)
  PROVE  EGoes(c)
<1>1. Ready(c) /\ Who(c) \in Players /\ Item(c).deed.do = "end if below"
  BY TameDoes DEF DoEndIfBelow
<1>2. ~Ender(Item(c).deed)
  BY <1>1, EnderIs DEF Ending
<1>3. CASE Continue(c)
  BY <1>1, <1>2, <1>3, ContinueTames, TGoesEnds
<1>4. CASE ~Continue(c)
  <2> DEFINE Of(p) == Items(<<Unregister, Go("out")>>, p)
  <2>1. PICK order \in SetToSeqs(chars) :
          Under(c, <<Frame("safe", "", FlattenSeq([i \in DOMAIN order |-> Of(order[i])])
                                       \o Items(<<Dispose>>, Who(c)))>>)
    BY <1>4 DEF DoEndIfBelow
  <2>2. \A p \in chars : Of(p) \in Seq(StillItems)
    <3>1. Unregister \in JavaDeeds /\ Go("out") \in JavaDeeds
      BY JavaHas DEF Ways
    <3> QED BY <3>1, JavaIsStill
  <2> DEFINE f == [i \in DOMAIN order |-> Of(order[i])]
             q == FlattenSeq(f) \o Items(<<Dispose>>, Who(c))
  <2>3. /\ f = [i \in DOMAIN order |-> f[i]]
        /\ \A p \in chars : \A i \in DOMAIN order : order[i] = p => f[i] \in Seq(StillItems)
    BY <2>2
  <2>4. Under(c, <<Frame("safe", "", q)>>)
    BY <2>1
  <2>5. FlattenSeq(f) \in TameSeqs
    <3> HIDE DEF f
    <3> QED BY <2>3, InTurnIsTame
  <2>6. Items(<<Dispose>>, Who(c)) \in TameSeqs
    BY <1>1, JavaAhead, JavaHas
  <2> HIDE DEF f
  <2>7. q \in TameSeqs
    BY <2>5, <2>6, TameCat
  <2> HIDE DEF q
  <2>8. <<Frame("safe", "", q)>> \in TameStacks
    BY <2>7, FrameIsTame, OneTameFrame
  <2> QED BY <1>1, <1>2, <2>4, <2>8, UnderTames, TGoesEnds
<1> QED BY <1>3, <1>4

\* A deed outside the monitor leaves a call tame, and with the end before it or assured.
LEMMA DeedsTame ==
  ASSUME CallsOK, Historical, Willing, setting' = setting, chars \subseteq Players,
         NEW c \in Calls, calls[c].stack \in TameStacks, DeedDone(c)
  PROVE  EGoes(c)
<1>1. ~DoBreaks(c) /\ ~DoHandled(c)
  BY TameDoes DEF DoBreaks, DoHandled
<1> QED BY <1>1, ContinuingTames, TaskTames, PuttingTames, GoTames, InTurnTames, EndIfBelowTames,
   InvokeTames, PassLeadTames DEF DeedDone

-----------------------------------------------------------------------------
\* What is so from the start: a call that is about to enter a player has his entry on top; the
\* end is assured, before some call, or will be at the first entry.
TameCall(c) ==
  /\ calls[c].stack \in TameStacks
  /\ calls[c].phase = "put" => (Some(script["entry"], Enders) => Ends(calls[c].stack))
Awaits(c)   == Ends(IF calls[c].phase = "put" THEN Tail(calls[c].stack) ELSE calls[c].stack)
AtEntry     == past.came = {} /\ Some(script["entry"], Enders)
Expected    == Assured \/ AtEntry \/ \E c \in Calls : Awaits(c)
Sealed      == \A c \in Calls : Disposing(c) => disposed
Faring      == (\A c \in Calls : TameCall(c)) /\ Expected
EndInv      == Historical /\ Sealed /\ (Willing => Faring)

\* What is said of a call after a step, in terms of what is known before it.
LEMMA NextCall ==
  ASSUME setting' = setting, NEW c \in Calls, NEW t, calls'[c].stack = t, NEW f, calls'[c].phase = f
  PROVE  /\ TameCall(c)' <=> /\ t \in TameStacks
                             /\ f = "put" => (Some(script["entry"], Enders) => Ends(t))
         /\ Awaits(c)' <=> Ends(IF f = "put" THEN Tail(t) ELSE t)
BY DEF TameCall, Awaits, Ends, EndsIn, Ender, script

\* What a step of one call must see to.
LEMMA FaringStays ==
  ASSUME Faring, NEW c \in Calls, \A d \in Calls \ {c} : calls'[d] = calls[d], setting' = setting,
         TameCall(c)', Awaits(c) => Awaits(c)' \/ Assured', Assured => Awaits(c)' \/ Assured',
         AtEntry => AtEntry' \/ Awaits(c)'
  PROVE  Faring'
<1>1. ASSUME NEW d \in Calls \ {c} PROVE TameCall(d)' /\ (Awaits(d) => Awaits(d)')
  <2>1. calls'[d].stack = calls[d].stack /\ calls'[d].phase = calls[d].phase /\ TameCall(d)
    BY DEF Faring
  <2>2. PICK t, f : t = calls[d].stack /\ f = calls[d].phase
    OBVIOUS
  <2>3. calls'[d].stack = t /\ calls'[d].phase = f
    BY <2>1, <2>2
  <2> QED BY <2>1, <2>2, <2>3, NextCall DEF TameCall, Awaits
<1>2. \A d \in Calls : TameCall(d)'
  BY <1>1
<1>3. Expected'
  <2>1. CASE Assured
    BY <2>1 DEF Expected
  <2>2. CASE AtEntry
    BY <2>2 DEF Expected
  <2>3. ASSUME NEW d \in Calls, Awaits(d) PROVE Expected'
    BY <1>1, <2>3 DEF Expected
  <2> QED BY <2>1, <2>2, <2>3 DEF Faring, Expected
<1> QED BY <1>2, <1>3 DEF Faring

\* What is remembered of a RuntimeException stays, and of who came but at an entry.
LEMMA CrashTells ==
  ASSUME Historical, NEW c \in Calls, Crash(c)
  PROVE  past'.crashed = TRUE /\ past'.came = past.came
<1>1. past' = [came |-> past.came, missed |-> past.missed, overlapped |-> past.overlapped,
               crashed |-> TRUE]
  BY PastWith DEF Crash
<1> QED BY <1>1

\* No step forgets that a call broke, and only putting a player in adds to those who came.
LEMMA CrashedStays ==
  ASSUME Historical, NEW c \in Calls, Doing(c)
  PROVE  (past.crashed => past'.crashed) /\ (Put(c) \/ past'.came = past.came)
<1>1. CASE UNCHANGED past
  BY <1>1
<1>2. CASE Crash(c)
  BY <1>2, CrashTells
<1>3. ASSUME NEW x, past' = [past EXCEPT !.missed = x]
      PROVE  past'.crashed = past.crashed /\ past'.came = past.came
  <2>1. past' = [came |-> past.came, missed |-> x, overlapped |-> past.overlapped,
                 crashed |-> past.crashed]
    BY <1>3, PastWith
  <2> QED BY <2>1
<1>4. ASSUME NEW x, NEW y, past' = [past EXCEPT !.came = x, !.missed = y]
      PROVE  past'.crashed = past.crashed
  <2>1. past' = [came |-> x, missed |-> y, overlapped |-> past.overlapped,
                 crashed |-> past.crashed]
    BY <1>4, PastWith
  <2> QED BY <2>1
<1>5. CASE DoWarp(c)
  <2>1. UNCHANGED past \/ Crash(c) \/ \E x : past' = [past EXCEPT !.missed = x]
    BY <1>5 DEF DoWarp
  <2> QED BY <1>1, <1>2, <1>3, <2>1
<1>6. CASE Put(c)
  <2>1. UNCHANGED past \/ \E x, y : past' = [past EXCEPT !.came = x, !.missed = y]
    BY <1>6 DEF Put
  <2> QED BY <1>1, <1>4, <1>6, <2>1
<1>7. CASE DoGo(c) \/ DoFirst(c) \/ DoStartTimer(c) \/ DoStopTimer(c) \/ DoDismiss(c)
  <2>1. UNCHANGED past \/ Crash(c)
    BY <1>7 DEF DoGo, DoFirst, DoStartTimer, DoStopTimer, DoDismiss
  <2> QED BY <1>1, <1>2, <2>1
<1>8. CASE ~(DoWarp(c) \/ Put(c) \/ DoGo(c) \/ DoFirst(c) \/ DoStartTimer(c) \/ DoStopTimer(c)
             \/ DoDismiss(c))
  <2>1. UNCHANGED past
    BY <1>8 DEF Doing, DoUnregister, DoLanded, DoPutOut, DoCall, DoExitAll, DoExitOthers,
       DoWarpTeam, DoEndIfBelow, DoIf, DoBreaks, DoHandled, DoDispose, DoSeal, Sweep,
       Release, DoSetCleared, DoFreeLobby, DoLater,
       DoRegister, DoInvoke, DoPassLead, DoLead, DoLeadParty, DoStandard, DoVanish, Moves
  <2> QED BY <1>1, <2>1
<1> QED BY <1>5, <1>6, <1>7, <1>8

\* The end stays assured but when a task is cancelled: by a script, or by the disposal.
LEMMA AssuredStays ==
  ASSUME Historical, NEW c \in Calls, Doing(c), Assured, ~DoStopTimer(c),
         Release(c) => disposed
  PROVE  Assured'
<1>1. /\ cleared' = cleared \/ cleared'
      /\ disposed' = disposed \/ disposed'
  BY Kept
<1>2. past.crashed => past'.crashed
  BY CrashedStays
<1>3. setting' = setting
  BY FreedStays
<1>4. CASE past.crashed \/ disposed \/ cleared
  BY <1>1, <1>2, <1>4 DEF Assured
<1>5. CASE ~(past.crashed \/ disposed \/ cleared)
  <2>1. \/ (timer \/ loose) /\ Some(script["timeout"], Enders)
        \/ later /\ Some(script["later"], Enders)
    BY <1>5 DEF Assured
  <2>2. CASE (timer \/ loose => timer' \/ loose') /\ (later => later')
    BY <1>3, <2>1, <2>2 DEF Assured, script
  <2>3. CASE past'.crashed \/ disposed'
    BY <2>3 DEF Assured
  <2>4. CASE DoSeal(c)
    BY <1>5, <2>3, <2>4 DEF DoSeal
  <2>5. CASE DoStartTimer(c) \/ DoDismiss(c)
    <3>1. CASE Crash(c)
      BY <2>3, <3>1, CrashTells
    <3>2. CASE ~Crash(c)
      BY <2>2, <2>5, <3>2 DEF DoStartTimer, DoDismiss
    <3> QED BY <3>1, <3>2
  <2>6. CASE DoLater(c)
    BY <2>2, <2>6 DEF DoLater
  <2>7. CASE ~(DoSeal(c) \/ DoStartTimer(c) \/ DoDismiss(c) \/ DoLater(c))
    <3>1. UNCHANGED <<timer, loose, later>>
      BY <1>5, <2>7 DEF Doing, DoUnregister, DoGo, DoWarp, DoLanded, DoPutOut, DoCall, DoExitAll, DoExitOthers,
         DoFirst, DoWarpTeam, DoEndIfBelow, DoIf, DoBreaks, DoHandled, DoDispose, Sweep,
         DoSetCleared, DoFreeLobby, DoRegister, Put, DoInvoke, DoPassLead, DoLead, DoLeadParty,
         DoStandard, DoVanish, Ended
    <3> QED BY <2>2, <3>1
  <2> QED BY <2>4, <2>5, <2>6, <2>7
<1> QED BY <1>4, <1>5

\* A deed outside the monitor keeps what is said of the end,
LEMMA DeedFares ==
  ASSUME CallsOK, Historical, Willing, Faring, chars \subseteq Players, NEW c \in Calls, Doing(c),
         DeedDone(c)
  PROVE  Faring' /\ calls'[c].phase = ""
<1>1. calls[c].phase = "" /\ setting' = setting /\ \A d \in Calls \ {c} : calls'[d] = calls[d]
  BY DeedsBecome, FreedStays, OthersWait
<1>2. calls[c].stack \in TameStacks
  BY DEF Faring, TameCall
<1>3. PICK t : t = calls'[c].stack
  OBVIOUS
<1>4. /\ t \in TameStacks /\ calls'[c].phase = ""
      /\ Ends(calls[c].stack) => Ends(t) \/ Assured'
      /\ DoStopTimer(c) => Ends(t) \/ Assured'
  BY <1>1, <1>2, <1>3, DeedsTame, GoesTame, TaskTames
<1>5. TameCall(c)' /\ (Awaits(c)' <=> Ends(t))
  BY <1>1, <1>3, <1>4, NextCall
<1>6. Awaits(c) => Ends(calls[c].stack)
  BY <1>1 DEF Awaits
<1>7. Assured => Assured' \/ Awaits(c)'
  <2>1. ~Release(c)
    BY <1>1 DEF Release
  <2> QED BY <1>4, <1>5, <2>1, AssuredStays
<1>8. AtEntry => AtEntry'
  <2>1. ~Put(c)
    BY <1>1 DEF Put
  <2>2. past'.came = past.came
    BY <2>1, CrashedStays
  <2> QED BY <1>1, <2>2 DEF AtEntry, script
<1> QED BY <1>1, <1>4, <1>5, <1>6, <1>7, <1>8, FaringStays

\* as do the steps in the monitor: the seal and what follows it,
LEMMA DisposalFares ==
  ASSUME CallsOK, Historical, Willing, Faring, Sealed, NEW c \in Calls, Doing(c),
         DoSeal(c) \/ Sweep(c) \/ Release(c)
  PROVE  Faring'
<1>1. setting' = setting /\ \A d \in Calls \ {c} : calls'[d] = calls[d]
  BY FreedStays, OthersWait
<1>2. calls[c].stack \in TameStacks /\ calls[c].stack # <<>>
  BY DEF Faring, TameCall, CallsOK, Held, DoSeal, Does, Sweep, Release
<1>3. Ready(c)
  BY <1>2 DEF Ready
<1>4. disposed' /\ calls'[c].stack \in TameStacks /\ calls'[c].phase # "put"
  <2>1. CASE DoSeal(c) /\ disposed
    <3>1. Continue(c) /\ disposed' = disposed /\ calls[c].phase = ""
      BY <2>1 DEF DoSeal, Does
    <3>2. PICK t : Becomes(c, t) /\ Lasts(c, t, FALSE)
      BY <1>3, <3>1, ContinueTames DEF TGoes
    <3>3. calls'[c].stack = Settled(t) /\ calls'[c].phase = ""
      BY <3>1, <3>2, BecomesThat
    <3>4. Settled(t) \in TameStacks
      BY <3>2, SettledIsTame DEF Lasts
    <3> QED BY <2>1, <3>1, <3>3, <3>4
  <2>2. CASE DoSeal(c) /\ ~disposed
    <3>1. calls' = [calls EXCEPT ![c] = [@ EXCEPT !.phase = "sweep"]] /\ disposed'
      BY <2>2 DEF DoSeal
    <3>2. calls'[c].stack = calls[c].stack /\ calls'[c].phase = "sweep"
      BY <1>2, <3>1, Phased, PhasesAre
    <3> QED BY <1>2, <3>1, <3>2
  <2>3. CASE Sweep(c)
    <3>1. calls' = [calls EXCEPT ![c] = [@ EXCEPT !.phase = "free"]] /\ disposed' = disposed
      BY <2>3 DEF Sweep, Ended
    <3>2. calls'[c].stack = calls[c].stack /\ calls'[c].phase = "free"
      BY <1>2, <3>1, Phased, PhasesAre
    <3>3. disposed
      BY <2>3 DEF Sealed, Disposing, Sweep
    <3> QED BY <1>2, <3>1, <3>2, <3>3
  <2>4. CASE Release(c)
    <3> DEFINE left == Settled(Rest(c))
    <3>1. calls' = [calls EXCEPT ![c] = IF left = <<>> THEN Idle
                                        ELSE [@ EXCEPT !.stack = left, !.phase = ""]]
          /\ disposed' = disposed
      BY <2>4 DEF Release
    <3>2. calls'[c].stack = left /\ calls'[c].phase = ""
      BY <3>1, LeavesWith
    <3>3. left \in TameStacks
      BY <1>3, RestIsTame, SettledIsTame DEF Lasts
    <3>4. disposed
      BY <2>4 DEF Sealed, Disposing, Release
    <3> QED BY <3>1, <3>2, <3>3, <3>4
  <2> QED BY <2>1, <2>2, <2>3, <2>4
<1>5. PICK t, f : t = calls'[c].stack /\ f = calls'[c].phase
  OBVIOUS
<1>6. TameCall(c)'
  BY <1>1, <1>4, <1>5, NextCall
<1>7. Assured'
  BY <1>4 DEF Assured
<1>8. AtEntry => AtEntry'
  <2>1. past' = past
    BY DEF DoSeal, Sweep, Release, Moves
  <2> QED BY <1>1, <2>1 DEF AtEntry, script
<1> QED BY <1>1, <1>4, <1>6, <1>7, <1>8, FaringStays

\* What is below the top of a tame stack has its end below the top.
LEMMA EndsBelow ==
  ASSUME NEW s \in TameStacks, s # <<>>
  PROVE  Tail(s) \in TameStacks /\ (Ends(Tail(s)) => Ends(s))
<1>1. PICK n, t : n = Len(s) /\ t = Tail(s)
  OBVIOUS
<1>2. /\ n \in Nat /\ n >= 1 /\ t \in TameStacks /\ Len(t) = n - 1
      /\ \A i \in 1..(n - 1) : t[i] = s[i + 1]
  BY <1>1 DEF TameStacks
<1>3. ASSUME NEW i \in 1..(n - 1), EndsIn(t[i].items) PROVE Ends(s)
  <2>1. i + 1 \in 1..n /\ t[i] = s[i + 1]
    BY <1>2
  <2> QED BY <1>1, <1>3, <2>1 DEF Ends
<1>4. Ends(t) => Ends(s)
  BY <1>2, <1>3 DEF Ends
<1> QED BY <1>1, <1>2, <1>4

\* What follows the element that was put in front.
LEMMA TailOfPrefixed ==
  ASSUME NEW D, NEW r \in Seq(D), NEW g
  PROVE  Tail(<<g>> \o r) = r
<1> DEFINE E == D \cup {g}
<1>1. r \in Seq(E)
  BY SeqGrows
<1>2. g \in E
  OBVIOUS
<1> HIDE DEF E
<1>3. PICK u : u = <<g>> \o r
  OBVIOUS
<1>4. /\ u \in Seq(E) /\ Len(u) = Len(r) + 1 /\ Len(r) \in Nat
      /\ \A i \in 1..Len(r) : u[i + 1] = r[i]
  BY <1>1, <1>2, <1>3
<1>5. /\ Tail(u) \in Seq(E) /\ Len(Tail(u)) = Len(r)
      /\ \A i \in 1..Len(r) : Tail(u)[i] = r[i]
  BY <1>4
<1>6. Tail(u) = r
  BY <1>1, <1>5, SeqEqual
<1> QED BY <1>3, <1>6

\* and an entry: whoever is the first to enter has the handler of it before him.
LEMMA EntryFares ==
  ASSUME CallsOK, Historical, Willing, Faring, NEW c \in Calls, Doing(c), DoRegister(c) \/ Put(c)
  PROVE  Faring'
<1>1. setting' = setting /\ \A d \in Calls \ {c} : calls'[d] = calls[d]
  BY FreedStays, OthersWait
<1>2. calls[c].stack \in TameStacks /\ calls[c].stack # <<>>
  BY DEF Faring, TameCall, CallsOK, Held, DoRegister, Does, Put
<1>3. Ready(c)
  BY <1>2 DEF Ready
<1>4. Assured => Assured'
  <2>1. ~DoStopTimer(c) /\ ~Release(c)
    BY DEF DoRegister, Put, Does, DoStopTimer, Release
  <2> QED BY <2>1, AssuredStays
<1>5. CASE DoRegister(c)
  <2>1. calls[c].phase = "" /\ Who(c) \in Players /\ Item(c).deed.do = "register"
    BY <1>2, <1>5, TameDoes DEF DoRegister
  <2>2. ~Ender(Item(c).deed)
    BY <2>1, EnderIs DEF Ending
  <2>3. past' = past
    BY <1>5 DEF DoRegister, Moves
  <2>4. AtEntry => AtEntry'
    BY <1>1, <2>3 DEF AtEntry, script
  <2>5. Awaits(c) => Ends(calls[c].stack)
    BY <2>1 DEF Awaits
  <2>6. Lasts(c, Rest(c), FALSE)
    BY <1>3, RestIsTame
  <2>7. CASE Continue(c)
    <3>1. PICK t : t = Settled(Rest(c))
      OBVIOUS
    <3>2. calls'[c].stack = t /\ calls'[c].phase = ""
      BY <2>1, <2>7, <3>1, BecomesThat DEF Continue
    <3>3. t \in TameStacks /\ (Ends(calls[c].stack) => Ends(t))
      BY <2>2, <2>6, <3>1, SettledIsTame DEF Lasts
    <3>4. TameCall(c)' /\ (Awaits(c)' <=> Ends(t))
      BY <1>1, <3>2, <3>3, NextCall
    <3> QED BY <1>1, <1>4, <2>4, <2>5, <3>3, <3>4, FaringStays
  <2>8. CASE ~Continue(c)
    <3> DEFINE q == Items(<<Invoke("entry")>>, Who(c))
               g == Frame("sync", "", q)
               x == <<g>> \o Rest(c)
               new == [calls[c] EXCEPT !.phase = "put", !.about = Who(c), !.stack = x]
    <3>1. calls' = [calls EXCEPT ![c] = new]
      BY <1>5, <2>8 DEF DoRegister
    <3>2. q \in TameSeqs /\ (Some(script["entry"], Enders) => EndsIn(q))
      <4>1. Invoke("entry") \in JavaDeeds /\ (Some(script["entry"], Enders) => Ender(Invoke("entry")))
        BY JavaHas DEF Handlers, Ender
      <4> QED BY <2>1, <4>1, JavaAhead
    <3> HIDE DEF q
    <3>3. <<g>> \in TameStacks /\ (Some(script["entry"], Enders) => Ends(<<g>>))
      BY <3>2, FrameIsTame, OneTameFrame
    <3> HIDE DEF g
    <3>4. x \in TameStacks /\ (Some(script["entry"], Enders) => Ends(x)) /\ Tail(x) = Rest(c)
      <4>1. Rest(c) \in TameStacks
        BY <2>6 DEF Lasts
      <4>2. PICK r \in TameStacks : r = Rest(c)
        BY <4>1
      <4>3. Tail(<<g>> \o r) = r
        BY TailOfPrefixed DEF TameStacks
      <4> QED BY <3>3, <4>2, <4>3, TameOnTop
    <3> HIDE DEF x
    <3>5. new.stack = x /\ new.phase = "put"
      <4>1. calls[c] \in Records
        BY DEF CallsOK, Held
      <4>2. [calls[c] EXCEPT !.phase = "put", !.about = Who(c), !.stack = x]
            = [by |-> calls[c].by, phase |-> "put", about |-> Who(c), stack |-> x]
        BY <4>1, RecordWithThree
      <4> QED BY <4>2
    <3> HIDE DEF new
    <3>6. calls'[c] = new
      BY <3>1 DEF CallsOK
    <3>7. TameCall(c)' /\ (Awaits(c)' <=> Ends(Tail(x)))
      BY <1>1, <3>4, <3>5, <3>6, NextCall
    <3>8. Awaits(c) => Awaits(c)'
      BY <2>2, <2>5, <2>6, <3>4, <3>7 DEF Lasts
    <3> QED BY <1>1, <1>4, <2>4, <3>7, <3>8, FaringStays
  <2> QED BY <2>7, <2>8
<1>6. CASE Put(c)
  <2>1. calls[c].phase = "put" /\ (Some(script["entry"], Enders) => Ends(calls[c].stack))
    BY <1>6 DEF Put, Faring, TameCall
  <2>2. Awaits(c) => Ends(Tail(calls[c].stack))
    BY <2>1 DEF Awaits
  <2>3. Tail(calls[c].stack) \in TameStacks /\ (Ends(Tail(calls[c].stack)) => Ends(calls[c].stack))
    BY <1>2, EndsBelow
  <2>4. CASE calls[c].about \in chars
    <3> DEFINE left == Settled(Tail(calls[c].stack))
    <3>1. /\ calls' = [calls EXCEPT ![c] = IF left = <<>> THEN Idle
                                           ELSE [@ EXCEPT !.stack = left, !.phase = ""]]
          /\ past' = past
      BY <1>6, <2>4 DEF Put
    <3>2. PICK t : t = left
      OBVIOUS
    <3>3. calls'[c].stack = t /\ calls'[c].phase = ""
      BY <3>1, <3>2, LeavesWith
    <3>4. t \in TameStacks /\ (Ends(Tail(calls[c].stack)) => Ends(t))
      BY <2>3, <3>2, SettledIsTame
    <3>5. TameCall(c)' /\ (Awaits(c)' <=> Ends(t))
      BY <1>1, <3>3, <3>4, NextCall
    <3>6. AtEntry => AtEntry'
      BY <1>1, <3>1 DEF AtEntry, script
    <3> QED BY <1>1, <1>4, <2>2, <3>4, <3>5, <3>6, FaringStays
  <2>5. CASE calls[c].about \notin chars
    <3>1. calls' = [calls EXCEPT ![c] = [@ EXCEPT !.phase = ""]]
      BY <1>6, <2>5 DEF Put
    <3>2. PICK t : t = calls[c].stack
      OBVIOUS
    <3>3. calls'[c].stack = t /\ calls'[c].phase = ""
      BY <1>2, <3>1, <3>2, Phased, PhasesAre
    <3>4. TameCall(c)' /\ (Awaits(c)' <=> Ends(t))
      BY <1>1, <1>2, <3>2, <3>3, NextCall
    <3>5. (Awaits(c) => Awaits(c)') /\ (AtEntry => Awaits(c)')
      BY <2>1, <2>2, <2>3, <3>2, <3>4 DEF AtEntry
    <3> QED BY <1>1, <1>4, <3>4, <3>5, FaringStays
  <2> QED BY <2>4, <2>5
<1> QED BY <1>5, <1>6

-----------------------------------------------------------------------------
\* What begins is tame, and what a task was to do is done by the call it begins.
Promised == \/ (timer \/ loose) /\ Some(script["timeout"], Enders)
            \/ later /\ Some(script["later"], Enders)

\* A new call with a tame stack keeps all calls tame, and has the end if it was promised.
LEMMA StartsTame ==
  ASSUME CallsOK, Historical, Willing, Faring, setting' = setting, NEW by,
         NEW frames \in TameStacks, Starts(by, frames),
         cleared' = cleared /\ disposed' = disposed, Promised => Promised' \/ Ends(frames)
  PROVE  Faring'
<1> DEFINE new == [by |-> by, phase |-> "", about |-> Leader, stack |-> frames]
<1>1. PICK c \in Calls : ~Busy(c) /\ calls' = [calls EXCEPT ![c] = new]
  BY DEF Starts
<1>2. new.stack = frames /\ new.phase = ""
  OBVIOUS
<1> HIDE DEF new
<1>3. calls'[c].stack = frames /\ calls'[c].phase = "" /\ \A d \in Calls \ {c} : calls'[d] = calls[d]
  BY <1>1, <1>2 DEF CallsOK
<1>4. TameCall(c)' /\ (Awaits(c)' <=> Ends(frames))
  BY <1>3, NextCall
<1>5. past'.crashed = past.crashed /\ past'.came = past.came
  <2>1. PICK o : past' = [past EXCEPT !.overlapped = o]
    BY DEF Starts
  <2>2. past' = [came |-> past.came, missed |-> past.missed, overlapped |-> o,
                 crashed |-> past.crashed]
    BY <2>1, PastWith
  <2> QED BY <2>2
<1>6. AtEntry => AtEntry'
  BY <1>5 DEF AtEntry, script
<1>7. Assured => Assured' \/ Awaits(c)'
  BY <1>4, <1>5 DEF Assured, Promised
<1>8. ~Awaits(c)
  <2>1. calls[c].phase = "" /\ calls[c].stack = <<>>
    BY <1>1, IdleHas
  <2>2. ~Ends(<<>>)
    BY EmptySeq DEF Ends
  <2> QED BY <2>1, <2>2 DEF Awaits
<1> QED BY <1>3, <1>4, <1>6, <1>7, <1>8, FaringStays

\* One or two deeds of the Java code make a tame stack.
LEMMA JavaIsATameStack ==
  ASSUME NEW d \in JavaDeeds, NEW e \in JavaDeeds, NEW p \in Players
  PROVE  /\ <<Java(<<d>>, p)>> \in TameStacks /\ <<Java(<<d, e>>, p)>> \in TameStacks
         /\ Ender(d) => Ends(<<Java(<<d>>, p)>>)
         /\ Ender(e) => Ends(<<Java(<<d, e>>, p)>>)
<1>1. /\ Items(<<d>>, p) \in TameSeqs /\ Items(<<d, e>>, p) \in TameSeqs
      /\ Ender(d) => EndsIn(Items(<<d>>, p))
      /\ Ender(e) => EndsIn(Items(<<d, e>>, p))
  BY JavaAhead
<1> QED BY <1>1, FrameIsTame, OneTameFrame DEF Java

\* A player who logs off starts a tame call: the lead is passed on and the script asked.
LEMMA DropIsTame ==
  ASSUME party \subseteq Players, NEW p \in Players, Drop(p)
  PROVE  \E frames : frames \in TameStacks /\ Starts("pool", frames)
<1> DEFINE near == {q \in party \ {p} : at[q] = at[p]}
           heirs == IF p = partyLeader /\ p \in party THEN near ELSE {}
           lost == Items(<<Ask("lost")>>, p)
<1>1. PICK passing \in {Items(<<PassLead>>, q) : q \in heirs} \cup {<<>>} :
        Happens("pool", <<Frame("safe", "", passing \o lost), Java(<<Vanish>>, p)>>)
  BY DEF Drop
<1>2. heirs \subseteq Players
  OBVIOUS
<1> HIDE DEF heirs
<1>3. lost \in TameSeqs
  <2>1. Ask("lost") \in JavaDeeds
    BY JavaHas DEF Handlers
  <2> QED BY <2>1, JavaAhead
<1>4. passing \in TameSeqs
  <2>1. <<>> \in TameSeqs
    <3>1. <<>> \in Seq(StillItems)
      BY EmptySeq
    <3> QED BY <3>1, StillIsTame
  <2> QED BY <1>1, <1>2, <2>1, JavaAhead, JavaHas
<1>5. Items(<<Vanish>>, p) \in TameSeqs
  BY JavaAhead, JavaHas
<1> DEFINE x == passing \o lost
           f == Frame("safe", "", x)  g == Java(<<Vanish>>, p)
<1> HIDE DEF lost
<1>6. x \in TameSeqs
  BY <1>3, <1>4, TameCat
<1>7. Starts("pool", <<f, g>>)
  BY <1>1 DEF Happens, lost
<1> HIDE DEF x
<1>8. f \in TameFrames /\ g \in TameFrames
  BY <1>5, <1>6, FrameIsTame DEF Java
<1> HIDE DEF f, g
<1>9. <<f, g>> \in TameStacks
  BY <1>8, TwoAreASeq DEF TameStacks
<1> QED BY <1>7, <1>9

\* Whatever begins from outside begins tame, and what it uses up it brings as a call.
LEMMA BeginningFares ==
  ASSUME CallsOK, Historical, Willing, Faring, setting \in Settings, party \subseteq Players,
         Beginning
  PROVE  Faring'
<1>1. setting.team \subseteq Players /\ Leader \in Players
  BY EventAssumption
<1>2. setting' = setting /\ cleared' = cleared /\ disposed' = disposed
  BY DEF Beginning, Wander, LeaveParty, Expel, HandOver, Drop, Die, Revive, Finish, Accident,
     Rejoin, TimerFires, LaterFires, Whole, Ended
<1> DEFINE Begun == \E by, frames : Starts(by, frames) /\ frames \in TameStacks
<1>3. \A h \in Handlers, p \in Players :
        <<Java(<<Ask(h)>>, p)>> \in TameStacks /\ <<Java(<<Invoke(h)>>, p)>> \in TameStacks
  BY JavaHas, JavaIsATameStack
<1>4. ASSUME NEW p \in setting.team, NEW to \in {"in", "out"}, Wander(p, to)
      PROVE  Begun
  <2>1. Go(to) \in JavaDeeds
    BY JavaHas DEF Ways
  <2>2. <<Java(<<Go(to)>>, p)>> \in TameStacks
    BY <1>1, <2>1, JavaIsATameStack
  <2> QED BY <1>4, <2>2 DEF Wander, Happens
<1>5. ASSUME NEW p \in setting.team, LeaveParty(p) PROVE Begun
  BY <1>1, <1>3, <1>5 DEF LeaveParty, Happens, Handlers
<1>6. ASSUME NEW p \in setting.team, Expel(p) PROVE Begun
  BY <1>1, <1>3, <1>6 DEF Expel, Happens, Handlers
<1>7. ASSUME NEW p \in setting.team, HandOver(p) PROVE Begun
  BY <1>1, <1>7, JavaHas, JavaIsATameStack DEF HandOver, Happens
<1>8. ASSUME NEW p \in setting.team, Drop(p) PROVE Begun
  BY <1>1, <1>8, DropIsTame
<1>9. ASSUME NEW p \in setting.team, Die(p) PROVE Begun
  BY <1>1, <1>3, <1>9 DEF Die, Happens, Handlers
<1>10. ASSUME NEW p \in setting.team, Revive(p) PROVE Begun
  <2>1. Ask("revive") \in JavaDeeds /\ Standard \in JavaDeeds
    BY JavaHas DEF Handlers
  <2>2. <<Java(<<Ask("revive"), Standard>>, p)>> \in TameStacks
    BY <1>1, <2>1, JavaIsATameStack
  <2> QED BY <1>10, <2>2 DEF Revive, Happens
<1>11. ASSUME NEW p \in setting.team, Finish(p) PROVE Begun
  BY <1>1, <1>3, <1>11 DEF Finish, Happens, Handlers
<1>12. ASSUME NEW p \in setting.team, Accident(p) PROVE Begun
  BY <1>1, <1>3, <1>12 DEF Accident, Happens, Handlers
<1>13. ASSUME NEW p \in setting.team, Rejoin(p) PROVE Begun
  BY <1>1, <1>13, JavaHas, JavaIsATameStack DEF Rejoin, Happens
<1>14. CASE TimerFires
  <2>1. PICK frames : frames = <<Java(<<Dismiss, Invoke("timeout")>>, Leader)>>
    OBVIOUS
  <2>2. Dismiss \in JavaDeeds /\ Invoke("timeout") \in JavaDeeds
    BY JavaHas DEF Handlers
  <2>3. Some(script["timeout"], Enders) => Ender(Invoke("timeout"))
    BY DEF Ender, Handlers
  <2>4. frames \in TameStacks /\ (Some(script["timeout"], Enders) => Ends(frames))
    BY <1>1, <2>1, <2>2, <2>3, JavaIsATameStack
  <2>5. Starts("clock", frames) /\ later' = later
    BY <1>14, <2>1 DEF TimerFires
  <2>6. Promised => Promised' \/ Ends(frames)
    BY <1>2, <2>4, <2>5 DEF Promised, script
  <2> QED BY <1>2, <2>4, <2>5, <2>6, StartsTame
<1>15. CASE LaterFires
  <2>1. PICK frames : frames = <<Java(<<Invoke("later")>>, Leader)>>
    OBVIOUS
  <2>2. Invoke("later") \in JavaDeeds
    BY JavaHas DEF Handlers
  <2>3. Some(script["later"], Enders) => Ender(Invoke("later"))
    BY DEF Ender, Handlers
  <2>4. frames \in TameStacks /\ (Some(script["later"], Enders) => Ends(frames))
    BY <1>1, <2>1, <2>2, <2>3, JavaIsATameStack
  <2>5. Starts("worker", frames) /\ timer' = timer /\ loose' = loose
    BY <1>15, <2>1 DEF LaterFires
  <2>6. Promised => Promised' \/ Ends(frames)
    BY <1>2, <2>4, <2>5 DEF Promised, script
  <2> QED BY <1>2, <2>4, <2>5, <2>6, StartsTame
<1>16. CASE ~TimerFires /\ ~LaterFires
  <2>1. Begun
    BY <1>4, <1>5, <1>6, <1>7, <1>8, <1>9, <1>10, <1>11, <1>12, <1>13, <1>16 DEF Beginning
  <2>2. timer' = timer /\ loose' = loose /\ later' = later
    BY <1>16 DEF Beginning, Wander, LeaveParty, Expel, HandOver, Drop, Die, Revive, Finish,
       Accident, Rejoin, Ended
  <2>3. Promised => Promised'
    BY <1>2, <2>2 DEF Promised, script
  <2> QED BY <1>2, <2>1, <2>3, StartsTame
<1> QED BY <1>14, <1>15, <1>16

\* At the start the setup has the end before it, or the first entry will.
LEMMA FaringAtFirst ==
  ASSUME Init
  PROVE  EndInv
<1> DEFINE Entering(order) == Frame("java", "", [i \in DOMAIN order |-> [deed |-> Register, who |-> order[i]]])
           S(order) == <<Invoked("setup", "", Leader), Entering(order)>>
<1>1. PICK order \in SetToSeqs(party) :
        calls = [c \in Calls |->
          IF c # Min(Calls) THEN Idle
          ELSE [by |-> Leader, phase |-> "", about |-> Leader, stack |-> Settled(S(order))]]
  BY DEF Init
<1>2. Leader \in Players /\ party \subseteq Players
  BY EventAssumption DEF Init
<1>3. Historical /\ past.came = {}
  <2>1. past = [came |-> {}, missed |-> {}, overlapped |-> FALSE, crashed |-> FALSE]
    BY DEF Init
  <2> QED BY <2>1 DEF Historical
<1>4. Entering(order) \in TameFrames
  <2>1. party \in SUBSET Players /\ IsFiniteSet(Players)
    BY <1>2, EventAssumption
  <2>2. Cardinality(party) \in Nat
    BY <2>1, FS_Subset, FS_CardinalityType
  <2>3. order \in [1..Cardinality(party) -> party]
    BY DEF SetToSeqs
  <2> DEFINE f == [i \in DOMAIN order |-> [deed |-> Register, who |-> order[i]]]
  <2>4. \A i \in 1..Cardinality(party) : [deed |-> Register, who |-> order[i]] \in StillItems
    <3>1. Register \in TameDeeds /\ Register.do # "stop timer"
      BY JavaHas, JavaDeedsAreTame DEF TameDeeds
    <3> QED BY <1>2, <2>3, <3>1 DEF StillItems
  <2>5. f \in [1..Cardinality(party) -> StillItems]
    BY <2>3, <2>4
  <2> HIDE DEF f
  <2>6. f \in Seq(StillItems)
    BY <2>2, <2>5
  <2>7. Frame("java", "", f) \in TameFrames
    BY <2>6, StillIsTame, FrameIsTame
  <2> QED BY <2>7 DEF f
<1>5. \A c \in Calls : calls[c].phase = ""
  <2>1. Idle.phase = ""
    BY DEF Idle
  <2> QED BY <1>1, <2>1
<1>6. ASSUME Willing PROVE Faring
  <2> HIDE DEF Entering
  <2>1. PICK a : /\ a = Invoked("setup", "", Leader)
                 /\ a \in TameFrames /\ (Some(script["setup"], Enders) => EndsIn(a.items))
    <3>1. PICK q \in TameSeqs : q = Items(script["setup"], Leader)
                                /\ (Some(script["setup"], Enders) => EndsIn(q))
      BY <1>2, <1>6, HandlersAreTame DEF Handlers
    <3>2. Frame("script", "", q) \in TameFrames /\ Frame("script", "", q).items = q
      BY FrameIsTame
    <3> QED BY <3>1, <3>2 DEF Invoked
  <2>2. PICK b \in TameFrames : b = Entering(order)
    BY <1>4
  <2>3. PICK u : u = <<a, b>>
    OBVIOUS
  <2>4. u \in TameStacks /\ Len(u) = 2 /\ u[1] = a
    BY <2>1, <2>3, TwoAreASeq DEF TameStacks
  <2>5. Some(script["setup"], Enders) => Ends(u)
    <3>1. 1 \in 1..Len(u) /\ u[1].items = a.items
      BY <2>4
    <3> QED BY <2>1, <3>1 DEF Ends
  <2>6. PICK s : s = Settled(u)
    OBVIOUS
  <2>7. s \in TameStacks /\ (Some(script["setup"], Enders) => Ends(s))
    BY <2>4, <2>5, <2>6, SettledIsTame
  <2>8. calls = [c \in Calls |->
          IF c # Min(Calls) THEN Idle
          ELSE [by |-> Leader, phase |-> "", about |-> Leader, stack |-> s]]
    BY <1>1, <2>1, <2>2, <2>3, <2>6
  <2>9. <<>> \in TameStacks
    BY EmptySeq DEF TameStacks
  <2>10. \A c \in Calls : calls[c].stack = s \/ calls[c].stack = <<>>
    BY <2>8 DEF Idle
  <2>11. \A c \in Calls : TameCall(c)
    BY <1>5, <2>7, <2>9, <2>10 DEF TameCall
  <2>12. Expected
    <3>1. CASE Some(script["entry"], Enders)
      BY <1>3, <3>1 DEF Expected, AtEntry
    <3>2. CASE Some(script["setup"], Enders)
      <4>1. Min(Calls) \in Calls
        <5>1. setting.calls \in Calls /\ Calls \subseteq Nat
          BY EventAssumption DEF Init
        <5> QED BY <5>1, Smallest
      <4>2. calls[Min(Calls)].stack = s
        BY <2>8, <4>1
      <4>3. Awaits(Min(Calls))
        BY <1>5, <2>7, <3>2, <4>1, <4>2 DEF Awaits
      <4> QED BY <4>1, <4>3 DEF Expected
    <3> QED BY <1>6, <3>1, <3>2 DEF Willing, EndsItself
  <2> QED BY <2>11, <2>12 DEF Faring
<1>7. Sealed
  BY <1>5 DEF Sealed, Disposing
<1> QED BY <1>3, <1>6, <1>7 DEF EndInv

\* Only a disposed event is swept.
LEMMA SealedStays ==
  ASSUME CallsOK, Sealed, NEW c \in Calls, Doing(c)
  PROVE  Disposing(c)' => disposed'
<1>1. disposed => disposed'
  BY Kept
<1>2. CASE DeedDone(c)
  <2>1. PICK t : calls[c].phase = "" /\ Becomes(c, t)
    BY <1>2, DeedsBecome
  <2>2. calls'[c].phase = ""
    BY <2>1, BecomesThat
  <2> QED BY <2>2 DEF Disposing
<1>3. CASE DoSeal(c)
  BY <1>1, <1>3 DEF DoSeal
<1>4. CASE Sweep(c) \/ Release(c)
  BY <1>1, <1>4 DEF Sweep, Release, Sealed, Disposing
<1>5. CASE Put(c)
  <2>1. CASE calls[c].about \in chars
    <3> DEFINE left == Settled(Tail(calls[c].stack))
    <3>1. calls' = [calls EXCEPT ![c] = IF left = <<>> THEN Idle
                                        ELSE [@ EXCEPT !.stack = left, !.phase = ""]]
      BY <1>5, <2>1 DEF Put
    <3>2. calls'[c].phase = ""
      BY <3>1, LeavesWith
    <3> QED BY <3>2 DEF Disposing
  <2>2. CASE calls[c].about \notin chars
    <3>1. calls[c].stack # <<>>
      BY <1>5 DEF CallsOK, Held, Put
    <3>2. calls'[c].phase = ""
      BY <1>5, <2>2, <3>1, Phased, PhasesAre DEF Put
    <3> QED BY <3>2 DEF Disposing
  <2> QED BY <2>1, <2>2
<1>6. CASE DoRegister(c)
  <2>1. CASE Continue(c)
    <3>1. calls[c].phase = ""
      BY <1>6 DEF DoRegister, Does
    <3>2. calls'[c].phase = ""
      BY <2>1, <3>1, BecomesThat DEF Continue
    <3> QED BY <3>2 DEF Disposing
  <2>2. CASE ~Continue(c)
    <3> DEFINE x == <<Frame("sync", "", Items(<<Invoke("entry")>>, Who(c)))>> \o Rest(c)
               new == [calls[c] EXCEPT !.phase = "put", !.about = Who(c), !.stack = x]
    <3>1. calls' = [calls EXCEPT ![c] = new]
      BY <1>6, <2>2 DEF DoRegister
    <3> HIDE DEF x
    <3>2. new.phase = "put"
      <4>1. calls[c] \in Records
        BY DEF CallsOK, Held
      <4>2. [calls[c] EXCEPT !.phase = "put", !.about = Who(c), !.stack = x]
            = [by |-> calls[c].by, phase |-> "put", about |-> Who(c), stack |-> x]
        BY <4>1, RecordWithThree
      <4> QED BY <4>2
    <3> HIDE DEF new
    <3>3. calls'[c].phase = "put"
      BY <3>1, <3>2 DEF CallsOK
    <3> QED BY <3>3 DEF Disposing
  <2> QED BY <2>1, <2>2
<1> QED BY <1>2, <1>3, <1>4, <1>5, <1>6 DEF Doing, DeedDone

\* Every step keeps what is known of the end.
LEMMA EndKeeps ==
  ASSUME Typed, EndInv, [Next]_vars
  PROVE  EndInv'
<1>0. CallsOK /\ Historical /\ Sealed /\ setting \in Settings /\ chars \subseteq Players
      /\ party \subseteq Players
  BY DEF Typed, People, EndInv
<1>1. ASSUME NEW c \in Calls, Doing(c) PROVE EndInv'
  <2>1. Historical' /\ setting' = setting /\ \A d \in Calls \ {c} : calls'[d] = calls[d]
    BY <1>0, <1>1, PastStays, FreedStays, OthersWait
  <2>2. Willing' => Willing
    BY <2>1 DEF Willing, script
  <2>3. disposed => disposed'
    BY <1>1, Kept
  <2>4. \A d \in Calls \ {c} : Disposing(d)' => disposed'
    BY <1>0, <2>1, <2>3 DEF Sealed, Disposing
  <2>5. Disposing(c)' => disposed'
    BY <1>0, <1>1, SealedStays
  <2>6. Willing => Faring'
    <3> SUFFICES ASSUME Willing PROVE Faring'
      OBVIOUS
    <3>1. Faring
      BY DEF EndInv
    <3> QED BY <1>0, <1>1, <3>1, DeedFares, DisposalFares, EntryFares DEF Doing, DeedDone
  <2> QED BY <2>1, <2>2, <2>4, <2>5, <2>6 DEF EndInv, Sealed
<1>2. CASE Beginning
  <2>1. setting' = setting /\ disposed' = disposed
    BY <1>2 DEF Beginning, Wander, LeaveParty, Expel, HandOver, Drop, Die, Revive, Finish, Accident,
       Rejoin, TimerFires, LaterFires, Whole, Ended
  <2>2. PICK by, frames : Starts(by, frames)
    BY <1>0, <1>2, BeginningIsCold
  <2>3. Historical'
    BY <1>0, <2>2, StartsTell
  <2>4. Sealed'
    <3> DEFINE new == [by |-> by, phase |-> "", about |-> Leader, stack |-> frames]
    <3>1. PICK c \in Calls : calls' = [calls EXCEPT ![c] = new]
      BY <2>2 DEF Starts
    <3>2. new.phase = ""
      OBVIOUS
    <3> HIDE DEF new
    <3>3. calls'[c].phase = "" /\ \A d \in Calls \ {c} : calls'[d] = calls[d]
      BY <1>0, <3>1, <3>2 DEF CallsOK
    <3>4. ~Disposing(c)'
      BY <3>3 DEF Disposing
    <3>5. \A d \in Calls \ {c} : Disposing(d)' => disposed'
      BY <1>0, <2>1, <3>3 DEF Sealed, Disposing
    <3> QED BY <3>4, <3>5 DEF Sealed
  <2>5. ASSUME Willing' PROVE Faring'
    <3>1. Willing
      BY <2>1, <2>5 DEF Willing, script
    <3>2. Faring
      BY <3>1 DEF EndInv
    <3> QED BY <1>0, <1>2, <3>1, <3>2, BeginningFares
  <2> QED BY <2>3, <2>4, <2>5 DEF EndInv
<1>3. CASE UNCHANGED vars
  BY <1>3 DEF vars, EndInv, Historical, Sealed, Disposing, Willing, script, Faring, TameCall,
     Expected, Assured, AtEntry, Awaits, Ends, EndsIn, Ender
<1> QED BY <1>1, <1>2, <1>3 DEF Next, Beginning

\* An event at rest that had a player has its end assured, and its lobby was given back or a
\* task will do so.
LEMMA EmptyWillEnd ==
  ASSUME Typed, Pays, EndInv, Willing, ~past.crashed
  PROVE  EmptyEventWillEnd
<1> SUFFICES ASSUME AtRest, past.came # {} PROVE freed > 0 \/ timer \/ loose \/ later
  BY DEF EmptyEventWillEnd
<1>1. ASSUME NEW c \in Calls PROVE ~Awaits(c) /\ ~Paying(c) /\ ~Disposing(c)
  <2>1. calls[c].phase = "" /\ calls[c].stack = <<>>
    BY IdleHas DEF AtRest
  <2>2. ~Ends(<<>>)
    BY EmptySeq DEF Ends
  <2> QED BY <2>1, <2>2 DEF Awaits, Paying, Disposing
<1>2. Assured
  BY <1>1 DEF EndInv, Faring, Expected, AtEntry
<1>3. cleared \/ disposed => freed # 0
  BY <1>1 DEF Pays, ClearedPays, DisposedPays
<1>4. freed # 0 => freed > 0
  BY DEF Typed, Counts
<1> QED BY <1>2, <1>3, <1>4 DEF Assured

\* An event whose script ends it by itself does not keep its lobby for ever once a player was
\* in it: while no call is under way, the lobby was given back or a task is waiting that sees
\* to the end.  A call that a RuntimeException ended half-way is excused.
THEOREM EventsEndThemselves ==
  ASSUME Tame \subseteq Deeds
  PROVE  Spec => [](EndsItself(script, Tame, Enders) /\ ~past.crashed => EmptyEventWillEnd)
<1>1. Init => Typed /\ Pays /\ EndInv
  <2>1. ASSUME Init PROVE Pays
    BY <2>1 DEF Init, Pays, ClearedPays, DisposedPays
  <2> QED BY <2>1, Initially, FaringAtFirst
<1>2. Typed /\ Pays /\ EndInv /\ [Next]_vars => (Typed /\ Pays /\ EndInv)'
  <2> SUFFICES ASSUME Typed, Pays, EndInv, [Next]_vars
               PROVE  Typed' /\ Pays' /\ EndInv'
    OBVIOUS
  <2> QED BY TypedStays, PaysKept, EndKeeps
<1>3. Typed /\ Pays /\ EndInv => (EndsItself(script, Tame, Enders) /\ ~past.crashed => EmptyEventWillEnd)
  BY EmptyWillEnd DEF Willing
<1> QED BY <1>1, <1>2, <1>3, PTL DEF Spec
=============================================================================
