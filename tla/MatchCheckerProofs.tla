-------------------------- MODULE MatchCheckerProofs --------------------------
(***************************************************************************)
(* Proofs about MatchChecker, for any players, permits and bounds.  None   *)
(* of them rests on pooledCids: a player may be unpooled by anybody.  What *)
(* they rest on is that a creation works on an element nobody else has     *)
(* seen, that only a member's own thread accepts or refuses for it, that   *)
(* an acceptance counts once, and, for what happens once only, that the    *)
(* members are inside synchronized(mmce) while they count.                 *)
(***************************************************************************)
EXTENDS MatchChecker, TLAPS, FiniteSetTheorems

Places == {"idle", "pool", "check", "put", "accept", "reenable", "drop", "get", "sync", "read",
           "count", "compare", "dispose", "remove", "result", "end"}
Calls  == {"none", "create", "accept", "deny", "dismiss"}

\* The threads inside the coordinator.
Inside == {p \in Players : th[p].pc # "idle"}

-----------------------------------------------------------------------------
(* Where the steps of a thread take it.                                    *)

\* Only the thread of p moves.
Moves(p) == th' \in [Players -> Locals] /\ \A q \in Players \ {p} : th'[q] = th[q]

\* It goes on with the same call on the same match.
GoesTo(p, pc) == Moves(p) /\ th'[p].op = th[p].op /\ th'[p].m = th[p].m /\ th'[p].pc = pc

LEMMA IdleIsLocal ==
  Idle \in Locals /\ Idle.op = "none" /\ Idle.pc = "idle" /\ Idle.m = NoMatch
BY DEF Idle, Locals, NoMatch

-----------------------------------------------------------------------------
(* The inductive invariant.                                                *)

Creating == {"check", "put", "accept", "reenable", "drop"}
Ending   == {"dispose", "remove", "result"}

\* The thread of p works on match m.
On(p, m) == th[p].m = m

\* p has been given the number of a match that it has not put yet.
Unborn(p) == th[p].op = "create" /\ th[p].pc \in {"pool", "check", "put"}

\* Nothing has happened to m and nobody is asked about it.
Untouched(m) ==
    /\ outcome[m]["accepted"] = 0 /\ outcome[m]["dismissed"] = 0
    /\ refused[m] = {} /\ withdrawn[m] = {} /\ match[m].active
    /\ \A q \in Players : matchEntries[q] # m

\* p ends match m, which it has completed, dismissed or refused.
Accepting(p, m)  == On(p, m) /\ th[p].pc \in Ending /\ th[p].op \in {"create", "accept"}
Dismissing(p, m) == On(p, m) /\ th[p].pc \in Ending /\ th[p].op = "dismiss"
Declining(p, m)  == On(p, m) /\ th[p].pc \in Ending /\ th[p].op = "deny"

\* p has accepted m and is adding its acceptance to the count.
CountingOn(p, m) == On(p, m) /\ th[p].pc \in Counting

\* p may be about to accept m: as its creator, or as a member inside the call.
Founding(p, m)  == On(p, m) /\ th[p].op = "create" /\ th[p].pc = "accept"
Answering(p, m) == On(p, m) /\ th[p].pc = "sync"

\* Each place belongs to a kind of call.
PlacesFit ==
    \A p \in Players :
        /\ th[p].pc \in Creating => th[p].op = "create"
        /\ th[p].pc \in {"get", "sync"} => th[p].op \in {"accept", "deny", "dismiss"}
        /\ th[p].pc \in Counting => th[p].op \in {"create", "accept"}
        /\ th[p].pc \in Ending => th[p].op # "none"

\* A match is numbered before it is worked on, and until it is put it is its
\* creator's alone.
NumbersAreFresh ==
    /\ \A p \in Players : th[p].m <= created /\ matchEntries[p] <= created
    /\ \A m \in Matches : m > created => Untouched(m)
    /\ \A p \in Players : Unborn(p) =>
          /\ Untouched(th[p].m)
          /\ \A q \in Players \ {p} : ~On(q, th[p].m)

\* Whoever creates, answers or ends a match works on one.
WorksOnMatch ==
    \A p \in Players :
        \/ th[p].pc \in Counting \union Ending \union {"sync"}
        \/ th[p].op = "create" /\ th[p].pc \in {"pool", "check", "put", "accept"}
        => th[p].m \in Matches

\* Who is asked about a match or answers it is a member of it.
MembersAnswer(m) ==
    \A p \in Players : matchEntries[p] = m \/ Answering(p, m) => p \in match[m].members

\* Whoever is counted, or is being counted, has accepted and is a member.
CountsAcceptances(m) ==
    /\ match[m].counted \subseteq match[m].accepted /\ match[m].accepted \subseteq match[m].members
    /\ \A p \in Players : CountingOn(p, m) => p \in match[m].accepted
    /\ \A p \in Players : On(p, m) /\ th[p].pc = "count" => th[p].seen \subseteq match[m].accepted

\* A match is completed when nobody is missing ...
CompletedByAll(m) ==
    outcome[m]["accepted"] > 0 \/ (\E p \in Players : Accepting(p, m))
        => match[m].accepted = match[m].members

\* ... and, unless an acceptance overlapped with the leader's, by one call at most:
\* one thread counts at a time, and none once the match has been completed.
CompletedOnce(m) ==
    m \notin overlapped =>
        /\ outcome[m]["accepted"] <= 1
        /\ \A p \in Players : Accepting(p, m) \/ CountingOn(p, m) =>
              /\ outcome[m]["accepted"] = 0
              /\ \A q \in Players \ {p} : ~Accepting(q, m) /\ ~CountingOn(q, m)

\* One call at most dismisses a match, which is inactive from then on.
DismissedOnce(m) ==
    /\ outcome[m]["dismissed"] <= 1
    /\ outcome[m]["dismissed"] > 0 => ~match[m].active
    /\ \A p \in Players : Dismissing(p, m) =>
          /\ ~match[m].active
          /\ outcome[m]["dismissed"] = 0
          /\ \A q \in Players \ {p} : ~Dismissing(q, m)

\* A match dismissed by members who had not accepted it lacks one for good.
DismissedIsIncomplete(m) ==
    ~match[m].active /\ withdrawn[m] = {} =>
        \E r \in match[m].members \ match[m].accepted : ~Founding(r, m)

\* Who refused a match has no way left to accept it.
RefusedIsIncomplete(m) ==
    \A p \in refused[m] :
        /\ p \in match[m].members \ match[m].accepted
        /\ ~Founding(p, m) /\ ~Answering(p, m)
        /\ matchEntries[p] = m => Declining(p, m)

Settled(m) ==
    /\ MembersAnswer(m) /\ CountsAcceptances(m) /\ CompletedByAll(m) /\ CompletedOnce(m)
    /\ DismissedOnce(m) /\ DismissedIsIncomplete(m) /\ RefusedIsIncomplete(m)

\* The types hold together with what makes th[p].m a match where one is looked up.
TInv == TypeOK /\ IsFiniteSet(Inside) /\ PlacesFit /\ WorksOnMatch

\* An answer or a dismissal at work on its match is inside the monitor of it.
Inmost(p) == th[p].op \in {"accept", "deny", "dismiss"} /\ th[p].pc \in Counting \union Ending
Synchronized == \A p \in Players : Inmost(p) => monitor[th[p].m] = {p}

IInv == TInv /\ Synchronized /\ NumbersAreFresh /\ \A m \in Matches : Settled(m)

-----------------------------------------------------------------------------
(* Where each action takes the thread that does it.                        *)

\* The thread is done.
GoesIdle(p) == Moves(p) /\ th'[p] = Idle

LEMMA GoMoves ==
  ASSUME TypeOK, NEW p \in Players, NEW pc \in Places, Go(p, pc)
  PROVE  GoesTo(p, pc)
<1>1. th[p] \in Locals
  BY DEF TypeOK
<1> QED BY <1>1 DEF Go, GoesTo, Moves, TypeOK, Locals, Places

LEMMA IdleMoves ==
  ASSUME TypeOK, NEW p \in Players, th' = [th EXCEPT ![p] = Idle]
  PROVE  GoesIdle(p)
BY IdleIsLocal DEF GoesIdle, Moves, TypeOK

LEMMA HeldMoves ==
  ASSUME TypeOK, NEW p \in Players, NEW S \in SUBSET Players, th' = [th EXCEPT ![p].held = S]
  PROVE  GoesTo(p, th[p].pc)
<1>1. th[p] \in Locals
  BY DEF TypeOK
<1> QED BY <1>1 DEF GoesTo, Moves, TypeOK, Locals

LEMMA PoolMoves ==
  ASSUME TypeOK, NEW p \in Players, NEW pc, PoolNext(p, pc)
  PROVE  GoesTo(p, pc)
<1>1. PICK q \in (th[p].set \ th[p].held) \ pooledCids :
        th' = [th EXCEPT ![p].held = th[p].held \union {q}]
  BY DEF PoolNext
<1>2. th[p].held \union {q} \in SUBSET Players
  BY DEF TypeOK, Locals
<1> QED BY <1>1, <1>2, HeldMoves DEF PoolNext

LEMMA DisposeMoves ==
  ASSUME TypeOK, NEW p \in Players, NEW S \in SUBSET Players, StartDispose(p, S)
  PROVE  GoesTo(p, "dispose")
<1>1. th[p] \in Locals
  BY DEF TypeOK
<1> QED BY <1>1 DEF StartDispose, GoesTo, Moves, TypeOK, Locals

LEMMA ReadMoves ==
  ASSUME TypeOK, NEW p \in Players, NEW S \in SUBSET Players, NEW pc \in Places,
         th' = [th EXCEPT ![p].seen = S, ![p].pc = pc]
  PROVE  GoesTo(p, pc) /\ th'[p].seen = S
<1>1. th[p] \in Locals
  BY DEF TypeOK
<1> QED BY <1>1 DEF GoesTo, Moves, TypeOK, Locals, Places

LEMMA CreateMoves ==
  ASSUME TypeOK, NEW p \in Players, NEW S \in SUBSET Players, CallCreate(p, S)
  PROVE  Moves(p) /\ th'[p].op = "create" /\ th'[p].pc = "pool" /\ th'[p].m = created + 1
<1> DEFINE m == created + 1
<1>1. m \in {NoMatch} \union Matches
  BY BoundsAssumption DEF TypeOK, CallCreate, Matches
<1>2. th' = [th EXCEPT ![p] = [Idle EXCEPT !.op = "create", !.pc = "pool", !.m = m, !.set = S]]
  BY DEF CallCreate
<1> HIDE DEF m
<1>3. Moves(p) /\ th'[p].op = "create" /\ th'[p].pc = "pool" /\ th'[p].m = m
  BY <1>1, <1>2 DEF Moves, TypeOK, Locals, Idle
<1> QED BY <1>3 DEF m

LEMMA AnswerMoves ==
  ASSUME TypeOK, NEW p \in Players, NEW op \in Calls, CallAnswer(p, op)
  PROVE  Moves(p) /\ th'[p].op = op /\ th'[p].pc = "pool" /\ th'[p].m = NoMatch
<1> DEFINE new == [Idle EXCEPT !.op = op, !.pc = "pool", !.set = {p}]
<1>1. th' = [th EXCEPT ![p] = new]
  BY DEF CallAnswer
<1>2. new \in Locals /\ new.op = op /\ new.pc = "pool" /\ new.m = NoMatch
  BY IdleIsLocal DEF Locals, Calls, NoMatch
<1> HIDE DEF new
<1> QED BY <1>1, <1>2 DEF Moves, TypeOK

LEMMA ReenableMoves ==
  ASSUME TypeOK, NEW p \in Players, CreateReenable(p)
  PROVE  \/ GoesTo(p, "end")
         \/ /\ Moves(p) /\ th'[p].op = th[p].op /\ th'[p].pc \in {"reenable", "drop"}
            /\ \E q \in Players : th'[p].m = matchEntries[q]
<1>1. th[p] \in Locals
  BY DEF TypeOK
<1>2. CASE Go(p, "end")
  BY <1>2, GoMoves DEF Places
<1>3. ASSUME NEW q \in th[p].set,
             th' = [th EXCEPT ![p].held = @ \union {q}, ![p].at = {q}, ![p].m = matchEntries[q],
                              ![p].pc = IF matchEntries[q] = NoMatch THEN "reenable" ELSE "drop"]
      PROVE  /\ Moves(p) /\ th'[p].op = th[p].op /\ th'[p].pc \in {"reenable", "drop"}
             /\ \E r \in Players : th'[p].m = matchEntries[r]
  <2> DEFINE pc   == IF matchEntries[q] = NoMatch THEN "reenable" ELSE "drop"
             held == th[p].held \union {q}
             at   == {q}
             m    == matchEntries[q]
             new  == [th[p] EXCEPT !.held = held, !.at = at, !.m = m, !.pc = pc]
  <2>1. /\ q \in Players /\ pc \in {"reenable", "drop"}
        /\ held \in SUBSET Players /\ at \in SUBSET Players /\ m \in {NoMatch} \union Matches
    BY <1>1 DEF TypeOK, Locals
  <2>2. th' = [th EXCEPT ![p] = new]
    BY <1>3
  <2> HIDE DEF pc, held, at, m
  <2>3. new \in Locals /\ new.op = th[p].op /\ new.pc = pc /\ new.m = m
    BY <1>1, <2>1 DEF Locals
  <2> HIDE DEF new
  <2>4. Moves(p) /\ th'[p] = new
    BY <2>2, <2>3 DEF Moves, TypeOK
  <2> QED BY <2>1, <2>3, <2>4 DEF m
<1> QED BY <1>2, <1>3 DEF CreateReenable

LEMMA GetMoves ==
  ASSUME TypeOK, NEW p \in Players, AnswerGet(p)
  PROVE  \/ GoesTo(p, "pool")
         \/ /\ Moves(p) /\ th'[p].op = th[p].op /\ th'[p].pc = "sync"
            /\ th'[p].m = matchEntries[p] /\ matchEntries[p] \in Matches
<1>1. th[p] \in Locals
  BY DEF TypeOK
<1>2. CASE Go(p, "pool")
  BY <1>2, GoMoves DEF Places
<1>3. CASE /\ matchEntries[p] # NoMatch
           /\ th' = [th EXCEPT ![p].m = matchEntries[p], ![p].pc = "sync"]
  <2> DEFINE m == matchEntries[p]
  <2>1. m \in {NoMatch} \union Matches /\ m \in Matches
    BY <1>3 DEF TypeOK
  <2>2. th' = [th EXCEPT ![p].m = m, ![p].pc = "sync"]
    BY <1>3
  <2> HIDE DEF m
  <2>3. Moves(p) /\ th'[p].op = th[p].op /\ th'[p].pc = "sync" /\ th'[p].m = m
    BY <1>1, <2>1, <2>2 DEF Moves, TypeOK, Locals
  <2> QED BY <2>1, <2>3 DEF m
<1> QED BY <1>2, <1>3 DEF AnswerGet

-----------------------------------------------------------------------------
(* The types.                                                              *)

\* A step of a thread that is inside lets nobody else in.
LEMMA StepInside ==
  ASSUME TypeOK, IsFiniteSet(Inside), NEW p \in Players, Moves(p), th[p].pc # "idle"
  PROVE  IsFiniteSet(Inside') /\ Cardinality(Inside') <= Permits
<1>1. Inside' \in SUBSET Inside
  BY DEF Inside, Moves
<1>2. IsFiniteSet(Inside') /\ Cardinality(Inside') <= Cardinality(Inside)
  BY <1>1, FS_Subset
<1>3. Cardinality(Inside) \in Nat /\ Cardinality(Inside') \in Nat
  BY <1>2, FS_CardinalityType
<1> QED BY <1>2, <1>3, BoundsAssumption DEF TypeOK, Inside

\* A call lets one thread in, and only where a permit is left.
LEMMA CallInside ==
  ASSUME TypeOK, IsFiniteSet(Inside), NEW p \in Players, Moves(p), HasPermit
  PROVE  IsFiniteSet(Inside') /\ Cardinality(Inside') <= Permits
<1>1. Inside' \in SUBSET (Inside \union {p})
  BY DEF Inside, Moves
<1>2. IsFiniteSet(Inside \union {p}) /\ Cardinality(Inside \union {p}) <= Cardinality(Inside) + 1
  BY FS_AddElement, FS_CardinalityType
<1>3. IsFiniteSet(Inside') /\ Cardinality(Inside') <= Cardinality(Inside \union {p})
  BY <1>1, <1>2, FS_Subset
<1>4. Cardinality(Inside) < Permits
  BY DEF HasPermit, Inside
<1>5. /\ Cardinality(Inside) \in Nat /\ Cardinality(Inside') \in Nat
      /\ Cardinality(Inside \union {p}) \in Nat
  BY <1>2, <1>3, FS_CardinalityType
<1> QED BY <1>2, <1>3, <1>4, <1>5, BoundsAssumption

\* What a step may leave behind of the other variables.
OthersTyped ==
    /\ matchEntries' \in [Players -> {NoMatch} \union Matches]
    /\ pooledCids' \subseteq Players
    /\ match' \in [Matches -> Element]
    /\ monitor' \in [Matches -> SUBSET Players]
    /\ created' \in 0..MaxMatch
    /\ answers' \in 0..MaxAnswers
    /\ overlapped' \subseteq Matches
    /\ outcome' \in [Matches -> [Results -> 0..2]]
    /\ refused' \in [Matches -> SUBSET Players]
    /\ withdrawn' \in [Matches -> SUBSET Players]

LEMMA TypedStep ==
  ASSUME TypeOK, IsFiniteSet(Inside), NEW p \in Players, Moves(p), th[p].pc # "idle" \/ HasPermit,
         OthersTyped
  PROVE  TypeOK' /\ IsFiniteSet(Inside')
<1>1. IsFiniteSet(Inside') /\ Cardinality(Inside') <= Permits
  BY StepInside, CallInside
<1> QED BY <1>1 DEF OthersTyped, TypeOK, Inside, Moves

\* An element with its acceptances or its flag changed.
LEMMA ElementForms ==
  ASSUME NEW e \in Element, NEW S \in SUBSET Players, NEW b \in BOOLEAN
  PROVE  [e EXCEPT !.accepted = S] \in Element /\ [e EXCEPT !.active = b] \in Element
BY DEF Element

LEMMA Accepts ==
  ASSUME TypeOK, NEW p \in Players, NEW m \in Matches,
         match' = [match EXCEPT ![m].accepted = @ \union {p}]
  PROVE  /\ match' \in [Matches -> Element]
         /\ match'[m].members = match[m].members /\ match'[m].active = match[m].active
         /\ match'[m].counted = match[m].counted
         /\ match'[m].accepted = match[m].accepted \union {p}
         /\ \A n \in Matches \ {m} : match'[n] = match[n]
<1> DEFINE S   == match[m].accepted \union {p}
           new == [match[m] EXCEPT !.accepted = S]
<1>1. match[m] \in Element /\ S \in SUBSET Players
  BY DEF TypeOK, Element
<1>2. match' = [match EXCEPT ![m] = new]
  OBVIOUS
<1> HIDE DEF S
<1>3. /\ new \in Element /\ new.members = match[m].members /\ new.active = match[m].active
      /\ new.counted = match[m].counted /\ new.accepted = S
  BY <1>1 DEF Element
<1> HIDE DEF new
<1> QED BY <1>2, <1>3 DEF TypeOK, S

LEMMA Counts ==
  ASSUME TypeOK, NEW m \in Matches, NEW S \in SUBSET Players,
         match' = [match EXCEPT ![m].counted = S]
  PROVE  /\ match' \in [Matches -> Element]
         /\ match'[m].members = match[m].members /\ match'[m].active = match[m].active
         /\ match'[m].counted = S
         /\ match'[m].accepted = match[m].accepted
         /\ \A n \in Matches \ {m} : match'[n] = match[n]
<1> DEFINE new == [match[m] EXCEPT !.counted = S]
<1>1. match[m] \in Element
  BY DEF TypeOK
<1>2. match' = [match EXCEPT ![m] = new]
  OBVIOUS
<1>3. /\ new \in Element /\ new.members = match[m].members /\ new.active = match[m].active
      /\ new.counted = S /\ new.accepted = match[m].accepted
  BY <1>1 DEF Element
<1> HIDE DEF new
<1>4. match \in [Matches -> Element]
  BY DEF TypeOK
<1>5. match'[m] = new /\ \A n \in Matches \ {m} : match'[n] = match[n]
  BY <1>2, <1>4
<1>6. match' \in [Matches -> Element]
  BY <1>2, <1>3, <1>4
<1> QED BY <1>3, <1>5, <1>6

\* The steps that go on with the same call, or leave, and where they go.
LEMMA StepMoves ==
  ASSUME TInv, NEW p \in Players
  PROVE  /\ CreatePool(p)     => GoesIdle(p) \/ GoesTo(p, "pool") \/ GoesTo(p, "check")
         /\ CreateCheck(p)    => GoesTo(p, "put") \/ GoesTo(p, "reenable")
         /\ CreatePut(p)      => GoesTo(p, "accept")
         /\ CreateDrop(p)     => GoesTo(p, "reenable")
         /\ AnswerPool(p)     => GoesIdle(p) \/ GoesTo(p, "get")
         /\ AnswerInactive(p) => GoesTo(p, "end")
         /\ CountRead(p)      => GoesTo(p, "count") /\ th'[p].seen = match[th[p].m].counted
         /\ CountWrite(p)     => GoesTo(p, "compare")
         /\ CountCompare(p)   => GoesTo(p, IF Complete(th[p].m) THEN "dispose" ELSE "end")
         /\ AnswerDeny(p)     => GoesTo(p, "dispose")
         /\ AnswerDismiss(p)  => GoesTo(p, "dispose")
         /\ DisposePool(p)    => GoesTo(p, "dispose") \/ GoesTo(p, "remove")
         /\ DisposeRemove(p)  => GoesTo(p, "result")
         /\ Dispatch(p)       => GoesTo(p, "end")
         /\ End(p)            => GoesIdle(p)
<1> USE DEF TInv
<1>1. \A pc \in Places : Go(p, pc) => GoesTo(p, pc)
  BY GoMoves
<1>2. th' = [th EXCEPT ![p] = Idle] => GoesIdle(p)
  BY IdleMoves
<1>3. \A pc : PoolNext(p, pc) => GoesTo(p, pc)
  BY PoolMoves
<1>4. CreatePool(p) => GoesIdle(p) \/ GoesTo(p, "pool") \/ GoesTo(p, "check")
  BY <1>1, <1>2, <1>3 DEF CreatePool, Places
<1>5. CreateCheck(p) => GoesTo(p, "put") \/ GoesTo(p, "reenable")
  <2>1. ASSUME th' = [th EXCEPT ![p].pc = "reenable", ![p].held = {}] PROVE GoesTo(p, "reenable")
    <3>1. th[p] \in Locals
      BY DEF TypeOK
    <3> QED BY <2>1, <3>1 DEF GoesTo, Moves, TypeOK, Locals
  <2> QED BY <1>1, <2>1 DEF CreateCheck, Places
<1>6. CreatePut(p) => GoesTo(p, "accept")
  BY <1>1 DEF CreatePut, Places
<1>7. CreateDrop(p) => GoesTo(p, "reenable")
  BY <1>1 DEF CreateDrop, Places
<1>8. AnswerPool(p) => GoesIdle(p) \/ GoesTo(p, "get")
  BY <1>1, <1>2 DEF AnswerPool, Places
<1>9. AnswerInactive(p) => GoesTo(p, "end")
  BY <1>1 DEF AnswerInactive, Places
<1>10. th[p].m \in Matches => /\ match[th[p].m].accepted \in SUBSET Players
                              /\ match[th[p].m].counted \in SUBSET Players
  BY DEF TypeOK, Element
<1>11. AnswerDeny(p) => GoesTo(p, "dispose")
  BY <1>10, DisposeMoves DEF AnswerDeny, WorksOnMatch
<1>12. AnswerDismiss(p) => GoesTo(p, "dispose")
  BY <1>10, DisposeMoves DEF AnswerDismiss, WorksOnMatch
<1>13. DisposePool(p) => GoesTo(p, "dispose") \/ GoesTo(p, "remove")
  <2>1. ASSUME th' = [th EXCEPT ![p].held = {}] PROVE GoesTo(p, th[p].pc)
    <3>1. th[p] \in Locals
      BY DEF TypeOK
    <3> QED BY <2>1, <3>1 DEF GoesTo, Moves, TypeOK, Locals
  <2> QED BY <1>1, <1>3, <2>1 DEF DisposePool, PoolFails, Places
<1>14. DisposeRemove(p) => GoesTo(p, "result")
  BY <1>1 DEF DisposeRemove, Places
<1>15. Dispatch(p) => GoesTo(p, "end")
  BY <1>1 DEF Dispatch, Places
<1>16. End(p) => GoesIdle(p)
  BY <1>2 DEF End
<1>17. CountRead(p) => GoesTo(p, "count") /\ th'[p].seen = match[th[p].m].counted
  BY <1>10, ReadMoves DEF CountRead, WorksOnMatch, Counting, Places
<1>18. CountWrite(p) => GoesTo(p, "compare")
  BY ReadMoves DEF CountWrite, Places
<1>19. CountCompare(p) => GoesTo(p, IF Complete(th[p].m) THEN "dispose" ELSE "end")
  BY <1>1, <1>10, DisposeMoves DEF CountCompare, WorksOnMatch, Counting, Places
<1> QED BY <1>4, <1>5, <1>6, <1>7, <1>8, <1>9, <1>11, <1>12, <1>13, <1>14, <1>15, <1>16,
           <1>17, <1>18, <1>19

\* A new acceptance goes on to be counted, any other ends the call.
LEMMA AcceptMoves ==
  ASSUME TInv, NEW p \in Players, CreateAccept(p) \/ AnswerAccept(p)
  PROVE  /\ th[p].m \in Matches
         /\ \/ IsNew(p, th[p].m) /\ SetAccept(p, th[p].m) /\ GoesTo(p, "read")
            \/ SkipAccept(p) /\ GoesTo(p, "end") /\ UNCHANGED monitor
<1>1. th[p].m \in Matches
  BY DEF TInv, WorksOnMatch, PlacesFit, Creating, CreateAccept, AnswerAccept
<1>2. \A pc \in Places : Go(p, pc) => GoesTo(p, pc)
  BY GoMoves DEF TInv
<1>3. \/ IsNew(p, th[p].m) /\ SetAccept(p, th[p].m)
      \/ SkipAccept(p) /\ UNCHANGED monitor
  BY DEF CreateAccept, AnswerAccept
<1> QED BY <1>1, <1>2, <1>3 DEF SetAccept, SkipAccept, Places

\* The places a call may come to, and the match it is about.
LEMMA PlacedStep ==
  ASSUME TInv, NEW p \in Players, Moves(p),
         th'[p].pc \in Creating => th'[p].op = "create",
         th'[p].pc \in {"get", "sync"} => th'[p].op \in {"accept", "deny", "dismiss"},
         th'[p].pc \in Counting => th'[p].op \in {"create", "accept"},
         th'[p].pc \in Ending => th'[p].op # "none",
         \/ th'[p].pc \in Counting \union Ending \union {"sync"}
         \/ th'[p].op = "create" /\ th'[p].pc \in {"pool", "check", "put", "accept"}
         => th'[p].m \in Matches
  PROVE  PlacesFit' /\ WorksOnMatch'
BY DEF TInv, Moves, PlacesFit, WorksOnMatch

\* A step that goes on with its call keeps to the places of that call.
LEMMA PlacedGo ==
  ASSUME TInv, NEW p \in Players, NEW pc, GoesTo(p, pc),
         \/ th[p].pc = "pool" /\ pc \in {"pool", "check"} /\ th[p].op = "create"
         \/ th[p].pc = "pool" /\ pc = "get" /\ th[p].op # "create" /\ th[p].op # "none"
         \/ th[p].pc = "check" /\ pc = "put"
         \/ th[p].pc = "put" /\ pc = "accept"
         \/ th[p].pc = "accept" /\ pc = "read"
         \/ th[p].pc = "sync" /\ th[p].op = "accept" /\ pc = "read"
         \/ th[p].pc \in Counting /\ pc \in {"count", "compare", "dispose"}
         \/ th[p].pc \in Creating /\ pc = "reenable"
         \/ th[p].pc = "get" /\ pc = "pool"
         \/ th[p].pc \in Ending \union {"sync"} /\ pc \in Ending
         \/ pc = "end"
  PROVE  PlacesFit' /\ WorksOnMatch'
<1>1. Moves(p) /\ th'[p].op = th[p].op /\ th'[p].m = th[p].m /\ th'[p].pc = pc
  BY DEF GoesTo
<1>2. th[p].op \in Calls
  BY DEF TInv, TypeOK, Locals, Calls
<1> QED
  BY <1>1, <1>2, PlacedStep DEF TInv, PlacesFit, WorksOnMatch, Creating, Counting, Ending, Calls

LEMMA PlacedIdle ==
  ASSUME TInv, NEW p \in Players, GoesIdle(p)
  PROVE  PlacesFit' /\ WorksOnMatch'
BY IdleIsLocal, PlacedStep DEF GoesIdle, Creating, Counting, Ending

LEMMA CallKeepsTypes ==
  ASSUME TInv, NEW p \in Players, Call(p)
  PROVE  TInv'
<1>1. ASSUME NEW S \in SUBSET Players, CallCreate(p, S) PROVE TInv'
  <2>1. Moves(p) /\ th'[p].op = "create" /\ th'[p].pc = "pool" /\ th'[p].m = created + 1
    BY <1>1, CreateMoves DEF TInv
  <2>2. created + 1 \in Matches
    BY <1>1, BoundsAssumption DEF CallCreate, TInv, TypeOK, Matches
  <2>3. PlacesFit' /\ WorksOnMatch'
    BY <2>1, <2>2, PlacedStep DEF Creating, Counting, Ending
  <2>4. OthersTyped /\ HasPermit
    BY <1>1, BoundsAssumption DEF CallCreate, OthersTyped, TInv, TypeOK, shared, history
  <2> QED BY <2>1, <2>3, <2>4, TypedStep DEF TInv
<1>2. ASSUME NEW op \in {"accept", "deny", "dismiss"}, CallAnswer(p, op) PROVE TInv'
  <2>1. Moves(p) /\ th'[p].op = op /\ th'[p].pc = "pool" /\ th'[p].m = NoMatch
    BY <1>2, AnswerMoves DEF TInv, Calls
  <2>2. PlacesFit' /\ WorksOnMatch'
    BY <1>2, <2>1, PlacedStep DEF Creating, Counting, Ending
  <2>3. OthersTyped /\ HasPermit
    BY <1>2, BoundsAssumption DEF CallAnswer, OthersTyped, TInv, TypeOK, shared, history
  <2> QED BY <2>1, <2>2, <2>3, TypedStep DEF TInv
<1> QED BY <1>1, <1>2 DEF Call

LEMMA TypedGo ==
  ASSUME TInv, NEW p \in Players, OthersTyped, th[p].pc # "idle", PlacesFit', WorksOnMatch',
         GoesIdle(p) \/ \E pc : GoesTo(p, pc)
  PROVE  TInv'
BY TypedStep DEF TInv, GoesIdle, GoesTo

LEMMA CreationKeepsTypes ==
  ASSUME TInv, NEW p \in Players
  PROVE  /\ CreatePool(p) => TInv'
         /\ CreateCheck(p) => TInv'
         /\ CreatePut(p) => TInv'
         /\ CreateReenable(p) => TInv'
         /\ CreateDrop(p) => TInv'
<1> USE DEF shared, history
<1>1. ASSUME CreatePool(p) PROVE TInv'
  <2>1. OthersTyped
    BY <1>1 DEF CreatePool, PoolNext, PoolFails, OthersTyped, TInv, TypeOK, Locals
  <2>2. th[p].pc = "pool" /\ th[p].op = "create"
    BY <1>1 DEF CreatePool, PoolNext, PoolFails, PoolDone
  <2>3. PlacesFit' /\ WorksOnMatch'
    BY <1>1, <2>2, StepMoves, PlacedGo, PlacedIdle
  <2> QED BY <1>1, <2>1, <2>2, <2>3, StepMoves, TypedGo
<1>2. ASSUME CreateCheck(p) PROVE TInv'
  <2>1. OthersTyped
    BY <1>2 DEF CreateCheck, OthersTyped, TInv, TypeOK
  <2>2. th[p].pc = "check"
    BY <1>2 DEF CreateCheck
  <2>3. PlacesFit' /\ WorksOnMatch'
    BY <1>2, <2>2, StepMoves, PlacedGo DEF Creating
  <2> QED BY <1>2, <2>1, <2>2, <2>3, StepMoves, TypedGo
<1>3. ASSUME CreatePut(p) PROVE TInv'
  <2>1. th[p].pc = "put" /\ th[p].op = "create" /\ th[p].m \in Matches /\ th[p].set \in SUBSET Players
    BY <1>3 DEF CreatePut, TInv, PlacesFit, WorksOnMatch, Creating, TypeOK, Locals
  <2>2. [leader |-> {p}, members |-> th[p].set, accepted |-> {}, counted |-> {}, active |-> TRUE]
            \in Element
    BY <2>1 DEF Element
  <2>3. OthersTyped
    BY <1>3, <2>1, <2>2 DEF CreatePut, OthersTyped, TInv, TypeOK
  <2>4. PlacesFit' /\ WorksOnMatch'
    BY <1>3, <2>1, StepMoves, PlacedGo
  <2> QED BY <1>3, <2>1, <2>3, <2>4, StepMoves, TypedGo
<1>4. ASSUME CreateReenable(p) PROVE TInv'
  <2>1. OthersTyped
    BY <1>4 DEF CreateReenable, OthersTyped, TInv, TypeOK
  <2>2. th[p].pc = "reenable" /\ th[p].op = "create"
    BY <1>4 DEF CreateReenable, TInv, PlacesFit, Creating
  <2>3. CASE GoesTo(p, "end")
    <3>1. PlacesFit' /\ WorksOnMatch'
      BY <2>3, PlacedGo
    <3> QED BY <2>1, <2>2, <2>3, <3>1, TypedGo
  <2>4. CASE Moves(p) /\ th'[p].op = th[p].op /\ th'[p].pc \in {"reenable", "drop"}
    <3>1. PlacesFit' /\ WorksOnMatch'
      BY <2>2, <2>4, PlacedStep DEF Counting, Ending
    <3> QED BY <2>1, <2>2, <2>4, <3>1, TypedStep DEF TInv
  <2> QED BY <1>4, <2>3, <2>4, ReenableMoves DEF TInv
<1>5. ASSUME CreateDrop(p) PROVE TInv'
  <2>1. OthersTyped
    BY <1>5 DEF CreateDrop, OthersTyped, TInv, TypeOK
  <2>2. th[p].pc = "drop"
    BY <1>5 DEF CreateDrop
  <2>3. PlacesFit' /\ WorksOnMatch'
    BY <1>5, <2>2, StepMoves, PlacedGo DEF Creating
  <2> QED BY <1>5, <2>1, <2>2, <2>3, StepMoves, TypedGo
<1> QED BY <1>1, <1>2, <1>3, <1>4, <1>5

LEMMA AnswerKeepsTypes ==
  ASSUME TInv, NEW p \in Players
  PROVE  /\ AnswerPool(p) => TInv'
         /\ AnswerGet(p) => TInv'
         /\ AnswerInactive(p) => TInv'
         /\ CreateAccept(p) \/ AnswerAccept(p) => TInv'
         /\ AnswerDeny(p) => TInv'
         /\ AnswerDismiss(p) => TInv'
<1> USE DEF shared, history
<1>1. ASSUME AnswerPool(p) PROVE TInv'
  <2>1. OthersTyped
    BY <1>1 DEF AnswerPool, OthersTyped, TInv, TypeOK
  <2>2. th[p].pc = "pool" /\ th[p].op # "create" /\ th[p].op # "none"
    BY <1>1 DEF AnswerPool
  <2>3. PlacesFit' /\ WorksOnMatch'
    BY <1>1, <2>2, StepMoves, PlacedGo, PlacedIdle
  <2> QED BY <1>1, <2>1, <2>2, <2>3, StepMoves, TypedGo
<1>2. ASSUME AnswerGet(p) PROVE TInv'
  <2>1. OthersTyped
    BY <1>2 DEF AnswerGet, OthersTyped, TInv, TypeOK
  <2>2. th[p].pc = "get" /\ th[p].op \in {"accept", "deny", "dismiss"}
    BY <1>2 DEF AnswerGet, TInv, PlacesFit
  <2>3. CASE GoesTo(p, "pool")
    <3>1. PlacesFit' /\ WorksOnMatch'
      BY <2>2, <2>3, PlacedGo
    <3> QED BY <2>1, <2>2, <2>3, <3>1, TypedGo
  <2>4. CASE /\ Moves(p) /\ th'[p].op = th[p].op /\ th'[p].pc = "sync"
             /\ th'[p].m = matchEntries[p] /\ matchEntries[p] \in Matches
    <3>1. PlacesFit' /\ WorksOnMatch'
      BY <2>2, <2>4, PlacedStep DEF Creating, Counting, Ending
    <3> QED BY <2>1, <2>2, <2>4, <3>1, TypedStep DEF TInv
  <2> QED BY <1>2, <2>3, <2>4, GetMoves DEF TInv
<1>3. ASSUME AnswerInactive(p) PROVE TInv'
  <2>1. OthersTyped
    BY <1>3 DEF AnswerInactive, OthersTyped, TInv, TypeOK
  <2>2. th[p].pc = "sync"
    BY <1>3 DEF AnswerInactive
  <2>3. PlacesFit' /\ WorksOnMatch'
    BY <1>3, StepMoves, PlacedGo
  <2> QED BY <1>3, <2>1, <2>2, <2>3, StepMoves, TypedGo
<1>4. ASSUME CreateAccept(p) \/ AnswerAccept(p) PROVE TInv'
  <2>1. /\ match' \in [Matches -> Element] /\ overlapped' \subseteq Matches
        /\ GoesTo(p, "read") \/ GoesTo(p, "end")
    <3>1. CASE SetAccept(p, th[p].m) /\ GoesTo(p, "read")
      <4>1. th[p].m \in Matches /\ TypeOK
        BY <1>4, AcceptMoves DEF TInv
      <4>2. overlapped' \subseteq Matches
        BY <3>1, <4>1 DEF SetAccept, TypeOK
      <4> QED BY <3>1, <4>1, <4>2, Accepts DEF SetAccept
    <3>2. CASE SkipAccept(p) /\ GoesTo(p, "end")
      BY <3>2 DEF SkipAccept, TInv, TypeOK
    <3> QED BY <1>4, <3>1, <3>2, AcceptMoves
  <2>2. OthersTyped
    <3>1. monitor' \in [Matches -> SUBSET Players]
      <4>1. monitor \in [Matches -> SUBSET Players] /\ {p} \in SUBSET Players
        BY DEF TInv, TypeOK
      <4>2. monitor' = monitor \/ Enter(th[p].m, p)
        BY <1>4 DEF CreateAccept, AnswerAccept
      <4> QED BY <4>1, <4>2 DEF Enter
    <3>2. UNCHANGED <<matchEntries, pooledCids, created, answers, outcome, refused, withdrawn>>
      BY <1>4 DEF CreateAccept, AnswerAccept
    <3> QED BY <2>1, <3>1, <3>2 DEF OthersTyped, TInv, TypeOK
  <2>3. th[p].pc = "accept" \/ (th[p].pc = "sync" /\ th[p].op = "accept")
    BY <1>4 DEF CreateAccept, AnswerAccept
  <2>4. PlacesFit' /\ WorksOnMatch'
    BY <2>1, <2>3, PlacedGo
  <2> QED BY <2>1, <2>2, <2>3, <2>4, TypedGo
<1>5. ASSUME AnswerDeny(p) \/ AnswerDismiss(p) PROVE TInv'
  <2>1. th[p].pc = "sync" /\ th[p].m \in Matches
    BY <1>5 DEF AnswerDeny, AnswerDismiss, TInv, WorksOnMatch
  <2>2. [match[th[p].m] EXCEPT !.active = FALSE] \in Element
    BY <2>1, ElementForms DEF TInv, TypeOK
  <2>3. match' \in [Matches -> Element]
    BY <1>5, <2>1, <2>2 DEF AnswerDeny, AnswerDismiss, TInv, TypeOK
  <2>4. OthersTyped
    <3>1. pooledCids' \subseteq Players
      BY <1>5 DEF AnswerDeny, AnswerDismiss, StartDispose, TInv, TypeOK
    <3>2. monitor' \in [Matches -> SUBSET Players]
      <4>1. monitor \in [Matches -> SUBSET Players] /\ {p} \in SUBSET Players
        BY DEF TInv, TypeOK
      <4>2. Enter(th[p].m, p)
        BY <1>5 DEF AnswerDeny, AnswerDismiss
      <4> QED BY <4>1, <4>2 DEF Enter
    <3>3. /\ refused' \in [Matches -> SUBSET Players]
          /\ withdrawn' \in [Matches -> SUBSET Players]
      <4>1. /\ refused \in [Matches -> SUBSET Players]
            /\ withdrawn \in [Matches -> SUBSET Players]
        BY DEF TInv, TypeOK
      <4>2. CASE AnswerDeny(p)
        BY <4>1, <4>2 DEF AnswerDeny
      <4>3. CASE AnswerDismiss(p)
        BY <4>1, <4>3 DEF AnswerDismiss
      <4> QED BY <1>5, <4>2, <4>3
    <3>4. UNCHANGED <<matchEntries, created, answers, overlapped, outcome>>
      BY <1>5 DEF AnswerDeny, AnswerDismiss
    <3> QED BY <2>3, <3>1, <3>2, <3>3, <3>4 DEF OthersTyped, TInv, TypeOK
  <2>5. PlacesFit' /\ WorksOnMatch'
    BY <1>5, <2>1, StepMoves, PlacedGo DEF Ending
  <2> QED BY <1>5, <2>1, <2>4, <2>5, StepMoves, TypedGo
<1> QED BY <1>1, <1>2, <1>3, <1>4, <1>5

LEMMA CountKeepsTypes ==
  ASSUME TInv, NEW p \in Players
  PROVE  /\ CountRead(p) => TInv'
         /\ CountWrite(p) => TInv'
         /\ CountCompare(p) => TInv'
<1> USE DEF shared, history
<1>1. ASSUME th[p].pc \in Counting
      PROVE  /\ th[p].m \in Matches /\ th[p].seen \in SUBSET Players
             /\ match[th[p].m].counted \in SUBSET Players
  BY <1>1 DEF TInv, WorksOnMatch, TypeOK, Locals, Element
<1>2. ASSUME CountRead(p) PROVE TInv'
  <2>1. OthersTyped
    BY <1>2 DEF CountRead, OthersTyped, TInv, TypeOK
  <2>2. th[p].pc = "read"
    BY <1>2 DEF CountRead
  <2>3. PlacesFit' /\ WorksOnMatch'
    BY <1>2, <2>2, StepMoves, PlacedGo DEF Counting
  <2> QED BY <1>2, <2>1, <2>2, <2>3, StepMoves, TypedGo
<1>3. ASSUME CountWrite(p) PROVE TInv'
  <2>1. th[p].pc = "count"
    BY <1>3 DEF CountWrite
  <2>2. th[p].seen \union {p} \in SUBSET Players /\ th[p].m \in Matches
    BY <1>1, <2>1 DEF Counting
  <2>3. match' \in [Matches -> Element]
    BY <1>3, <2>2, Counts DEF CountWrite, TInv
  <2>4. OthersTyped
    BY <1>3, <2>3 DEF CountWrite, OthersTyped, TInv, TypeOK
  <2>5. PlacesFit' /\ WorksOnMatch'
    BY <1>3, <2>1, StepMoves, PlacedGo DEF Counting
  <2> QED BY <1>3, <2>1, <2>4, <2>5, StepMoves, TypedGo
<1>4. ASSUME CountCompare(p) PROVE TInv'
  <2>1. th[p].pc = "compare"
    BY <1>4 DEF CountCompare
  <2>2. monitor' \in [Matches -> SUBSET Players]
    <3>1. monitor \in [Matches -> SUBSET Players]
      BY DEF TInv, TypeOK
    <3>2. monitor' = monitor \/ Leave(th[p].m, p)
      BY <1>4 DEF CountCompare
    <3> QED BY <3>1, <3>2 DEF Leave
  <2>3. pooledCids' \subseteq Players
    BY <1>4 DEF CountCompare, StartDispose, TInv, TypeOK
  <2>4. OthersTyped
    BY <1>4, <2>2, <2>3 DEF CountCompare, OthersTyped, TInv, TypeOK
  <2>5. GoesTo(p, "dispose") \/ GoesTo(p, "end")
    BY <1>4, StepMoves
  <2>6. PlacesFit' /\ WorksOnMatch'
    BY <2>1, <2>5, PlacedGo DEF Counting
  <2> QED BY <2>1, <2>4, <2>5, <2>6, TypedGo
<1> QED BY <1>2, <1>3, <1>4

LEMMA EndKeepsTypes ==
  ASSUME TInv, NEW p \in Players
  PROVE  /\ DisposePool(p) => TInv'
         /\ DisposeRemove(p) => TInv'
         /\ Dispatch(p) => TInv'
         /\ End(p) => TInv'
<1> USE DEF shared, history
<1>1. ASSUME DisposePool(p) PROVE TInv'
  <2>1. OthersTyped
    BY <1>1 DEF DisposePool, PoolNext, PoolFails, OthersTyped, TInv, TypeOK, Locals
  <2>2. th[p].pc = "dispose"
    BY <1>1 DEF DisposePool, PoolNext, PoolFails, PoolDone
  <2>3. PlacesFit' /\ WorksOnMatch'
    BY <1>1, <2>2, StepMoves, PlacedGo DEF Ending
  <2> QED BY <1>1, <2>1, <2>2, <2>3, StepMoves, TypedGo
<1>2. ASSUME DisposeRemove(p) PROVE TInv'
  <2>1. OthersTyped
    BY <1>2 DEF DisposeRemove, OthersTyped, TInv, TypeOK
  <2>2. th[p].pc = "remove"
    BY <1>2 DEF DisposeRemove
  <2>3. PlacesFit' /\ WorksOnMatch'
    BY <1>2, <2>2, StepMoves, PlacedGo DEF Ending
  <2> QED BY <1>2, <2>1, <2>2, <2>3, StepMoves, TypedGo
<1>3. ASSUME Dispatch(p) PROVE TInv'
  <2>1. th[p].pc = "result" /\ th[p].m \in Matches /\ ResultOf(th[p].op) \in Results
    BY <1>3 DEF Dispatch, TInv, WorksOnMatch, Ending, ResultOf, Results
  <2>2. outcome' \in [Matches -> [Results -> 0..2]]
    <3> DEFINE n == th[p].m
               r == ResultOf(th[p].op)
               k == IF outcome[n][r] < 2 THEN outcome[n][r] + 1 ELSE outcome[n][r]
    <3>1. outcome' = [outcome EXCEPT ![n][r] = k]
      BY <1>3 DEF Dispatch
    <3>2. outcome \in [Matches -> [Results -> 0..2]] /\ outcome[n][r] \in 0..2
      BY <2>1 DEF TInv, TypeOK
    <3>3. k \in 0..2
      BY <3>2
    <3> HIDE DEF k
    <3> QED BY <3>1, <3>2, <3>3
  <2>3. OthersTyped
    BY <1>3, <2>1, <2>2 DEF Dispatch, Leave, OthersTyped, TInv, TypeOK
  <2>4. PlacesFit' /\ WorksOnMatch'
    BY <1>3, StepMoves, PlacedGo
  <2> QED BY <1>3, <2>1, <2>3, <2>4, StepMoves, TypedGo
<1>4. ASSUME End(p) PROVE TInv'
  <2>1. OthersTyped
    BY <1>4 DEF End, OthersTyped, TInv, TypeOK
  <2>2. th[p].pc = "end"
    BY <1>4 DEF End
  <2>3. PlacesFit' /\ WorksOnMatch'
    BY <1>4, StepMoves, PlacedIdle
  <2> QED BY <1>4, <2>1, <2>2, <2>3, StepMoves, TypedGo
<1> QED BY <1>1, <1>2, <1>3, <1>4

LEMMA TInit == Init => TInv
<1> SUFFICES ASSUME Init PROVE TInv
  OBVIOUS
<1>1. Inside = {}
  BY DEF Init, Inside, Idle
<1>2. IsFiniteSet(Inside) /\ Cardinality(Inside) <= Permits
  BY <1>1, FS_EmptySet, BoundsAssumption
<1>3. NoElement \in Element
  BY DEF NoElement, Element
<1>4. TypeOK
  BY <1>2, <1>3, BoundsAssumption, IdleIsLocal DEF Init, TypeOK, Inside, NoMatch
<1>5. PlacesFit /\ WorksOnMatch
  BY DEF Init, PlacesFit, WorksOnMatch, Creating, Counting, Ending, Idle
<1> QED BY <1>2, <1>4, <1>5 DEF TInv

LEMMA TStep == TInv /\ [Next]_vars => TInv'
<1> SUFFICES ASSUME TInv, [Next]_vars PROVE TInv'
  OBVIOUS
<1>1. CASE UNCHANGED vars
  BY <1>1 DEF vars, TInv, TypeOK, Inside, PlacesFit, WorksOnMatch
<1>2. ASSUME NEW p \in Players, Call(p) PROVE TInv'
  BY <1>2, CallKeepsTypes
<1>3. ASSUME NEW p \in Players, Step(p) PROVE TInv'
  BY <1>3, CreationKeepsTypes, AnswerKeepsTypes, CountKeepsTypes, EndKeepsTypes DEF Step
<1> QED BY <1>1, <1>2, <1>3 DEF Next

\* For any players, permits and bounds, the coordinator stays in the states its
\* collections are meant for, and no more threads are inside than it has
\* permits, whatever order they are unpooled in and however a call ends.
THEOREM MatchTypeCorrect == Spec => []TypeOK
<1>1. TInv => TypeOK
  BY DEF TInv
<1> QED BY <1>1, TInit, TStep, PTL DEF Spec

-----------------------------------------------------------------------------
(* The steps that decide nothing.                                          *)

\* Of m nothing has changed, and p's thread is not nearer to a decision on it.
QuietAt(p, m) ==
    /\ match'[m] = match[m] /\ outcome'[m] = outcome[m]
    /\ refused'[m] = refused[m] /\ withdrawn'[m] = withdrawn[m]
    /\ \A q \in Players : matchEntries'[q] = m => matchEntries[q] = m
    /\ Founding(p, m)' => Founding(p, m)
    /\ Answering(p, m)' => Answering(p, m)
    /\ ~CountingOn(p, m)'
    /\ Accepting(p, m)' => Accepting(p, m)
    /\ Dismissing(p, m)' => Dismissing(p, m)
    /\ Declining(p, m)' <=> Declining(p, m)
    /\ m \in overlapped' <=> m \in overlapped

\* p's thread takes no number from another's, and does not touch an element
\* but its own.
Apart(p) ==
    /\ Moves(p) /\ created' = created
    /\ th'[p].m <= created
    /\ \A q \in Players : matchEntries'[q] <= created
    /\ \A q \in Players \ {p} : Unborn(q) => th'[p].m # th[q].m
    /\ \A m \in Matches : Untouched(m) /\ (m = th[p].m => Unborn(p)') => Untouched(m)'
    /\ Unborn(p)' => Unborn(p) /\ th'[p].m = th[p].m

Quiet(p) == Apart(p) /\ \A m \in Matches : QuietAt(p, m)

\* The threads of the others are where they were.
LEMMA OthersStay ==
  ASSUME NEW p \in Players, Moves(p), NEW q \in Players \ {p}
  PROVE  /\ Unborn(q)' <=> Unborn(q)
         /\ th'[q].m = th[q].m /\ th'[q].pc = th[q].pc /\ th'[q].seen = th[q].seen
         /\ \A m : /\ On(q, m)' <=> On(q, m)
                   /\ Founding(q, m)' <=> Founding(q, m)
                   /\ Answering(q, m)' <=> Answering(q, m)
                   /\ CountingOn(q, m)' <=> CountingOn(q, m)
                   /\ Accepting(q, m)' <=> Accepting(q, m)
                   /\ Dismissing(q, m)' <=> Dismissing(q, m)
                   /\ Declining(q, m)' <=> Declining(q, m)
BY DEF Moves, Unborn, On, Founding, Answering, CountingOn, Accepting, Dismissing, Declining

LEMMA QuietAtKeeps ==
  ASSUME TInv, NEW p \in Players, Moves(p), NEW m \in Matches, QuietAt(p, m), Settled(m)
  PROVE  Settled(m)'
<1>1. ASSUME NEW q \in Players
      PROVE  /\ Founding(q, m)' => Founding(q, m)
             /\ Answering(q, m)' => Answering(q, m)
             /\ CountingOn(q, m)' => CountingOn(q, m) /\ q # p
             /\ Accepting(q, m)' => Accepting(q, m)
             /\ Dismissing(q, m)' => Dismissing(q, m)
             /\ Declining(q, m)' <=> Declining(q, m)
  BY OthersStay DEF QuietAt
<1>2. MembersAnswer(m)'
  BY <1>1 DEF Settled, MembersAnswer, QuietAt
<1>3. CompletedByAll(m)' /\ CompletedOnce(m)'
  BY <1>1 DEF Settled, CompletedByAll, CompletedOnce, QuietAt
<1>8. CountsAcceptances(m)'
  <2>1. ASSUME NEW q \in Players, On(q, m)', th'[q].pc = "count"
        PROVE  q # p /\ On(q, m) /\ th[q].pc = "count" /\ th'[q].seen = th[q].seen
    BY <2>1, OthersStay DEF QuietAt, CountingOn, Counting
  <2> QED BY <1>1, <2>1 DEF Settled, CountsAcceptances, QuietAt
<1>4. DismissedOnce(m)'
  BY <1>1 DEF Settled, DismissedOnce, QuietAt
<1>5. match[m].members \in SUBSET Players /\ refused[m] \in SUBSET Players
  BY DEF TInv, TypeOK, Element
<1>6. DismissedIsIncomplete(m)'
  BY <1>1, <1>5 DEF Settled, DismissedIsIncomplete, QuietAt
<1>7. RefusedIsIncomplete(m)'
  BY <1>1, <1>5 DEF Settled, RefusedIsIncomplete, QuietAt
<1> QED BY <1>2, <1>3, <1>4, <1>6, <1>7, <1>8 DEF Settled

LEMMA ApartKeeps ==
  ASSUME TInv, NumbersAreFresh, NEW p \in Players, Apart(p)
  PROVE  NumbersAreFresh'
<1>1. created \in Nat
  BY BoundsAssumption DEF TInv, TypeOK
<1>2. \A q \in Players : th'[q].m <= created' /\ matchEntries'[q] <= created'
  BY OthersStay DEF Apart, NumbersAreFresh
<1>3. \A m \in Matches : m > created' => Untouched(m)'
  <2>1. \A m \in Matches : m > created => m # th[p].m
    BY <1>1 DEF NumbersAreFresh, Matches
  <2> QED BY <2>1 DEF Apart, NumbersAreFresh
<1>4. ASSUME NEW q \in Players, Unborn(q)'
      PROVE  Untouched(th[q].m)' /\ \A r \in Players \ {q} : ~On(r, th[q].m)'
  <2>1. Unborn(q) /\ th'[q].m = th[q].m
    BY <1>4, OthersStay DEF Apart
  <2>2. th[q].m \in Matches /\ Untouched(th[q].m) /\ (th[q].m = th[p].m => q = p)
    BY <2>1 DEF NumbersAreFresh, TInv, WorksOnMatch, Unborn, On
  <2>3. \A m \in Matches : m = th[q].m => Untouched(m)'
    BY <1>4, <2>2 DEF Apart
  <2>4. Untouched(th[q].m)'
    BY <2>1, <2>2, <2>3 DEF Untouched
  <2>5. ASSUME NEW r \in Players \ {q} PROVE th'[r].m # th[q].m
    BY <2>1, OthersStay DEF Apart, NumbersAreFresh, On
  <2> QED BY <2>1, <2>4, <2>5 DEF On
<1> QED BY <1>2, <1>3, <1>4 DEF NumbersAreFresh

LEMMA QuietKeeps ==
  ASSUME IInv, NEW p \in Players, Quiet(p)
  PROVE  (NumbersAreFresh /\ \A m \in Matches : Settled(m))'
<1>1. NumbersAreFresh'
  BY ApartKeeps DEF IInv, Quiet
<1>2. ASSUME NEW m \in Matches PROVE Settled(m)'
  BY QuietAtKeeps DEF IInv, Quiet, Apart
<1> QED BY <1>1, <1>2 DEF Matches

\* A step about which nothing is decided, and where entries only go.
Undecided ==
    /\ UNCHANGED <<match, overlapped, outcome, refused, withdrawn, created>>
    /\ \A q \in Players : matchEntries'[q] \in {matchEntries[q], NoMatch}

\* Such a step is quiet, wherever p's thread is sent.
LEMMA QuietStep ==
  ASSUME IInv, NEW p \in Players, Moves(p), Undecided,
         th'[p].m <= created,
         \A q \in Players \ {p} : Unborn(q) => th'[p].m # th[q].m,
         Unborn(p)' => Unborn(p) /\ th'[p].m = th[p].m,
         \A m \in Matches : /\ Founding(p, m)' => Founding(p, m)
                            /\ Answering(p, m)' => Answering(p, m)
                            /\ ~CountingOn(p, m)'
                            /\ Accepting(p, m)' => Accepting(p, m)
                            /\ Dismissing(p, m)' => Dismissing(p, m)
                            /\ Declining(p, m)' <=> Declining(p, m)
  PROVE  Quiet(p)
<1>1. \A q \in Players, m \in Matches : matchEntries'[q] = m => matchEntries[q] = m
  BY DEF Undecided, NoMatch, Matches
<1>2. \A q \in Players : matchEntries'[q] <= created
  BY BoundsAssumption DEF Undecided, IInv, NumbersAreFresh, NoMatch, TInv, TypeOK
<1>3. \A m \in Matches : Untouched(m) => Untouched(m)'
  BY <1>1 DEF Undecided, Untouched
<1> QED BY <1>1, <1>2, <1>3 DEF Quiet, Apart, QuietAt, Undecided

LEMMA QuietGo ==
  ASSUME IInv, NEW p \in Players, NEW pc, GoesTo(p, pc), Undecided,
         pc \in Ending <=> th[p].pc \in Ending,
         pc \notin Counting,
         pc = "sync" => th[p].pc = "sync",
         pc = "accept" => th[p].pc = "accept",
         th[p].op = "create" /\ pc \in {"pool", "check", "put"}
             => th[p].pc \in {"pool", "check", "put"}
  PROVE  Quiet(p)
<1>1. Moves(p) /\ th'[p].op = th[p].op /\ th'[p].m = th[p].m /\ th'[p].pc = pc
  BY DEF GoesTo
<1>2. th[p].m <= created /\ \A q \in Players \ {p} : Unborn(q) => th[p].m # th[q].m
  BY DEF IInv, NumbersAreFresh, On
<1>3. \A m \in Matches : /\ Founding(p, m)' => Founding(p, m)
                         /\ Answering(p, m)' => Answering(p, m)
                         /\ ~CountingOn(p, m)'
                         /\ Accepting(p, m)' => Accepting(p, m)
                         /\ Dismissing(p, m)' => Dismissing(p, m)
                         /\ Declining(p, m)' <=> Declining(p, m)
  BY <1>1 DEF On, Founding, Answering, CountingOn, Accepting, Dismissing, Declining
<1>4. Unborn(p)' => Unborn(p)
  BY <1>1 DEF Unborn
<1> QED BY <1>1, <1>2, <1>3, <1>4, QuietStep

\* A thread that leaves, or enters to answer, works on no match.
LEMMA QuietLeave ==
  ASSUME IInv, NEW p \in Players, Moves(p), Undecided,
         th'[p].m = NoMatch, th'[p].pc \in {"idle", "pool"}, th'[p].op # "create",
         th[p].pc \notin Ending
  PROVE  Quiet(p)
<1>1. th'[p].m <= created
  BY BoundsAssumption DEF IInv, TInv, TypeOK, NoMatch
<1>2. ASSUME NEW q \in Players, Unborn(q) PROVE th'[p].m # th[q].m
  BY <1>2 DEF IInv, TInv, WorksOnMatch, Unborn, NoMatch, Matches
<1>3. \A m \in Matches : /\ ~Founding(p, m)' /\ ~Answering(p, m)' /\ ~CountingOn(p, m)'
                         /\ ~Accepting(p, m)' /\ ~Dismissing(p, m)'
                         /\ ~Declining(p, m)' /\ ~Declining(p, m)
  BY DEF Founding, Answering, CountingOn, Accepting, Dismissing, Declining, Counting, Ending
<1>4. ~Unborn(p)'
  BY DEF Unborn
<1> QED BY <1>1, <1>2, <1>3, <1>4, QuietStep

LEMMA QuietCreations ==
  ASSUME IInv, NEW p \in Players
  PROVE  /\ CreatePool(p) => Quiet(p)
         /\ CreateCheck(p) => Quiet(p)
         /\ CreateReenable(p) => Quiet(p)
         /\ CreateDrop(p) => Quiet(p)
<1> USE DEF shared, history
<1>0. TInv
  BY DEF IInv
<1>1. ASSUME CreatePool(p) PROVE Quiet(p)
  <2>1. th[p].pc = "pool" /\ Undecided
    BY <1>1 DEF CreatePool, PoolNext, PoolFails, PoolDone, Undecided
  <2>2. CASE GoesIdle(p)
    BY <2>1, <2>2, IdleIsLocal, QuietLeave DEF GoesIdle, Ending
  <2>3. CASE GoesTo(p, "pool") \/ GoesTo(p, "check")
    BY <2>1, <2>3, QuietGo DEF Counting, Ending
  <2> QED BY <1>0, <1>1, <2>2, <2>3, StepMoves
<1>2. ASSUME CreateCheck(p) PROVE Quiet(p)
  <2>1. th[p].pc = "check" /\ Undecided
    BY <1>2 DEF CreateCheck, Undecided
  <2> QED BY <1>0, <1>2, <2>1, StepMoves, QuietGo DEF Counting, Ending
<1>3. ASSUME CreateReenable(p) PROVE Quiet(p)
  <2>1. th[p].pc = "reenable" /\ Undecided
    BY <1>3 DEF CreateReenable, Undecided
  <2>2. CASE GoesTo(p, "end")
    BY <2>1, <2>2, QuietGo DEF Counting, Ending
  <2>3. ASSUME Moves(p), th'[p].pc \in {"reenable", "drop"},
               NEW q \in Players, th'[p].m = matchEntries[q]
        PROVE  Quiet(p)
    <3>1. th'[p].m <= created
      BY <2>3 DEF IInv, NumbersAreFresh
    <3>2. \A r \in Players : Unborn(r) => th'[p].m # th[r].m
      BY <2>3 DEF IInv, NumbersAreFresh, Untouched
    <3>3. \A m \in Matches : /\ ~Founding(p, m)' /\ ~Answering(p, m)' /\ ~CountingOn(p, m)'
                             /\ ~Accepting(p, m)' /\ ~Dismissing(p, m)'
                             /\ ~Declining(p, m)' /\ ~Declining(p, m)
      BY <2>1, <2>3
         DEF Founding, Answering, CountingOn, Accepting, Dismissing, Declining, Counting, Ending
    <3>4. ~Unborn(p)'
      BY <2>3 DEF Unborn
    <3> QED BY <2>1, <2>3, <3>1, <3>2, <3>3, <3>4, QuietStep
  <2> QED BY <1>0, <1>3, <2>2, <2>3, ReenableMoves DEF TInv
<1>4. ASSUME CreateDrop(p) PROVE Quiet(p)
  <2>1. th[p].pc = "drop" /\ Undecided
    BY <1>4 DEF CreateDrop, Undecided
  <2> QED BY <1>0, <1>4, <2>1, StepMoves, QuietGo DEF Counting, Ending
<1> QED BY <1>1, <1>2, <1>3, <1>4

LEMMA QuietAnswers ==
  ASSUME IInv, NEW p \in Players
  PROVE  /\ \A op \in {"accept", "deny", "dismiss"} : CallAnswer(p, op) => Quiet(p)
         /\ AnswerPool(p) => Quiet(p)
         /\ AnswerInactive(p) => Quiet(p)
         /\ DisposePool(p) => Quiet(p)
         /\ DisposeRemove(p) => Quiet(p)
         /\ End(p) => Quiet(p)
<1> USE DEF shared, history
<1>0. TInv
  BY DEF IInv
<1>1. ASSUME NEW op \in {"accept", "deny", "dismiss"}, CallAnswer(p, op) PROVE Quiet(p)
  <2>1. th[p].pc = "idle" /\ Undecided
    BY <1>1 DEF CallAnswer, Undecided
  <2>2. Moves(p) /\ th'[p].op = op /\ th'[p].pc = "pool" /\ th'[p].m = NoMatch
    BY <1>0, <1>1, AnswerMoves DEF TInv, Calls
  <2> QED BY <1>1, <2>1, <2>2, QuietLeave DEF Ending
<1>2. ASSUME AnswerPool(p) PROVE Quiet(p)
  <2>1. th[p].pc = "pool" /\ th[p].op # "create" /\ Undecided
    BY <1>2 DEF AnswerPool, Undecided
  <2>2. CASE GoesIdle(p)
    BY <2>1, <2>2, IdleIsLocal, QuietLeave DEF GoesIdle, Ending
  <2>3. CASE GoesTo(p, "get")
    BY <2>1, <2>3, QuietGo DEF Counting, Ending
  <2> QED BY <1>0, <1>2, <2>2, <2>3, StepMoves
<1>3. ASSUME AnswerInactive(p) PROVE Quiet(p)
  <2>1. th[p].pc = "sync" /\ Undecided
    BY <1>3 DEF AnswerInactive, Undecided
  <2> QED BY <1>0, <1>3, <2>1, StepMoves, QuietGo DEF Counting, Ending
<1>4. ASSUME DisposePool(p) PROVE Quiet(p)
  <2>1. th[p].pc = "dispose" /\ Undecided
    BY <1>4 DEF DisposePool, PoolNext, PoolFails, PoolDone, Undecided
  <2> QED BY <1>0, <1>4, <2>1, StepMoves, QuietGo DEF Counting, Ending
<1>5. ASSUME DisposeRemove(p) PROVE Quiet(p)
  <2>1. th[p].pc = "remove" /\ Undecided
    BY <1>5 DEF DisposeRemove, Undecided
  <2> QED BY <1>0, <1>5, <2>1, StepMoves, QuietGo DEF Counting, Ending
<1>6. ASSUME End(p) PROVE Quiet(p)
  <2>1. th[p].pc = "end" /\ Undecided
    BY <1>6 DEF End, Undecided
  <2> QED BY <1>0, <1>6, <2>1, StepMoves, IdleIsLocal, QuietLeave DEF GoesIdle, Ending
<1> QED BY <1>1, <1>2, <1>3, <1>4, <1>5, <1>6

-----------------------------------------------------------------------------
(* The steps that decide something, each of the match the thread is on.    *)

\* A step of p's thread that changes no match but n, and hands out n at most.
OnlyAt(n) ==
    /\ created' = created
    /\ \A m \in Matches \ {n} :
          /\ match'[m] = match[m] /\ outcome'[m] = outcome[m]
          /\ refused'[m] = refused[m] /\ withdrawn'[m] = withdrawn[m]
          /\ m \in overlapped' <=> m \in overlapped
    /\ \A q \in Players : matchEntries'[q] \in {matchEntries[q], NoMatch, n}

LEMMA DecisionKeeps ==
  ASSUME IInv, NEW p \in Players, NEW n \in Matches, th[p].m = n, NEW pc, GoesTo(p, pc),
         OnlyAt(n), pc \notin {"pool", "check", "put"}, Settled(n)'
  PROVE  (NumbersAreFresh /\ \A m \in Matches : Settled(m))'
<1>1. Moves(p) /\ th'[p].op = th[p].op /\ th'[p].m = n /\ th'[p].pc = pc
  BY DEF GoesTo
<1>2. n <= created /\ \A q \in Players \ {p} : Unborn(q) => n # th[q].m
  BY DEF IInv, NumbersAreFresh, On
<1>3. \A q \in Players, m \in Matches \ {n} : matchEntries'[q] = m => matchEntries[q] = m
  BY DEF OnlyAt, NoMatch, Matches
<1>4. \A q \in Players : matchEntries'[q] <= created
  BY <1>2, BoundsAssumption DEF OnlyAt, IInv, NumbersAreFresh, NoMatch, TInv, TypeOK
<1>5. \A m \in Matches \ {n} : Untouched(m) => Untouched(m)'
  BY <1>3 DEF OnlyAt, Untouched
<1>6. ~Unborn(p)'
  BY <1>1 DEF Unborn
<1>7. NumbersAreFresh'
  <2>1. Apart(p)
    BY <1>1, <1>2, <1>4, <1>5, <1>6 DEF Apart, OnlyAt
  <2> QED BY <2>1, ApartKeeps DEF IInv
<1>8. ASSUME NEW m \in Matches \ {n} PROVE Settled(m)'
  <2>1. QuietAt(p, m)
    BY <1>1, <1>3
       DEF OnlyAt, QuietAt, On, Founding, Answering, CountingOn, Accepting, Dismissing, Declining
  <2> QED BY <1>1, <2>1, QuietAtKeeps DEF IInv
<1> QED BY <1>7, <1>8 DEF Matches

\* The number of a new match is nobody else's.
LEMMA CallCreateKeeps ==
  ASSUME IInv, NEW p \in Players, NEW S \in SUBSET Players, CallCreate(p, S)
  PROVE  (NumbersAreFresh /\ \A m \in Matches : Settled(m))'
<1>1. /\ th[p].pc = "idle" /\ created' = created + 1
      /\ UNCHANGED <<match, matchEntries, overlapped, outcome, refused, withdrawn>>
  BY DEF CallCreate, shared, history
<1>2. Moves(p) /\ th'[p].op = "create" /\ th'[p].pc = "pool" /\ th'[p].m = created + 1
  BY CreateMoves DEF IInv, TInv
<1>3. created \in Nat /\ created + 1 \in Matches
  BY BoundsAssumption DEF CallCreate, IInv, TInv, TypeOK, Matches
<1>4. ASSUME NEW m \in Matches PROVE Settled(m)'
  <2>1. QuietAt(p, m)
    BY <1>1, <1>2
       DEF QuietAt, On, Founding, Answering, CountingOn, Accepting, Dismissing, Declining,
           Counting, Ending
  <2> QED BY <1>2, <2>1, QuietAtKeeps DEF IInv
<1>5. \A m \in Matches : Untouched(m) => Untouched(m)'
  BY <1>1 DEF Untouched
<1>6. \A q \in Players : /\ th[q].m \in Nat /\ th[q].m <= created
                         /\ matchEntries[q] \in Nat /\ matchEntries[q] <= created
  <2>1. {NoMatch} \union Matches \subseteq Nat
    BY BoundsAssumption DEF NoMatch, Matches
  <2> QED BY <2>1 DEF IInv, NumbersAreFresh, TInv, TypeOK, Locals
<1>7. \A q \in Players : th'[q].m <= created' /\ matchEntries'[q] <= created'
  <2>1. \A q \in Players : th'[q].m = th[q].m \/ th'[q].m = created + 1
    BY <1>2 DEF Moves
  <2> QED BY <1>1, <1>3, <1>6, <2>1
<1>8. \A m \in Matches : m > created => Untouched(m)'
  BY <1>5 DEF IInv, NumbersAreFresh
<1>9. ASSUME NEW q \in Players, Unborn(q)'
      PROVE  Untouched(th[q].m)' /\ \A r \in Players \ {q} : ~On(r, th[q].m)'
  <2>1. CASE q = p
    <3>1. \A m \in Matches : m = created + 1 => Untouched(m)'
      BY <1>3, <1>8
    <3>2. \A r \in Players \ {q} : th'[r].m # created + 1
      BY <1>2, <1>3, <1>6, <2>1 DEF Moves
    <3> QED BY <1>2, <1>3, <2>1, <3>1, <3>2 DEF Untouched, On
  <2>2. CASE q # p
    <3>1. Unborn(q) /\ th'[q].m = th[q].m /\ th[q].m # created + 1
      BY <1>2, <1>3, <1>6, <1>9, <2>2, OthersStay
    <3>2. th[q].m \in Matches /\ Untouched(th[q].m) /\ \A r \in Players \ {q} : th[r].m # th[q].m
      BY <3>1 DEF IInv, NumbersAreFresh, TInv, WorksOnMatch, Unborn, On
    <3>3. \A m \in Matches : m = th[q].m => Untouched(m)'
      BY <1>5, <3>2
    <3>4. Untouched(th[q].m)'
      BY <3>1, <3>2, <3>3 DEF Untouched
    <3>5. \A r \in Players \ {q} : th'[r].m # th[q].m
      BY <1>2, <3>1, <3>2 DEF Moves
    <3> QED BY <3>1, <3>4, <3>5 DEF On
  <2> QED BY <2>1, <2>2
<1>10. \A m \in Matches : m > created' => m > created
  BY <1>1, <1>3, BoundsAssumption DEF Matches
<1> QED BY <1>4, <1>7, <1>8, <1>9, <1>10 DEF NumbersAreFresh, Matches

\* The element that a thread gets hold of is one it is asked about.
LEMMA AnswerGetKeeps ==
  ASSUME IInv, NEW p \in Players, AnswerGet(p)
  PROVE  (NumbersAreFresh /\ \A m \in Matches : Settled(m))'
<1>1. th[p].pc = "get" /\ Undecided
  BY DEF AnswerGet, Undecided, history
<1>2. CASE GoesTo(p, "pool")
  <2>1. th[p].op # "create"
    BY <1>1 DEF IInv, TInv, PlacesFit
  <2> QED BY <1>1, <1>2, <2>1, QuietGo, QuietKeeps DEF Counting, Ending
<1>3. CASE /\ Moves(p) /\ th'[p].op = th[p].op /\ th'[p].pc = "sync"
           /\ th'[p].m = matchEntries[p] /\ matchEntries[p] \in Matches
  <2>1. matchEntries' = matchEntries
    BY DEF AnswerGet
  <2>2. \A q \in Players : Unborn(q) => th'[p].m # th[q].m
    BY <1>3 DEF IInv, NumbersAreFresh, Untouched
  <2>3. \A m \in Matches : Untouched(m) => Untouched(m)'
    BY <1>1, <2>1 DEF Undecided, Untouched
  <2>4. ~Unborn(p)'
    BY <1>3 DEF Unborn
  <2>5. NumbersAreFresh'
    <3>1. Apart(p)
      BY <1>1, <1>3, <2>1, <2>2, <2>3, <2>4 DEF Apart, Undecided, IInv, NumbersAreFresh
    <3> QED BY <3>1, ApartKeeps DEF IInv
  <2>6. \A m \in Matches : /\ ~Founding(p, m)' /\ ~CountingOn(p, m)' /\ ~Accepting(p, m)'
                           /\ ~Dismissing(p, m)' /\ ~Declining(p, m)' /\ ~Declining(p, m)
                           /\ Answering(p, m)' => matchEntries[p] = m
    BY <1>1, <1>3 DEF On, Founding, Answering, CountingOn, Accepting, Dismissing, Declining,
                      Counting, Ending
  <2>7. ASSUME NEW m \in Matches PROVE Settled(m)'
    <3>1. CASE m # matchEntries[p]
      <4>1. QuietAt(p, m)
        BY <1>1, <2>1, <2>6, <3>1 DEF QuietAt, Undecided
      <4> QED BY <1>3, <4>1, QuietAtKeeps DEF IInv
    <3>2. CASE m = matchEntries[p]
      <4>1. Settled(m)
        BY DEF IInv
      <4>2. ASSUME NEW q \in Players
            PROVE  /\ Founding(q, m)' => Founding(q, m)
                   /\ CountingOn(q, m)' => CountingOn(q, m) /\ q # p
                   /\ Accepting(q, m)' => Accepting(q, m)
                   /\ Dismissing(q, m)' => Dismissing(q, m)
                   /\ Declining(q, m)' <=> Declining(q, m)
                   /\ Answering(q, m)' => Answering(q, m) \/ matchEntries[q] = m
        BY <1>3, <2>6, OthersStay
      <4>3. UNCHANGED <<match, overlapped, outcome, refused, withdrawn>>
        BY <1>1 DEF Undecided
      <4>4. MembersAnswer(m)'
        BY <2>1, <4>1, <4>2, <4>3 DEF Settled, MembersAnswer
      <4>5. CountsAcceptances(m)' /\ CompletedByAll(m)' /\ CompletedOnce(m)'
        <5>1. \A q \in Players : th'[q].pc = "count" =>
                  q # p /\ th[q].pc = "count" /\ th'[q].seen = th[q].seen /\ th'[q].m = th[q].m
          BY <1>3, OthersStay
        <5>2. CountsAcceptances(m)'
          BY <4>1, <4>2, <4>3, <5>1 DEF Settled, CountsAcceptances, On
        <5> QED BY <4>1, <4>2, <4>3, <5>2 DEF Settled, CompletedByAll, CompletedOnce
      <4>6. DismissedOnce(m)'
        BY <4>1, <4>2, <4>3 DEF Settled, DismissedOnce
      <4>7. match[m].members \in SUBSET Players /\ refused[m] \in SUBSET Players
        BY DEF IInv, TInv, TypeOK, Element
      <4>8. DismissedIsIncomplete(m)'
        BY <4>1, <4>2, <4>3, <4>7 DEF Settled, DismissedIsIncomplete
      <4>9. p \notin refused[m]
        BY <2>6, <3>2, <4>1 DEF Settled, RefusedIsIncomplete
      <4>10. RefusedIsIncomplete(m)'
        BY <1>3, <2>1, <4>1, <4>2, <4>3, <4>7, <4>9, OthersStay DEF Settled, RefusedIsIncomplete
      <4> QED BY <4>4, <4>5, <4>6, <4>8, <4>10 DEF Settled
    <3> QED BY <3>1, <3>2
  <2> QED BY <2>5, <2>7 DEF Matches
<1> QED BY <1>2, <1>3, GetMoves DEF IInv, TInv

\* What the other threads do about m stays what it was.
LEMMA OthersDecide ==
  ASSUME NEW p \in Players, Moves(p), NEW m
  PROVE  \A q \in Players \ {p} :
            /\ Founding(q, m)' <=> Founding(q, m)
            /\ Answering(q, m)' <=> Answering(q, m)
            /\ CountingOn(q, m)' <=> CountingOn(q, m)
            /\ Accepting(q, m)' <=> Accepting(q, m)
            /\ Dismissing(q, m)' <=> Dismissing(q, m)
            /\ Declining(q, m)' <=> Declining(q, m)
BY OthersStay

\* A step that counts nothing and leaves the elements' acceptances alone.
LEMMA CountsStay ==
  ASSUME NEW p \in Players, Moves(p), NEW m, CountsAcceptances(m), ~CountingOn(p, m)',
         /\ match'[m].counted = match[m].counted /\ match'[m].accepted = match[m].accepted
         /\ match'[m].members = match[m].members
  PROVE  CountsAcceptances(m)'
<1>1. \A q \in Players : /\ CountingOn(q, m)' => CountingOn(q, m)
                         /\ On(q, m)' /\ th'[q].pc = "count" =>
                               On(q, m) /\ th[q].pc = "count" /\ th'[q].seen = th[q].seen
  BY OthersStay DEF CountingOn, Counting
<1> QED BY <1>1 DEF CountsAcceptances

\* The element is put where nobody has seen it.
LEMMA CreatePutKeeps ==
  ASSUME IInv, NEW p \in Players, CreatePut(p)
  PROVE  (NumbersAreFresh /\ \A m \in Matches : Settled(m))'
<1>1. /\ th[p].pc = "put" /\ th[p].op = "create" /\ th[p].set \in SUBSET Players
      /\ GoesTo(p, "accept")
  BY StepMoves DEF CreatePut, IInv, TInv, PlacesFit, Creating, TypeOK, Locals
<1>0. PICK n \in Matches : th[p].m = n
  BY <1>1 DEF IInv, TInv, WorksOnMatch
<1>2. Untouched(n) /\ \A q \in Players \ {p} : ~On(q, n)
  BY <1>0, <1>1 DEF IInv, NumbersAreFresh, Unborn
<1>3. /\ match' = [match EXCEPT ![n] =
            [leader |-> {p}, members |-> th[p].set, accepted |-> {}, counted |-> {}, active |-> TRUE]]
      /\ \A q \in Players : matchEntries'[q] = IF q \in th[p].set THEN n ELSE matchEntries[q]
      /\ UNCHANGED <<created, overlapped, outcome, refused, withdrawn>>
  BY <1>0 DEF CreatePut, history
<1>4. Moves(p) /\ th'[p].op = "create" /\ th'[p].pc = "accept"
  BY <1>1 DEF GoesTo
<1>5. /\ match'[n].members = th[p].set /\ match'[n].active
      /\ match'[n].accepted = {} /\ match'[n].counted = {}
  BY <1>1, <1>3 DEF IInv, TInv, TypeOK
<1>6. \A q \in Players : /\ ~Answering(q, n)' /\ ~CountingOn(q, n)' /\ ~Accepting(q, n)'
                         /\ ~Dismissing(q, n)' /\ ~Declining(q, n)'
  <2>1. \A q \in Players \ {p} : /\ ~Answering(q, n) /\ ~CountingOn(q, n) /\ ~Accepting(q, n)
                                 /\ ~Dismissing(q, n) /\ ~Declining(q, n)
    BY <1>2 DEF Answering, CountingOn, Accepting, Dismissing, Declining
  <2>2. /\ ~Answering(p, n)' /\ ~CountingOn(p, n)' /\ ~Accepting(p, n)'
        /\ ~Dismissing(p, n)' /\ ~Declining(p, n)'
    BY <1>4 DEF Answering, CountingOn, Accepting, Dismissing, Declining, Counting, Ending
  <2> QED BY <1>4, <2>1, <2>2, OthersDecide
<1>7. Settled(n)'
  <2>1. CountsAcceptances(n)'
    BY <1>5, <1>6 DEF CountsAcceptances, CountingOn, Counting
  <2> QED BY <1>2, <1>3, <1>5, <1>6, <2>1
          DEF Untouched, Settled, MembersAnswer, CompletedByAll, CompletedOnce, DismissedOnce,
              DismissedIsIncomplete, RefusedIsIncomplete
<1>8. OnlyAt(n)
  BY <1>3 DEF OnlyAt, IInv, TInv, TypeOK
<1> QED BY <1>0, <1>1, <1>7, <1>8, DecisionKeeps

\* A step of a thread that is counting changes nothing but what it accepts and counts.
LEMMA CountingStep ==
  ASSUME IInv, NEW p \in Players, NEW n \in Matches, th[p].m = n, NEW pc \in Counting,
         GoesTo(p, pc), th[p].op \in {"create", "accept"},
         UNCHANGED <<created, matchEntries, outcome, refused, withdrawn>>,
         match'[n].members = match[n].members, match'[n].active = match[n].active,
         match[n].accepted \subseteq match'[n].accepted,
         match'[n].accepted \subseteq match[n].accepted \union {p},
         match'[n].accepted # match[n].accepted =>
             /\ p \in match[n].members
             /\ Founding(p, n) \/ (Answering(p, n) /\ match[n].active),
         \A m \in Matches \ {n} : match'[m] = match[m] /\ (m \in overlapped' <=> m \in overlapped),
         CountsAcceptances(n)', CompletedOnce(n)'
  PROVE  (NumbersAreFresh /\ \A m \in Matches : Settled(m))'
<1>1. Moves(p) /\ th'[p].op = th[p].op /\ th'[p].m = n /\ th'[p].pc = pc
  BY DEF GoesTo
<1>2. /\ ~Founding(p, n)' /\ ~Answering(p, n)' /\ ~Dismissing(p, n)' /\ ~Declining(p, n)'
      /\ ~Accepting(p, n)' /\ ~Declining(p, n)
  BY <1>1 DEF Founding, Answering, Dismissing, Declining, Accepting, Counting, Ending
<1>3. Settled(n) /\ match[n].members \in SUBSET Players /\ refused[n] \in SUBSET Players
  BY DEF IInv, TInv, TypeOK, Element
<1>4. \A q \in Players \ {p} : /\ Founding(q, n)' <=> Founding(q, n)
                               /\ Answering(q, n)' <=> Answering(q, n)
                               /\ CountingOn(q, n)' <=> CountingOn(q, n)
                               /\ Accepting(q, n)' <=> Accepting(q, n)
                               /\ Dismissing(q, n)' <=> Dismissing(q, n)
                               /\ Declining(q, n)' <=> Declining(q, n)
  BY <1>1, OthersDecide
<1>5. MembersAnswer(n)'
  BY <1>2, <1>3, <1>4 DEF Settled, MembersAnswer
<1>6. CompletedByAll(n)'
  <2>1. match[n].accepted = match[n].members => match'[n].accepted = match'[n].members
    BY <1>3 DEF Settled, CountsAcceptances
  <2> QED BY <1>2, <1>3, <1>4, <2>1 DEF Settled, CompletedByAll
<1>7. DismissedOnce(n)'
  BY <1>2, <1>3, <1>4 DEF Settled, DismissedOnce
<1>8. DismissedIsIncomplete(n)'
  <2>1. SUFFICES ASSUME ~match[n].active, withdrawn[n] = {}
                 PROVE  \E r \in match'[n].members \ match'[n].accepted : ~Founding(r, n)'
    BY DEF DismissedIsIncomplete
  <2>2. PICK r \in match[n].members \ match[n].accepted : ~Founding(r, n)
    BY <1>3, <2>1 DEF Settled, DismissedIsIncomplete
  <2>3. r \in match'[n].members \ match'[n].accepted
    BY <2>1, <2>2
  <2> QED BY <1>2, <1>3, <1>4, <2>2, <2>3
<1>9. RefusedIsIncomplete(n)'
  <2>1. \A q \in refused[n] : q \notin match'[n].accepted
    BY <1>3 DEF Settled, RefusedIsIncomplete
  <2> QED BY <1>2, <1>3, <1>4, <2>1 DEF Settled, RefusedIsIncomplete
<1>10. Settled(n)'
  BY <1>5, <1>6, <1>7, <1>8, <1>9 DEF Settled
<1>11. OnlyAt(n)
  BY DEF OnlyAt
<1>12. pc \notin {"pool", "check", "put"}
  BY DEF Counting
<1> QED BY <1>10, <1>11, <1>12, DecisionKeeps

\* An acceptance is new, and beside no other but where one of them is the leader's.
LEMMA AcceptKeeps ==
  ASSUME IInv, NEW p \in Players, CreateAccept(p) \/ AnswerAccept(p)
  PROVE  (NumbersAreFresh /\ \A m \in Matches : Settled(m))'
<1>0. PICK n \in Matches : th[p].m = n
  BY AcceptMoves DEF IInv
<1>1. /\ UNCHANGED <<created, matchEntries, outcome, refused, withdrawn>>
      /\ th[p].op \in {"create", "accept"}
      /\ Founding(p, n) \/ (Answering(p, n) /\ match[n].active)
      /\ th[p].op # "create" => monitor[n] = {}
  <2>1. th[p].pc = "accept" => th[p].op = "create"
    BY DEF IInv, TInv, PlacesFit, Creating
  <2>2. CASE CreateAccept(p)
    BY <1>0, <2>1, <2>2 DEF CreateAccept, Founding, On
  <2>3. CASE AnswerAccept(p)
    BY <1>0, <2>3 DEF AnswerAccept, MonitorFree, Answering, On
  <2> QED BY <2>2, <2>3
<1>2. CASE SkipAccept(p) /\ GoesTo(p, "end")
  <2>1. Undecided
    BY <1>1, <1>2 DEF SkipAccept, Undecided
  <2>2. th[p].pc \in {"accept", "sync"}
    BY DEF CreateAccept, AnswerAccept
  <2> QED BY <1>2, <2>1, <2>2, QuietGo, QuietKeeps DEF Counting, Ending
<1>3. CASE IsNew(p, n) /\ SetAccept(p, n) /\ GoesTo(p, "read")
  <2>1. /\ match'[n].members = match[n].members /\ match'[n].active = match[n].active
        /\ match'[n].counted = match[n].counted
        /\ match'[n].accepted = match[n].accepted \union {p}
        /\ \A m \in Matches \ {n} : match'[m] = match[m]
    BY <1>3, Accepts DEF SetAccept, IInv, TInv
  <2>2. Moves(p) /\ th'[p].op = th[p].op /\ th'[p].m = n /\ th'[p].pc = "read"
    BY <1>0, <1>3 DEF GoesTo
  <2>3. Settled(n) /\ p \in match[n].members /\ p \notin match[n].accepted
    BY <1>3 DEF IInv, IsNew
  <2>4. \A q \in Players \ {p} : /\ CountingOn(q, n)' <=> CountingOn(q, n)
                                 /\ Accepting(q, n)' <=> Accepting(q, n)
                                 /\ On(q, n)' <=> On(q, n)
                                 /\ th'[q].pc = th[q].pc /\ th'[q].seen = th[q].seen
    BY <2>2, OthersStay
  <2>5. CountsAcceptances(n)'
    BY <2>1, <2>2, <2>3, <2>4 DEF Settled, CountsAcceptances, CountingOn, On
  <2>6. CompletedOnce(n)'
    <3>1. SUFFICES ASSUME n \notin overlapped' PROVE CompletedOnce(n)'
      BY DEF CompletedOnce
    <3>2. /\ n \notin overlapped
          /\ \A q \in Players \ {p} : CountingOn(q, n) => "create" \notin {th[p].op, th[q].op}
      BY <1>3, <3>1 DEF SetAccept, CountingOn, On
    <3>3. \A q \in Players \ {p} : ~CountingOn(q, n)
      <4>1. SUFFICES ASSUME NEW q \in Players \ {p}, CountingOn(q, n) PROVE FALSE
        OBVIOUS
      <4>2. Inmost(q) /\ th[q].m = n /\ th[p].op # "create"
        BY <3>2, <4>1 DEF Inmost, CountingOn, On, IInv, TInv, PlacesFit
      <4> QED BY <1>1, <4>2 DEF IInv, Synchronized
    <3>4. outcome[n]["accepted"] = 0 /\ \A q \in Players : ~Accepting(q, n)
      <4>1. outcome[n]["accepted"] \in 0..2
        BY DEF IInv, TInv, TypeOK, Results
      <4> QED BY <2>3, <4>1 DEF Settled, CompletedByAll
    <3>5. ~Accepting(p, n)'
      BY <2>2 DEF Accepting, Ending
    <3> QED BY <1>1, <2>4, <3>3, <3>4, <3>5 DEF CompletedOnce
  <2>7. \A m \in Matches \ {n} : m \in overlapped' <=> m \in overlapped
    BY <1>3 DEF SetAccept
  <2> QED BY <1>0, <1>1, <1>3, <2>1, <2>3, <2>5, <2>6, <2>7, CountingStep DEF Counting
<1> QED BY <1>0, <1>2, <1>3, AcceptMoves DEF IInv

\* What it adds to is what others that accepted have counted.
LEMMA CountReadKeeps ==
  ASSUME IInv, NEW p \in Players, CountRead(p)
  PROVE  (NumbersAreFresh /\ \A m \in Matches : Settled(m))'
<1>1. /\ th[p].pc = "read" /\ GoesTo(p, "count") /\ th'[p].seen = match[th[p].m].counted
      /\ UNCHANGED <<match, created, matchEntries, overlapped, outcome, refused, withdrawn>>
  BY StepMoves DEF CountRead, IInv, shared, history
<1>0. PICK n \in Matches : th[p].m = n
  BY <1>1 DEF IInv, TInv, WorksOnMatch, Counting
<1>2. /\ Moves(p) /\ th'[p].m = n /\ th'[p].pc = "count" /\ th'[p].seen = match[n].counted
      /\ CountingOn(p, n) /\ CountingOn(p, n)' /\ ~Accepting(p, n)'
  BY <1>0, <1>1 DEF GoesTo, CountingOn, Accepting, On, Counting, Ending
<1>3. Settled(n) /\ th[p].op \in {"create", "accept"}
  BY <1>1 DEF IInv, TInv, PlacesFit, Counting
<1>4. \A q \in Players \ {p} : /\ CountingOn(q, n)' <=> CountingOn(q, n)
                               /\ Accepting(q, n)' <=> Accepting(q, n)
                               /\ On(q, n)' <=> On(q, n)
                               /\ th'[q].pc = th[q].pc /\ th'[q].seen = th[q].seen
  BY <1>2, OthersStay
<1>5. CountsAcceptances(n)'
  BY <1>1, <1>2, <1>3, <1>4 DEF Settled, CountsAcceptances
<1>6. CompletedOnce(n)'
  BY <1>1, <1>2, <1>3, <1>4 DEF Settled, CompletedOnce
<1> QED BY <1>0, <1>1, <1>3, <1>5, <1>6, CountingStep DEF Counting

\* The one that counts has accepted.
LEMMA CountWriteKeeps ==
  ASSUME IInv, NEW p \in Players, CountWrite(p)
  PROVE  (NumbersAreFresh /\ \A m \in Matches : Settled(m))'
<1>1. /\ th[p].pc = "count" /\ GoesTo(p, "compare")
      /\ UNCHANGED <<created, matchEntries, overlapped, outcome, refused, withdrawn>>
  BY StepMoves DEF CountWrite, IInv, history
<1>0. PICK n \in Matches : th[p].m = n
  BY <1>1 DEF IInv, TInv, WorksOnMatch, Counting
<1>7. /\ match'[n].members = match[n].members /\ match'[n].active = match[n].active
      /\ match'[n].counted = th[p].seen \union {p}
      /\ match'[n].accepted = match[n].accepted
      /\ \A m \in Matches \ {n} : match'[m] = match[m]
  <2>1. th[p].seen \union {p} \in SUBSET Players
    BY DEF IInv, TInv, TypeOK, Locals
  <2> QED BY <1>0, <2>1, Counts DEF CountWrite, IInv, TInv
<1>2. /\ Moves(p) /\ th'[p].m = n /\ th'[p].pc = "compare" /\ On(p, n)
      /\ CountingOn(p, n) /\ CountingOn(p, n)' /\ ~Accepting(p, n)'
  BY <1>0, <1>1 DEF GoesTo, CountingOn, Accepting, On, Counting, Ending
<1>3. Settled(n) /\ th[p].op \in {"create", "accept"}
  BY <1>1 DEF IInv, TInv, PlacesFit, Counting
<1>4. \A q \in Players \ {p} : /\ CountingOn(q, n)' <=> CountingOn(q, n)
                               /\ Accepting(q, n)' <=> Accepting(q, n)
                               /\ On(q, n)' <=> On(q, n)
                               /\ th'[q].pc = th[q].pc /\ th'[q].seen = th[q].seen
  BY <1>2, OthersStay
<1>5. CountsAcceptances(n)'
  <2>1. th[p].seen \union {p} \subseteq match[n].accepted
    BY <1>1, <1>2, <1>3 DEF Settled, CountsAcceptances
  <2> QED BY <1>2, <1>3, <1>4, <1>7, <2>1 DEF Settled, CountsAcceptances
<1>6. CompletedOnce(n)'
  BY <1>1, <1>2, <1>3, <1>4, <1>7 DEF Settled, CompletedOnce
<1> QED BY <1>0, <1>1, <1>3, <1>5, <1>6, <1>7, CountingStep DEF Counting

\* The thread that completes the match is the one that counts; any other leaves.
LEMMA CountCompareKeeps ==
  ASSUME IInv, NEW p \in Players, CountCompare(p)
  PROVE  (NumbersAreFresh /\ \A m \in Matches : Settled(m))'
<1>1. /\ th[p].pc = "compare" /\ GoesTo(p, IF Complete(th[p].m) THEN "dispose" ELSE "end")
      /\ UNCHANGED <<match, created, matchEntries, overlapped, outcome, refused, withdrawn>>
  BY StepMoves DEF CountCompare, IInv, history
<1>0. PICK n \in Matches : th[p].m = n
  BY <1>1 DEF IInv, TInv, WorksOnMatch, Counting
<1>2. CASE ~Complete(n)
  <2>1. Undecided /\ GoesTo(p, "end")
    BY <1>0, <1>1, <1>2 DEF Undecided
  <2> QED BY <1>1, <2>1, QuietGo, QuietKeeps DEF Counting, Ending
<1>3. CASE Complete(n)
  <2>1. GoesTo(p, "dispose") /\ th[p].op \in {"create", "accept"}
    BY <1>0, <1>1, <1>3 DEF IInv, TInv, PlacesFit, Counting
  <2>2. /\ Moves(p) /\ th'[p].m = n /\ th'[p].pc = "dispose" /\ th'[p].op \in {"create", "accept"}
        /\ CountingOn(p, n) /\ ~CountingOn(p, n)' /\ Accepting(p, n)'
    BY <1>0, <1>1, <2>1 DEF GoesTo, CountingOn, Accepting, On, Counting, Ending
  <2>3. Settled(n) /\ match[n].members \in SUBSET Players /\ refused[n] \in SUBSET Players
    BY DEF IInv, TInv, TypeOK, Element
  <2>4. \A q \in Players \ {p} : /\ Founding(q, n)' <=> Founding(q, n)
                                 /\ Answering(q, n)' <=> Answering(q, n)
                                 /\ CountingOn(q, n)' <=> CountingOn(q, n)
                                 /\ Accepting(q, n)' <=> Accepting(q, n)
                                 /\ Dismissing(q, n)' <=> Dismissing(q, n)
                                 /\ Declining(q, n)' <=> Declining(q, n)
    BY <2>2, OthersDecide
  <2>5. /\ ~Founding(p, n)' /\ ~Answering(p, n)' /\ ~Dismissing(p, n)' /\ ~Declining(p, n)'
        /\ ~Declining(p, n)
    BY <1>1, <2>2 DEF Founding, Answering, Dismissing, Declining, Ending
  <2>6. MembersAnswer(n)'
    BY <1>1, <2>3, <2>4, <2>5 DEF Settled, MembersAnswer
  <2>7. CountsAcceptances(n)'
    BY <1>1, <2>2, <2>3, CountsStay DEF Settled
  <2>8. CompletedByAll(n)'
    <3>1. match[n].accepted = match[n].members
      BY <1>3, <2>3 DEF Complete, Settled, CountsAcceptances
    <3> QED BY <1>1, <3>1 DEF CompletedByAll
  <2>9. CompletedOnce(n)'
    BY <1>1, <2>2, <2>3, <2>4 DEF Settled, CompletedOnce
  <2>10. DismissedOnce(n)'
    BY <1>1, <2>3, <2>4, <2>5 DEF Settled, DismissedOnce
  <2>11. DismissedIsIncomplete(n)'
    BY <1>1, <2>3, <2>4, <2>5 DEF Settled, DismissedIsIncomplete
  <2>12. RefusedIsIncomplete(n)'
    BY <1>1, <2>3, <2>4, <2>5 DEF Settled, RefusedIsIncomplete
  <2>13. Settled(n)'
    BY <2>6, <2>7, <2>8, <2>9, <2>10, <2>11, <2>12 DEF Settled
  <2>14. OnlyAt(n)
    BY <1>1 DEF OnlyAt
  <2> QED BY <1>0, <2>1, <2>13, <2>14, DecisionKeeps
<1> QED BY <1>2, <1>3

-----------------------------------------------------------------------------
(* The monitor of a match.                                                 *)

\* p keeps the monitor it has, if any; it takes none.
KeepsMonitor(p) ==
    /\ monitor' = monitor \/ monitor' = [monitor EXCEPT ![th[p].m] = @ \ {p}]
    /\ Inmost(p)' => Inmost(p) /\ th'[p].m = th[p].m /\ monitor' = monitor

LEMMA KeptMonitor ==
  ASSUME TInv, Synchronized, NEW p \in Players, Moves(p), KeepsMonitor(p)
  PROVE  Synchronized'
<1>1. SUFFICES ASSUME NEW q \in Players, Inmost(q)' PROVE monitor'[th'[q].m] = {q}
  BY DEF Synchronized
<1>2. CASE q = p
  BY <1>1, <1>2 DEF KeepsMonitor, Synchronized
<1>3. CASE q # p
  <2>1. Inmost(q) /\ th'[q].m = th[q].m
    BY <1>1, <1>3 DEF Moves, Inmost
  <2>2. monitor[th[q].m] = {q} /\ th[q].m \in Matches
    BY <2>1 DEF Synchronized, Inmost, TInv, WorksOnMatch
  <2>3. monitor \in [Matches -> SUBSET Players]
    BY DEF TInv, TypeOK
  <2> QED BY <1>3, <2>1, <2>2, <2>3 DEF KeepsMonitor
<1> QED BY <1>2, <1>3

LEMMA TakenMonitor ==
  ASSUME TInv, Synchronized, NEW p \in Players, Moves(p), th[p].m \in Matches,
         th'[p].m = th[p].m, MonitorFree(th[p].m), Enter(th[p].m, p)
  PROVE  Synchronized'
<1>1. monitor \in [Matches -> SUBSET Players]
  BY DEF TInv, TypeOK
<1>2. SUFFICES ASSUME NEW q \in Players, Inmost(q)' PROVE monitor'[th'[q].m] = {q}
  BY DEF Synchronized
<1>3. CASE q = p
  BY <1>1, <1>3 DEF Enter
<1>4. CASE q # p
  <2>1. Inmost(q) /\ th'[q].m = th[q].m
    BY <1>2, <1>4 DEF Moves, Inmost
  <2>2. monitor[th[q].m] = {q} /\ th[q].m # th[p].m
    BY <2>1 DEF Synchronized, MonitorFree
  <2> QED BY <1>1, <2>1, <2>2 DEF Enter
<1> QED BY <1>3, <1>4

\* The steps that do not touch the monitor, and end where they began or outside.
LEMMA KeepingSteps ==
  ASSUME TInv, NEW p \in Players, Moves(p), monitor' = monitor,
         \/ th'[p].pc \notin Counting \union Ending
         \/ Inmost(p)' => Inmost(p) /\ th'[p].m = th[p].m
  PROVE  KeepsMonitor(p)
BY DEF KeepsMonitor, Inmost

LEMMA StepSynchronized == TInv /\ Synchronized /\ [Next]_vars => Synchronized'
<1> SUFFICES ASSUME TInv, Synchronized, [Next]_vars PROVE Synchronized'
  OBVIOUS
<1> USE DEF shared
<1>1. CASE UNCHANGED vars
  BY <1>1 DEF vars, Synchronized, Inmost
<1>2. ASSUME NEW p \in Players, Moves(p), monitor' = monitor, th'[p].pc \notin Counting \union Ending
      PROVE  Synchronized'
  BY <1>2, KeepingSteps, KeptMonitor
<1>3. ASSUME NEW p \in Players, NEW pc, GoesTo(p, pc), monitor' = monitor, th[p].pc \in Counting \union Ending
      PROVE  Synchronized'
  <2>1. Moves(p) /\ (Inmost(p)' => Inmost(p) /\ th'[p].m = th[p].m)
    BY <1>3 DEF GoesTo, Inmost
  <2> QED BY <1>3, <2>1, KeepingSteps, KeptMonitor
<1>4. ASSUME NEW p \in Players, Call(p) PROVE Synchronized'
  <2>1. ASSUME NEW S \in SUBSET Players, CallCreate(p, S) PROVE Synchronized'
    BY <1>2, <2>1, CreateMoves DEF CallCreate, TInv, Counting, Ending
  <2>2. ASSUME NEW op \in {"accept", "deny", "dismiss"}, CallAnswer(p, op) PROVE Synchronized'
    BY <1>2, <2>2, AnswerMoves DEF CallAnswer, TInv, Calls, Counting, Ending
  <2> QED BY <1>4, <2>1, <2>2 DEF Call
<1>5. ASSUME NEW p \in Players,
             CreatePool(p) \/ CreateCheck(p) \/ CreatePut(p) \/ CreateReenable(p) \/ CreateDrop(p)
      PROVE  Synchronized'
  <2>1. Moves(p) /\ th'[p].pc \notin Counting \union Ending
    BY <1>5, StepMoves, ReenableMoves, IdleIsLocal DEF TInv, GoesTo, GoesIdle, Counting, Ending
  <2>2. monitor' = monitor
    BY <1>5 DEF CreatePool, CreateCheck, CreatePut, CreateReenable, CreateDrop
  <2> QED BY <1>2, <2>1, <2>2
<1>6. ASSUME NEW p \in Players, AnswerPool(p) \/ AnswerGet(p) \/ AnswerInactive(p) \/ End(p)
      PROVE  Synchronized'
  <2>1. Moves(p) /\ th'[p].pc \notin Counting \union Ending
    BY <1>6, StepMoves, GetMoves, IdleIsLocal DEF TInv, GoesTo, GoesIdle, Counting, Ending
  <2>2. monitor' = monitor
    BY <1>6 DEF AnswerPool, AnswerGet, AnswerInactive, End
  <2> QED BY <1>2, <2>1, <2>2
<1>7. ASSUME NEW p \in Players, CreateAccept(p) PROVE Synchronized'
  <2>1. th[p].op = "create" /\ monitor' = monitor
    BY <1>7 DEF CreateAccept, TInv, PlacesFit, Creating
  <2>2. Moves(p) /\ th'[p].op = "create"
    BY <1>7, <2>1, AcceptMoves DEF GoesTo
  <2> QED BY <2>1, <2>2, KeepingSteps, KeptMonitor DEF Inmost
<1>8. ASSUME NEW p \in Players, AnswerAccept(p) PROVE Synchronized'
  <2>1. CASE IsNew(p, th[p].m)
    BY <1>8, <2>1, AcceptMoves, TakenMonitor DEF AnswerAccept, GoesTo
  <2>2. CASE ~IsNew(p, th[p].m)
    <3>1. GoesTo(p, "end") /\ monitor' = monitor
      BY <1>8, <2>2, AcceptMoves
    <3> QED BY <1>2, <3>1 DEF GoesTo, Counting, Ending
  <2> QED BY <2>1, <2>2
<1>9. ASSUME NEW p \in Players, AnswerDeny(p) \/ AnswerDismiss(p) PROVE Synchronized'
  <2>1. GoesTo(p, "dispose") /\ th[p].m \in Matches
    BY <1>9, StepMoves DEF AnswerDeny, AnswerDismiss, TInv, WorksOnMatch
  <2> QED BY <1>9, <2>1, TakenMonitor DEF AnswerDeny, AnswerDismiss, GoesTo
<1>10. ASSUME NEW p \in Players, CountRead(p) \/ CountWrite(p) \/ DisposePool(p) \/ DisposeRemove(p)
       PROVE  Synchronized'
  <2>1. th[p].pc \in Counting \union Ending /\ monitor' = monitor
    BY <1>10 DEF CountRead, CountWrite, DisposePool, DisposeRemove, PoolNext, PoolFails, PoolDone,
                 Counting, Ending
  <2> QED BY <1>3, <1>10, <2>1, StepMoves
<1>11. ASSUME NEW p \in Players, CountCompare(p) PROVE Synchronized'
  <2>1. CASE Complete(th[p].m)
    <3>1. th[p].pc \in Counting /\ monitor' = monitor
      BY <1>11, <2>1 DEF CountCompare, Counting
    <3> QED BY <1>3, <1>11, <3>1, StepMoves
  <2>2. CASE ~Complete(th[p].m)
    <3>1. GoesTo(p, "end") /\ Leave(th[p].m, p)
      BY <1>11, <2>2, StepMoves DEF CountCompare
    <3>2. Moves(p) /\ KeepsMonitor(p)
      BY <3>1 DEF GoesTo, KeepsMonitor, Leave, Inmost, Counting, Ending
    <3> QED BY <3>2, KeptMonitor
  <2> QED BY <2>1, <2>2
<1>12. ASSUME NEW p \in Players, Dispatch(p) PROVE Synchronized'
  <2>1. GoesTo(p, "end") /\ Leave(th[p].m, p)
    BY <1>12, StepMoves DEF Dispatch
  <2>2. Moves(p) /\ KeepsMonitor(p)
    BY <2>1 DEF GoesTo, KeepsMonitor, Leave, Inmost, Counting, Ending
  <2> QED BY <2>2, KeptMonitor
<1> QED BY <1>1, <1>4, <1>5, <1>6, <1>7, <1>8, <1>9, <1>10, <1>11, <1>12 DEF Next, Step

\* Who refuses before having accepted is inside the call, and leaves it.
LEMMA AnswerDenyKeeps ==
  ASSUME IInv, NEW p \in Players, AnswerDeny(p)
  PROVE  (NumbersAreFresh /\ \A m \in Matches : Settled(m))'
<1>1. th[p].pc = "sync" /\ th[p].op = "deny" /\ GoesTo(p, "dispose")
  BY StepMoves DEF AnswerDeny, IInv
<1>0. PICK n \in Matches : th[p].m = n
  BY <1>1 DEF IInv, TInv, WorksOnMatch
<1>2. /\ match[n].active
      /\ refused' = [refused EXCEPT ![n] = @ \union ({p} \ match[n].accepted)]
      /\ UNCHANGED <<created, match, matchEntries, overlapped, outcome, withdrawn>>
  BY <1>0 DEF AnswerDeny
<1>3. /\ refused'[n] = refused[n] \union ({p} \ match[n].accepted)
      /\ \A m \in Matches \ {n} : refused'[m] = refused[m]
  BY <1>2 DEF IInv, TInv, TypeOK
<1>4. Moves(p) /\ th'[p].op = "deny" /\ th'[p].m = n /\ th'[p].pc = "dispose"
  BY <1>0, <1>1 DEF GoesTo
<1>5. /\ ~Founding(p, n)' /\ ~Answering(p, n)' /\ ~CountingOn(p, n)' /\ ~Accepting(p, n)'
      /\ ~Dismissing(p, n)' /\ Declining(p, n)' /\ Answering(p, n)
  BY <1>0, <1>1, <1>4
     DEF On, Founding, Answering, CountingOn, Dismissing, Declining, Accepting, Counting, Ending
<1>6. Settled(n) /\ refused[n] \in SUBSET Players
  BY DEF IInv, TInv, TypeOK
<1>7. \A q \in Players \ {p} : /\ Founding(q, n)' <=> Founding(q, n)
                               /\ Answering(q, n)' <=> Answering(q, n)
                               /\ CountingOn(q, n)' <=> CountingOn(q, n)
                               /\ Accepting(q, n)' <=> Accepting(q, n)
                               /\ Dismissing(q, n)' <=> Dismissing(q, n)
                               /\ Declining(q, n)' <=> Declining(q, n)
  BY <1>4, OthersDecide
<1>8. MembersAnswer(n)'
  BY <1>2, <1>5, <1>6, <1>7 DEF Settled, MembersAnswer
<1>9. CountsAcceptances(n)' /\ CompletedByAll(n)' /\ CompletedOnce(n)'
  <2>1. CountsAcceptances(n)'
    BY <1>2, <1>4, <1>5, <1>6, CountsStay DEF Settled
  <2> QED BY <1>2, <1>5, <1>6, <1>7, <2>1 DEF Settled, CompletedByAll, CompletedOnce
<1>10. DismissedOnce(n)'
  BY <1>2, <1>5, <1>6, <1>7 DEF Settled, DismissedOnce
<1>11. DismissedIsIncomplete(n)'
  BY <1>2 DEF DismissedIsIncomplete
<1>12. RefusedIsIncomplete(n)'
  <2>1. p \in match[n].members /\ p \notin refused[n]
    BY <1>5, <1>6 DEF Settled, MembersAnswer, RefusedIsIncomplete
  <2> QED BY <1>2, <1>3, <1>5, <1>6, <1>7, <2>1 DEF Settled, RefusedIsIncomplete
<1>13. Settled(n)'
  BY <1>8, <1>9, <1>10, <1>11, <1>12 DEF Settled
<1>14. OnlyAt(n)
  BY <1>2, <1>3 DEF OnlyAt
<1> QED BY <1>0, <1>1, <1>13, <1>14, DecisionKeeps

\* A match is dismissed while it is active, and by a member: one that has not
\* accepted it has no way to any more.
LEMMA AnswerDismissKeeps ==
  ASSUME IInv, NEW p \in Players, AnswerDismiss(p)
  PROVE  (NumbersAreFresh /\ \A m \in Matches : Settled(m))'
<1>1. th[p].pc = "sync" /\ th[p].op = "dismiss" /\ GoesTo(p, "dispose")
  BY StepMoves DEF AnswerDismiss, IInv
<1>0. PICK n \in Matches : th[p].m = n
  BY <1>1 DEF IInv, TInv, WorksOnMatch
<1>2. /\ match[n].active
      /\ match' = [match EXCEPT ![n].active = FALSE]
      /\ withdrawn' = [withdrawn EXCEPT ![n] = @ \union ({p} \intersect match[n].accepted)]
      /\ UNCHANGED <<created, matchEntries, overlapped, outcome, refused>>
  BY <1>0 DEF AnswerDismiss
<1>3. /\ withdrawn'[n] = withdrawn[n] \union ({p} \intersect match[n].accepted)
      /\ \A m \in Matches \ {n} : withdrawn'[m] = withdrawn[m]
  BY <1>2 DEF IInv, TInv, TypeOK
<1>4. /\ match'[n].members = match[n].members /\ match'[n].accepted = match[n].accepted
      /\ match'[n].counted = match[n].counted /\ ~match'[n].active
      /\ \A m \in Matches \ {n} : match'[m] = match[m]
  BY <1>2 DEF IInv, TInv, TypeOK, Element
<1>5. Moves(p) /\ th'[p].op = "dismiss" /\ th'[p].m = n /\ th'[p].pc = "dispose"
  BY <1>0, <1>1 DEF GoesTo
<1>6. /\ ~Founding(p, n)' /\ ~Answering(p, n)' /\ ~CountingOn(p, n)' /\ ~Accepting(p, n)'
      /\ ~Declining(p, n)' /\ Answering(p, n)
  BY <1>0, <1>1, <1>5
     DEF On, Founding, Answering, CountingOn, Declining, Accepting, Counting, Ending
<1>7. Settled(n) /\ refused[n] \in SUBSET Players
  BY DEF IInv, TInv, TypeOK
<1>8. \A q \in Players \ {p} : /\ Founding(q, n)' <=> Founding(q, n)
                               /\ Answering(q, n)' <=> Answering(q, n)
                               /\ CountingOn(q, n)' <=> CountingOn(q, n)
                               /\ Accepting(q, n)' <=> Accepting(q, n)
                               /\ Dismissing(q, n)' <=> Dismissing(q, n)
                               /\ Declining(q, n)' <=> Declining(q, n)
  BY <1>5, OthersDecide
<1>9. MembersAnswer(n)'
  BY <1>2, <1>4, <1>6, <1>7, <1>8 DEF Settled, MembersAnswer
<1>10. CountsAcceptances(n)' /\ CompletedByAll(n)' /\ CompletedOnce(n)'
  <2>1. CountsAcceptances(n)'
    BY <1>4, <1>5, <1>6, <1>7, CountsStay DEF Settled
  <2> QED BY <1>2, <1>4, <1>6, <1>7, <1>8, <2>1 DEF Settled, CompletedByAll, CompletedOnce
<1>11. DismissedOnce(n)'
  <2>1. outcome[n]["dismissed"] = 0 /\ \A q \in Players : ~Dismissing(q, n)
    <3>1. outcome[n]["dismissed"] \in 0..2
      BY DEF IInv, TInv, TypeOK, Results
    <3> QED BY <1>2, <1>7, <3>1 DEF Settled, DismissedOnce
  <2> QED BY <1>2, <1>4, <1>8, <2>1 DEF DismissedOnce
<1>12. DismissedIsIncomplete(n)'
  <2>1. p \in match[n].members
    BY <1>6, <1>7 DEF Settled, MembersAnswer
  <2> QED BY <1>3, <1>4, <1>6, <2>1 DEF DismissedIsIncomplete
<1>13. RefusedIsIncomplete(n)'
  <2>1. p \notin refused[n]
    BY <1>6, <1>7 DEF Settled, RefusedIsIncomplete
  <2> QED BY <1>2, <1>4, <1>6, <1>7, <1>8, <2>1 DEF Settled, RefusedIsIncomplete
<1>14. Settled(n)'
  BY <1>9, <1>10, <1>11, <1>12, <1>13 DEF Settled
<1>15. OnlyAt(n)
  BY <1>2, <1>3, <1>4 DEF OnlyAt
<1> QED BY <1>0, <1>1, <1>14, <1>15, DecisionKeeps

\* The result is counted by the thread that brought it about, which leaves.
LEMMA DispatchKeeps ==
  ASSUME IInv, NEW p \in Players, Dispatch(p)
  PROVE  (NumbersAreFresh /\ \A m \in Matches : Settled(m))'
<1> DEFINE r == ResultOf(th[p].op)
<1>1. th[p].pc = "result" /\ GoesTo(p, "end")
  BY StepMoves DEF Dispatch, IInv
<1>0. PICK n \in Matches : th[p].m = n
  BY <1>1 DEF IInv, TInv, WorksOnMatch, Ending
<1>2. /\ outcome' = [outcome EXCEPT ![n][r] = IF @ < 2 THEN @ + 1 ELSE @]
      /\ \A q \in Players :
            matchEntries'[q] = IF q = p /\ th[p].op = "deny" THEN NoMatch ELSE matchEntries[q]
      /\ UNCHANGED <<created, match, overlapped, refused, withdrawn>>
  BY <1>0 DEF Dispatch
<1>3. /\ th[p].op \in {"create", "accept"} => r = "accepted" /\ Accepting(p, n)
      /\ th[p].op = "dismiss" => r = "dismissed" /\ Dismissing(p, n)
      /\ th[p].op = "deny" => r = "declined"
      /\ th[p].op \in {"create", "accept", "dismiss", "deny"}
      /\ th[p].op # "deny" => ~Declining(p, n)
  BY <1>0, <1>1 DEF ResultOf, Accepting, Dismissing, Declining, On, Ending,
                    IInv, TInv, PlacesFit, TypeOK, Locals
<1> HIDE DEF r
<1>4. Moves(p) /\ th'[p].m = n /\ th'[p].pc = "end"
  BY <1>0, <1>1 DEF GoesTo
<1>5. /\ ~Founding(p, n)' /\ ~Answering(p, n)' /\ ~CountingOn(p, n)' /\ ~Accepting(p, n)'
      /\ ~Dismissing(p, n)' /\ ~Declining(p, n)'
  BY <1>4 DEF Founding, Answering, CountingOn, Dismissing, Declining, Accepting, Counting, Ending
<1>6. Settled(n) /\ refused[n] \in SUBSET Players
  BY DEF IInv, TInv, TypeOK
<1>7. \A q \in Players \ {p} : /\ Founding(q, n)' <=> Founding(q, n)
                               /\ Answering(q, n)' <=> Answering(q, n)
                               /\ CountingOn(q, n)' <=> CountingOn(q, n)
                               /\ Accepting(q, n)' <=> Accepting(q, n)
                               /\ Dismissing(q, n)' <=> Dismissing(q, n)
                               /\ Declining(q, n)' <=> Declining(q, n)
  BY <1>4, OthersDecide
<1>8. \A q \in Players : matchEntries'[q] = n => matchEntries[q] = n
  BY <1>2 DEF NoMatch, Matches
<1>9. outcome[n] \in [Results -> 0..2] /\ r \in Results
  BY <1>3 DEF IInv, TInv, TypeOK, Results
<1>10. /\ \A k \in Results \ {r} : outcome'[n][k] = outcome[n][k]
       /\ outcome[n][r] = 0 => outcome'[n][r] = 1
       /\ \A m \in Matches \ {n} : outcome'[m] = outcome[m]
  BY <1>2, <1>9 DEF IInv, TInv, TypeOK
<1>11. MembersAnswer(n)'
  BY <1>2, <1>5, <1>6, <1>7, <1>8 DEF Settled, MembersAnswer
<1>18. CountsAcceptances(n)'
  BY <1>2, <1>4, <1>5, <1>6, CountsStay DEF Settled
<1>12. CompletedByAll(n)' /\ CompletedOnce(n)'
  <2>1. CASE r = "accepted"
    <3>1. /\ match[n].accepted = match[n].members
          /\ n \notin overlapped => /\ outcome[n]["accepted"] = 0
                                   /\ \A q \in Players \ {p} : ~Accepting(q, n) /\ ~CountingOn(q, n)
      BY <1>3, <1>6, <2>1 DEF Settled, CompletedByAll, CompletedOnce
    <3> QED BY <1>2, <1>5, <1>7, <1>10, <2>1, <3>1 DEF CompletedByAll, CompletedOnce
  <2>2. CASE r # "accepted"
    <3>1. outcome'[n]["accepted"] = outcome[n]["accepted"]
      BY <1>10, <2>2 DEF Results
    <3> QED BY <1>2, <1>5, <1>6, <1>7, <3>1 DEF Settled, CompletedByAll, CompletedOnce
  <2> QED BY <2>1, <2>2
<1>13. DismissedOnce(n)'
  <2>1. CASE r = "dismissed"
    <3>1. /\ ~match[n].active /\ outcome[n]["dismissed"] = 0
          /\ \A q \in Players \ {p} : ~Dismissing(q, n)
      BY <1>3, <1>6, <2>1 DEF Settled, DismissedOnce
    <3> QED BY <1>2, <1>5, <1>7, <1>10, <2>1, <3>1 DEF DismissedOnce
  <2>2. CASE r # "dismissed"
    <3>1. outcome'[n]["dismissed"] = outcome[n]["dismissed"]
      BY <1>10, <2>2 DEF Results
    <3> QED BY <1>2, <1>5, <1>6, <1>7, <3>1 DEF Settled, DismissedOnce
  <2> QED BY <2>1, <2>2
<1>14. DismissedIsIncomplete(n)'
  <2>1. match[n].members \in SUBSET Players
    BY DEF IInv, TInv, TypeOK, Element
  <2> QED BY <1>2, <1>5, <1>6, <1>7, <2>1 DEF Settled, DismissedIsIncomplete
<1>15. RefusedIsIncomplete(n)'
  <2>1. p \in refused[n] => matchEntries'[p] # n
    <3>1. CASE th[p].op = "deny"
      BY <1>2, <3>1 DEF NoMatch, Matches
    <3>2. CASE th[p].op # "deny"
      BY <1>3, <1>6, <1>8, <3>2 DEF Settled, RefusedIsIncomplete
    <3> QED BY <3>1, <3>2
  <2> QED BY <1>2, <1>5, <1>6, <1>7, <1>8, <2>1 DEF Settled, RefusedIsIncomplete
<1>16. Settled(n)'
  BY <1>11, <1>12, <1>13, <1>14, <1>15, <1>18 DEF Settled
<1>17. OnlyAt(n)
  BY <1>2, <1>10 DEF OnlyAt
<1> QED BY <1>0, <1>1, <1>16, <1>17, DecisionKeeps

-----------------------------------------------------------------------------
(* What the coordinator promises.                                          *)

LEMMA IInit == Init => IInv
<1> SUFFICES ASSUME Init PROVE IInv
  OBVIOUS
<1>1. TInv
  BY TInit
<1>2. \A p \in Players : th[p].pc = "idle" /\ th[p].m = NoMatch /\ matchEntries[p] = NoMatch
  BY IdleIsLocal DEF Init
<1>3. created = 0
  BY DEF Init
<1>4. \A m \in Matches : /\ outcome[m]["accepted"] = 0 /\ outcome[m]["dismissed"] = 0
                         /\ refused[m] = {} /\ withdrawn[m] = {} /\ match[m].active
                         /\ match[m].counted = {} /\ match[m].accepted = {}
  BY DEF Init, Results, NoElement
<1>5. \A m \in Matches : Untouched(m)
  BY <1>2, <1>4 DEF Untouched, NoMatch, Matches
<1>6. NumbersAreFresh
  BY <1>2, <1>3, <1>5 DEF NumbersAreFresh, Unborn, NoMatch
<1>7. \A m \in Matches : Settled(m)
  BY <1>2, <1>4, <1>5
     DEF Settled, MembersAnswer, CountsAcceptances, CompletedByAll, CompletedOnce, DismissedOnce,
         DismissedIsIncomplete, RefusedIsIncomplete, Untouched, Answering, CountingOn, Accepting,
         Dismissing, Counting, Ending
<1>8. Synchronized
  BY <1>2 DEF Synchronized, Inmost, Counting, Ending
<1> QED BY <1>1, <1>6, <1>7, <1>8 DEF IInv

LEMMA IStep == IInv /\ [Next]_vars => IInv'
<1> SUFFICES ASSUME IInv, [Next]_vars PROVE IInv'
  OBVIOUS
<1>1. TInv' /\ Synchronized'
  BY TStep, StepSynchronized DEF IInv
<1>2. CASE UNCHANGED vars
  <2>1. NumbersAreFresh'
    BY <1>2 DEF IInv, vars, NumbersAreFresh, Untouched, Unborn, On
  <2>2. ASSUME NEW p \in Players, NEW m \in Matches
        PROVE  /\ Founding(p, m)' <=> Founding(p, m)
               /\ Answering(p, m)' <=> Answering(p, m)
               /\ CountingOn(p, m)' <=> CountingOn(p, m)
               /\ Accepting(p, m)' <=> Accepting(p, m)
               /\ Dismissing(p, m)' <=> Dismissing(p, m)
               /\ Declining(p, m)' <=> Declining(p, m)
    BY <1>2 DEF vars, On, Founding, Answering, CountingOn, Accepting, Dismissing, Declining
  <2>3. ASSUME NEW m \in Matches PROVE Settled(m)'
    <3>1. /\ UNCHANGED <<match, matchEntries, th, overlapped, outcome, refused, withdrawn>>
          /\ Settled(m)
          /\ match[m].members \in SUBSET Players /\ refused[m] \in SUBSET Players
      BY <1>2 DEF vars, IInv, TInv, TypeOK, Element
    <3>4. CountsAcceptances(m)'
      BY <2>2, <3>1 DEF Settled, CountsAcceptances, On
    <3>2. MembersAnswer(m)' /\ CompletedByAll(m)' /\ CompletedOnce(m)' /\ DismissedOnce(m)'
      BY <2>2, <3>1 DEF Settled, MembersAnswer, CompletedByAll, CompletedOnce, DismissedOnce
    <3>3. DismissedIsIncomplete(m)' /\ RefusedIsIncomplete(m)'
      BY <2>2, <3>1 DEF Settled, DismissedIsIncomplete, RefusedIsIncomplete
    <3> QED BY <3>2, <3>3, <3>4 DEF Settled
  <2> QED BY <1>1, <2>1, <2>3 DEF IInv, Matches
<1>3. ASSUME NEW p \in Players, Call(p)
      PROVE  (NumbersAreFresh /\ \A m \in Matches : Settled(m))'
  BY <1>3, CallCreateKeeps, QuietAnswers, QuietKeeps DEF Call
<1>4. ASSUME NEW p \in Players, Step(p)
      PROVE  (NumbersAreFresh /\ \A m \in Matches : Settled(m))'
  <2>1. CASE CreatePool(p) \/ CreateCheck(p) \/ CreateReenable(p) \/ CreateDrop(p)
    BY <2>1, QuietCreations, QuietKeeps
  <2>2. CASE AnswerPool(p) \/ AnswerInactive(p) \/ DisposePool(p) \/ DisposeRemove(p) \/ End(p)
    BY <2>2, QuietAnswers, QuietKeeps
  <2>3. CASE CreatePut(p) \/ CreateAccept(p) \/ AnswerAccept(p)
    BY <2>3, CreatePutKeeps, AcceptKeeps
  <2>4. CASE AnswerGet(p) \/ AnswerDeny(p) \/ AnswerDismiss(p) \/ Dispatch(p)
    BY <2>4, AnswerGetKeeps, AnswerDenyKeeps, AnswerDismissKeeps, DispatchKeeps
  <2>5. CASE CountRead(p) \/ CountWrite(p) \/ CountCompare(p)
    BY <2>5, CountReadKeeps, CountWriteKeeps, CountCompareKeeps
  <2> QED BY <1>4, <2>1, <2>2, <2>3, <2>4, <2>5 DEF Step
<1> QED BY <1>1, <1>2, <1>3, <1>4 DEF Next, IInv

\* A match comes off only when every confirming member has accepted it, however
\* creations, answers and dismissals of any players interleave.
THEOREM AcceptedIsUnanimous == Spec => []AcceptedByAll
<1>1. IInv => AcceptedByAll
  BY DEF IInv, Settled, CompletedByAll, AcceptedByAll
<1> QED BY <1>1, IInit, IStep, PTL DEF Spec

\* A member who declined a match before accepting it is never outvoted: the match
\* does not come off, although the others keep their entries.
THEOREM RefusalHolds == Spec => []RefusalIsFinal
<1>1. IInv => RefusalIsFinal
  <2>1. SUFFICES ASSUME IInv, NEW m \in Matches, refused[m] # {}
                 PROVE  outcome[m]["accepted"] = 0
    BY DEF RefusalIsFinal
  <2>2. outcome[m]["accepted"] \in 0..2
    BY <2>1 DEF IInv, TInv, TypeOK, Results
  <2>3. match[m].accepted # match[m].members
    BY <2>1 DEF IInv, Settled, RefusedIsIncomplete
  <2> QED BY <2>1, <2>2, <2>3 DEF IInv, Settled, CompletedByAll
<1> QED BY <1>1, IInit, IStep, PTL DEF Spec

\* Two members who answer last at the same time do not found the guild twice,
\* unless an acceptance overlapped with the leader's, which is not synchronized;
\* a match is dismissed once, and accepted as well only where a member dismissed
\* what it had accepted.
THEOREM ResultIsUnique == Spec => []OneResult
<1>1. IInv => OneResult
  <2>1. SUFFICES ASSUME IInv, NEW m \in Matches
                 PROVE  /\ m \notin overlapped => outcome[m]["accepted"] <= 1
                        /\ outcome[m]["dismissed"] <= 1
                        /\ withdrawn[m] = {} =>
                              outcome[m]["accepted"] = 0 \/ outcome[m]["dismissed"] = 0
    BY DEF OneResult
  <2>2. outcome[m]["accepted"] \in 0..2 /\ outcome[m]["dismissed"] \in 0..2
    BY <2>1 DEF IInv, TInv, TypeOK, Results
  <2>3. CompletedByAll(m) /\ CompletedOnce(m) /\ DismissedOnce(m) /\ DismissedIsIncomplete(m)
    BY <2>1 DEF IInv, Settled
  <2>4. outcome[m]["dismissed"] > 0 /\ withdrawn[m] = {} => ~(outcome[m]["accepted"] > 0)
    BY <2>3 DEF CompletedByAll, DismissedOnce, DismissedIsIncomplete
  <2> QED BY <2>2, <2>3, <2>4 DEF CompletedOnce, DismissedOnce
<1> QED BY <1>1, IInit, IStep, PTL DEF Spec
=============================================================================
