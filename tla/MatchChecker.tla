---------------------------- MODULE MatchChecker ----------------------------
(***************************************************************************)
(* net/server/coordinator/MapleMatchCheckerCoordinator.java: a leader asks *)
(* a set of players to confirm something together (founding a guild, a     *)
(* carnival challenge); the match is on when all of them have accepted.    *)
(*                                                                         *)
(* Three mechanisms overlap, and this module keeps all of them:            *)
(*   - semaphorePool bounds the calls inside the coordinator;              *)
(*   - pooledCids is a hand-made lock per player, taken one player at a    *)
(*     time, released without looking at who holds it, and waited for by   *)
(*     spinning;                                                           *)
(*   - synchronized(mmce) is a monitor per match, held while the players   *)
(*     who accepted are pooled in disposeMatchElement.                     *)
(*                                                                         *)
(* The packets of one player are handled one after the other, those of     *)
(* different players concurrently: a player is also the thread of its      *)
(* calls.  The two collections are a plain HashSet and a plain HashMap;    *)
(* here each single operation on them takes effect at once, and the loops  *)
(* that read, put or remove a whole set of players do so in one step.      *)
(***************************************************************************)
EXTENDS Naturals, FiniteSets

CONSTANTS
    Players,
    Permits,      \* of semaphorePool, 7 in the code
    MaxMatch,     \* bound: calls of createMatchConfirmation
    MaxAnswers,   \* bound: answers and dismissals of all players
    AnswerOnce,   \* does the dialog of a player close once it has accepted?
    MayDeny,      \* may a player answer no?
    MayDismiss    \* may a player dismiss a match?

ASSUME BoundsAssumption ==
    /\ Permits \in Nat \ {0} /\ MaxMatch \in Nat /\ MaxAnswers \in Nat
    /\ {AnswerOnce, MayDeny, MayDismiss} \subseteq BOOLEAN

VARIABLES
    matchEntries,  \* player -> the match that awaits its answer, NoMatch for none
    pooledCids,    \* the players that are locked
    match,         \* the elements (mmce) created so far
    monitor,       \* match -> the threads inside synchronized(mmce)
    th,            \* where the thread of each player is
    created,       \* number of calls that may create a match: they number them
    answers,       \* number of answers and dismissals
    overlapped,    \* history: the matches with an acceptance during the leader's
    outcome,       \* history: how often each result of a match was dispatched
    refused,       \* history: who declined a match without having accepted it
    withdrawn      \* history: who dismissed a match after having accepted it

shared == <<matchEntries, pooledCids, match, monitor>>
vars   == <<matchEntries, pooledCids, match, monitor, th, created, answers, overlapped,
           outcome, refused, withdrawn>>
history == <<overlapped, outcome, refused, withdrawn>>

NoMatch == 0
Matches == 1..MaxMatch
Results == {"accepted", "declined", "dismissed"}

\* The locals of a call: what it is, where it is, the element it works on, the
\* players it is taking, those it has taken, the one whose entry it looks at, the
\* confirmCount it has read.
Idle      == [op |-> "none", pc |-> "idle", m |-> NoMatch, set |-> {}, held |-> {}, at |-> {},
              seen |-> {}]
NoElement == [leader |-> {}, members |-> {}, accepted |-> {}, counted |-> {}, active |-> TRUE]

Init ==
    /\ matchEntries = [p \in Players |-> NoMatch]
    /\ pooledCids = {}
    /\ match = [m \in Matches |-> NoElement]
    /\ monitor = [m \in Matches |-> {}]
    /\ th = [p \in Players |-> Idle]
    /\ created = 0
    /\ answers = 0
    /\ overlapped = {}
    /\ outcome = [m \in Matches |-> [r \in Results |-> 0]]
    /\ refused = [m \in Matches |-> {}]
    /\ withdrawn = [m \in Matches |-> {}]

Go(p, pc) == th' = [th EXCEPT ![p].pc = pc]

\* Seeded defect: one permit too many.
HasPermit_OneMore == Cardinality({p \in Players : th[p].pc # "idle"}) <= Permits

\* semaphorePool.acquire(); it is released when the thread is idle again.
HasPermit == Cardinality({p \in Players : th[p].pc # "idle"}) < Permits

\* The threads block on synchronized(mmce) until nobody is inside.
MonitorFree(m) == monitor[m] = {}
Enter(m, p)    == monitor' = [monitor EXCEPT ![m] = {p}]
Leave(m, p)    == monitor' = [monitor EXCEPT ![m] = @ \ {p}]

-----------------------------------------------------------------------------
(* poolMatchPlayers: the players of a set are taken one at a time; at the  *)
(* first one already taken, those taken so far are given back.             *)

PoolNext(p, pc) ==
    /\ th[p].pc = pc
    /\ \E q \in (th[p].set \ th[p].held) \ pooledCids :
          /\ pooledCids' = pooledCids \union {q}
          /\ th' = [th EXCEPT ![p].held = @ \union {q}]

PoolFails(p, pc) ==
    /\ th[p].pc = pc
    /\ (th[p].set \ th[p].held) \intersect pooledCids # {}
    /\ pooledCids' = pooledCids \ th[p].held

PoolDone(p, pc) == th[p].pc = pc /\ th[p].set = th[p].held

-----------------------------------------------------------------------------
(* createMatchConfirmation                                                 *)

CallCreate(p, S) ==
    /\ th[p].pc = "idle"
    /\ created < MaxMatch
    /\ HasPermit
    /\ p \in S
    /\ created' = created + 1
    /\ th' = [th EXCEPT ![p] = [Idle EXCEPT !.op = "create", !.pc = "pool",
                                            !.m = created + 1, !.set = S]]
    /\ UNCHANGED <<shared, answers, history>>

CreatePool(p) ==
    /\ th[p].op = "create"
    /\ \/ PoolNext(p, "pool")
       \/ PoolFails(p, "pool") /\ th' = [th EXCEPT ![p] = Idle]
       \/ PoolDone(p, "pool") /\ Go(p, "check") /\ UNCHANGED pooledCids
    /\ UNCHANGED <<matchEntries, match, monitor, created, answers, history>>

\* isMatchingAvailable.
CreateCheck(p) ==
    /\ th[p].pc = "check"
    /\ IF \A q \in th[p].set : matchEntries[q] = NoMatch
         THEN Go(p, "put")
         ELSE th' = [th EXCEPT ![p].pc = "reenable", ![p].held = {}]
    /\ UNCHANGED <<shared, created, answers, history>>

\* createMatchConfirmationInternal: the element, its entries, onMatchCreated.
CreatePut(p) ==
    /\ th[p].pc = "put"
    /\ match' = [match EXCEPT ![th[p].m] =
          [leader |-> {p}, members |-> th[p].set, accepted |-> {}, counted |-> {}, active |-> TRUE]]
    /\ matchEntries' = [q \in Players |->
          IF q \in th[p].set THEN th[p].m ELSE matchEntries[q]]
    /\ Go(p, "accept")
    /\ UNCHANGED <<pooledCids, monitor, created, answers, history>>

\* Seeded defect: the thread keeps its own player pooled while it disposes.
StartDispose_StillPooled(p, accepted) ==
    /\ th' = [th EXCEPT ![p].pc = "dispose", ![p].set = accepted, ![p].held = {}]
    /\ UNCHANGED pooledCids

\* unpoolMatchPlayer(cid), then disposeMatchElement starts from the players
\* that have accepted.
StartDispose(p, accepted) ==
    /\ pooledCids' = pooledCids \ {p}
    /\ th' = [th EXCEPT ![p].pc = "dispose", ![p].set = accepted, ![p].held = {}]

-----------------------------------------------------------------------------
(* acceptEntry.  confirmCount is an int that several threads may add to:   *)
(* it is the set of the members whose acceptance is in it, which is lost   *)
(* from it when another thread writes back what it had read before.        *)

Counting == {"read", "count", "compare"}

\* setAccept: the first acceptance of a member is counted ...
IsNew(p, m) == p \in match[m].members \ match[m].accepted

SetAccept(p, m) ==
    /\ match' = [match EXCEPT ![m].accepted = @ \union {p}]
    /\ overlapped' = IF \E q \in Players \ {p} : /\ th[q].m = m /\ th[q].pc \in Counting
                                                 /\ "create" \in {th[p].op, th[q].op}
                       THEN overlapped \union {m} ELSE overlapped
    /\ Go(p, "read")

\* ... and any other ends the call.
SkipAccept(p) == Go(p, "end") /\ UNCHANGED <<match, overlapped>>

\* confirmCount++ reads ...
CountRead(p) ==
    /\ th[p].pc = "read"
    /\ th' = [th EXCEPT ![p].seen = match[th[p].m].counted, ![p].pc = "count"]
    /\ UNCHANGED <<shared, created, answers, history>>

\* ... and writes.
CountWrite(p) ==
    /\ th[p].pc = "count"
    /\ match' = [match EXCEPT ![th[p].m].counted = th[p].seen \union {p}]
    /\ th' = [th EXCEPT ![p].seen = {}, ![p].pc = "compare"]
    /\ UNCHANGED <<matchEntries, pooledCids, monitor, created, answers, history>>

\* Seeded defect: one acceptance less is enough.
Complete_Early(m) == Cardinality(match[m].counted) + 1 >= Cardinality(match[m].members)

\* Seeded defect: the leader is not one of those who are counted.
Complete_NoLeader(m) == match[m].counted = match[m].members \ match[m].leader

Complete(m) == match[m].counted = match[m].members

\* The acceptance that finds the count complete ends the match; any other
\* leaves the monitor, where it was inside.
CountCompare(p) ==
    /\ th[p].pc = "compare"
    /\ IF Complete(th[p].m)
         THEN StartDispose(p, match[th[p].m].accepted) /\ UNCHANGED monitor
         ELSE Go(p, "end") /\ Leave(th[p].m, p) /\ UNCHANGED pooledCids
    /\ UNCHANGED <<matchEntries, match, created, answers, history>>

\* The leader accepts without the monitor.
CreateAccept(p) ==
    /\ th[p].pc = "accept"
    /\ IF IsNew(p, th[p].m) THEN SetAccept(p, th[p].m) ELSE SkipAccept(p)
    /\ UNCHANGED <<matchEntries, pooledCids, monitor, created, answers, outcome, refused, withdrawn>>

-----------------------------------------------------------------------------
\* reenablePlayerMatching: the elements of the players, one after the other ...
CreateReenable(p) ==
    /\ th[p].pc = "reenable"
    /\ \/ th[p].held = th[p].set /\ Go(p, "end")
       \/ \E q \in th[p].set \ th[p].held :
             th' = [th EXCEPT ![p].held = @ \union {q}, ![p].at = {q}, ![p].m = matchEntries[q],
                              ![p].pc = IF matchEntries[q] = NoMatch THEN "reenable" ELSE "drop"]
    /\ UNCHANGED <<shared, created, answers, history>>

\* ... and, once inside the monitor of the element, the entry goes if the
\* element is inactive.
CreateDrop(p) ==
    /\ th[p].pc = "drop"
    /\ MonitorFree(th[p].m)
    /\ matchEntries' = [q \in Players |->
          IF q \in th[p].at /\ ~match[th[p].m].active THEN NoMatch ELSE matchEntries[q]]
    /\ Go(p, "reenable")
    /\ UNCHANGED <<pooledCids, match, monitor, created, answers, history>>

-----------------------------------------------------------------------------
(* answerMatchConfirmation and dismissMatchConfirmation                    *)

CallAnswer(p, op) ==
    /\ th[p].pc = "idle"
    /\ answers < MaxAnswers
    /\ AnswerOnce /\ op # "dismiss" => \A m \in Matches : matchEntries[p] = m => p \notin match[m].accepted
    /\ HasPermit
    /\ answers' = answers + 1
    /\ th' = [th EXCEPT ![p] = [Idle EXCEPT !.op = op, !.pc = "pool", !.set = {p}]]
    /\ UNCHANGED <<shared, created, history>>

\* while (matchEntries.containsKey(cid)) if (poolMatchPlayer(cid)): a player
\* that somebody else has pooled is tried again and again.
AnswerPool(p) ==
    /\ th[p].op \in {"accept", "deny", "dismiss"}
    /\ th[p].pc = "pool"
    /\ IF matchEntries[p] = NoMatch
         THEN th' = [th EXCEPT ![p] = Idle] /\ UNCHANGED pooledCids
         ELSE p \notin pooledCids /\ pooledCids' = pooledCids \union {p} /\ Go(p, "get")
    /\ UNCHANGED <<matchEntries, match, monitor, created, answers, history>>

\* The entry may have gone since it was looked for.
AnswerGet(p) ==
    /\ th[p].pc = "get"
    /\ IF matchEntries[p] = NoMatch
         THEN pooledCids' = pooledCids \ {p} /\ Go(p, "pool")
         ELSE /\ th' = [th EXCEPT ![p].m = matchEntries[p], ![p].pc = "sync"]
              /\ UNCHANGED pooledCids
    /\ UNCHANGED <<matchEntries, match, monitor, created, answers, history>>

\* Inside the monitor: an inactive match.  An answer drops its own entry, a
\* dismissal leaves it.
AnswerInactive(p) ==
    /\ th[p].pc = "sync"
    /\ MonitorFree(th[p].m)
    /\ ~match[th[p].m].active
    /\ matchEntries' = [q \in Players |->
          IF q = p /\ th[p].op # "dismiss" THEN NoMatch ELSE matchEntries[q]]
    /\ Go(p, "end")
    /\ UNCHANGED <<pooledCids, match, monitor, created, answers, history>>

\* Seeded defect: not synchronized.
AnswerAccept_Unsynchronized(p) ==
    /\ th[p].pc = "sync" /\ th[p].op = "accept"
    /\ match[th[p].m].active
    /\ IF IsNew(p, th[p].m) THEN SetAccept(p, th[p].m) ELSE SkipAccept(p)
    /\ UNCHANGED <<matchEntries, pooledCids, monitor, created, answers, outcome, refused, withdrawn>>

\* A member accepts inside the monitor.
AnswerAccept(p) ==
    /\ th[p].pc = "sync" /\ th[p].op = "accept"
    /\ MonitorFree(th[p].m)
    /\ match[th[p].m].active
    /\ IF IsNew(p, th[p].m) THEN SetAccept(p, th[p].m) /\ Enter(th[p].m, p)
                             ELSE SkipAccept(p) /\ UNCHANGED monitor
    /\ UNCHANGED <<matchEntries, pooledCids, created, answers, outcome, refused, withdrawn>>

\* Seeded defect: an answer no is counted as an answer.
AnswerDeny_Counted(p) ==
    /\ th[p].pc = "sync" /\ th[p].op = "deny"
    /\ MonitorFree(th[p].m)
    /\ match[th[p].m].active
    /\ Enter(th[p].m, p)
    /\ match' = [match EXCEPT ![th[p].m].accepted = @ \union {p}, ![th[p].m].counted = @ \union {p}]
    /\ StartDispose(p, match[th[p].m].accepted)
    /\ refused' = [refused EXCEPT ![th[p].m] = @ \union ({p} \ match[th[p].m].accepted)]
    /\ UNCHANGED <<matchEntries, created, answers, overlapped, outcome, withdrawn>>

AnswerDeny(p) ==
    /\ th[p].pc = "sync" /\ th[p].op = "deny"
    /\ MonitorFree(th[p].m)
    /\ match[th[p].m].active
    /\ Enter(th[p].m, p)
    /\ StartDispose(p, match[th[p].m].accepted)
    /\ refused' = [refused EXCEPT ![th[p].m] = @ \union ({p} \ match[th[p].m].accepted)]
    /\ UNCHANGED <<matchEntries, match, created, answers, overlapped, outcome, withdrawn>>

AnswerDismiss(p) ==
    /\ th[p].pc = "sync" /\ th[p].op = "dismiss"
    /\ MonitorFree(th[p].m)
    /\ match[th[p].m].active
    /\ match' = [match EXCEPT ![th[p].m].active = FALSE]
    /\ Enter(th[p].m, p)
    /\ StartDispose(p, match[th[p].m].accepted)
    /\ withdrawn' = [withdrawn EXCEPT ![th[p].m] = @ \union ({p} \intersect match[th[p].m].accepted)]
    /\ UNCHANGED <<matchEntries, created, answers, overlapped, outcome, refused>>

-----------------------------------------------------------------------------
(* disposeMatchElement and what follows it.                                *)

\* The accepted players are pooled; after a failure, sleep and start again.
DisposePool(p) ==
    /\ \/ PoolNext(p, "dispose")
       \/ /\ th[p].held # {}
          /\ PoolFails(p, "dispose") /\ th' = [th EXCEPT ![p].held = {}]
       \/ PoolDone(p, "dispose") /\ Go(p, "remove") /\ UNCHANGED pooledCids
    /\ UNCHANGED <<matchEntries, match, monitor, created, answers, history>>

DisposeRemove(p) ==
    /\ th[p].pc = "remove"
    /\ matchEntries' = [q \in Players |-> IF q \in th[p].held THEN NoMatch ELSE matchEntries[q]]
    /\ pooledCids' = pooledCids \ th[p].held
    /\ Go(p, "result")
    /\ UNCHANGED <<match, monitor, created, answers, history>>

ResultOf(op) ==
    CASE op = "deny" -> "declined" [] op = "dismiss" -> "dismissed" [] OTHER -> "accepted"

\* The listener is told; whoever declined loses its own entry; the monitor is
\* left.  Results are counted up to 2: more than once is all that matters.
Dispatch(p) ==
    /\ th[p].pc = "result"
    /\ outcome' = [outcome EXCEPT ![th[p].m][ResultOf(th[p].op)] = IF @ < 2 THEN @ + 1 ELSE @]
    /\ matchEntries' = [q \in Players |->
          IF q = p /\ th[p].op = "deny" THEN NoMatch ELSE matchEntries[q]]
    /\ Leave(th[p].m, p)
    /\ Go(p, "end")
    /\ UNCHANGED <<pooledCids, match, created, answers, overlapped, refused, withdrawn>>

\* The finally blocks: the player (of a creation: all of them) is unpooled,
\* even where it was before and somebody else has pooled it since; the permit
\* is released.
End(p) ==
    /\ th[p].pc = "end"
    /\ pooledCids' = pooledCids \ (IF th[p].op = "create" THEN th[p].set ELSE {p})
    /\ th' = [th EXCEPT ![p] = Idle]
    /\ UNCHANGED <<matchEntries, match, monitor, created, answers, history>>

Step(p) ==
    \/ CreatePool(p) \/ CreateCheck(p) \/ CreatePut(p) \/ CreateAccept(p)
    \/ CreateReenable(p) \/ CreateDrop(p) \/ CountRead(p) \/ CountWrite(p) \/ CountCompare(p)
    \/ AnswerPool(p) \/ AnswerGet(p) \/ AnswerInactive(p)
    \/ AnswerAccept(p) \/ AnswerDeny(p) \/ AnswerDismiss(p)
    \/ DisposePool(p) \/ DisposeRemove(p) \/ Dispatch(p) \/ End(p)

Call(p) ==
    \/ \E S \in SUBSET Players : CallCreate(p, S)
    \/ CallAnswer(p, "accept")
    \/ MayDeny /\ CallAnswer(p, "deny")
    \/ MayDismiss /\ CallAnswer(p, "dismiss")

Next == \E p \in Players : Call(p) \/ Step(p)

\* A thread inside the coordinator keeps running; nobody is obliged to call.
Fairness == \A p \in Players : WF_vars(Step(p))

Spec == Init /\ [][Next]_vars
FairSpec == Spec /\ Fairness

-----------------------------------------------------------------------------
Element == [leader : SUBSET Players, members : SUBSET Players,
            accepted : SUBSET Players, counted : SUBSET Players, active : BOOLEAN]
Locals  == [op : {"none", "create", "accept", "deny", "dismiss"},
            pc : {"idle", "pool", "check", "put", "accept", "reenable", "drop", "get", "sync",
                  "read", "count", "compare", "dispose", "remove", "result", "end"},
            m : {NoMatch} \union Matches, set : SUBSET Players, held : SUBSET Players,
            at : SUBSET Players, seen : SUBSET Players]

\* The type invariant.
TypeOK ==
    /\ matchEntries \in [Players -> {NoMatch} \union Matches]
    /\ pooledCids \subseteq Players
    /\ match \in [Matches -> Element]
    /\ monitor \in [Matches -> SUBSET Players]
    /\ th \in [Players -> Locals]
    /\ created \in 0..MaxMatch
    /\ answers \in 0..MaxAnswers
    /\ overlapped \subseteq Matches
    /\ outcome \in [Matches -> [Results -> 0..2]]
    /\ refused \in [Matches -> SUBSET Players]
    /\ withdrawn \in [Matches -> SUBSET Players]
    /\ Cardinality({p \in Players : th[p].pc # "idle"}) <= Permits

\* onMatchAccepted is dispatched only when every confirming member has accepted,
\* whatever else is created, declined or dismissed meanwhile.
AcceptedByAll ==
    \A m \in Matches : outcome[m]["accepted"] > 0 => match[m].accepted = match[m].members

\* A match that a member declined before accepting it never comes off, although
\* the others keep their entries and may still accept.
RefusalIsFinal == \A m \in Matches : refused[m] # {} => outcome[m]["accepted"] = 0

\* A match comes off once: two members who answer last at the same time do not
\* found the guild twice, unless an acceptance overlapped with that of the
\* leader, which is not synchronized.  It is dismissed once; and as well as
\* accepted only where a member dismisses what it has accepted: the leader's own
\* acceptance does not look whether the match is still active, and a dismissal
\* that waits for the monitor not whether it has been accepted.
OneResult ==
    \A m \in Matches :
        /\ m \notin overlapped => outcome[m]["accepted"] <= 1
        /\ outcome[m]["dismissed"] <= 1
        /\ withdrawn[m] = {} => outcome[m]["accepted"] = 0 \/ outcome[m]["dismissed"] = 0

\* The players that a call waiting for the monitor of m has pooled.
Waiting(q, m) == th[q].m = m /\ th[q].pc \in {"sync", "drop"}
Pooled(q)     == IF th[q].op = "create" THEN th[q].set ELSE {q}

\* The thread that ends m cannot pool a player, because a call that has pooled
\* it waits for the monitor of m, which that thread has.
Circle(m) ==
    \E p \in monitor[m] : \E q \in Players \ {p} :
        /\ th[p].pc = "dispose" /\ Waiting(q, m)
        /\ (th[p].set \ th[p].held) \intersect Pooled(q) \intersect pooledCids # {}

\* Two threads end m, each with a part of the players that both have to pool.
Rivals(m) == \E p, q \in Players : p # q /\ \A r \in {p, q} : th[r].m = m /\ th[r].pc = "dispose"

Stuck == \E m \in Matches : Circle(m) \/ Rivals(m)

\* A call of the coordinator returns.
EveryCallReturns == \A p \in Players : th[p].pc # "idle" ~> th[p].pc = "idle"

\* Calls of the coordinator return, unless two of them wait for each other for
\* good: the one for the monitor and the other for a player, or, of a match that
\* both have found complete, each for the players of the other.
ReturnsUnlessStuck == <>[]Stuck \/ EveryCallReturns

\* Once every member has accepted, the match comes off: unless the calls hang,
\* or an acceptance that overlapped with the leader's was lost from the count.
FullMatchComesOff ==
    \/ <>[]Stuck
    \/ \A m \in Matches : match[m].accepted # {} /\ match[m].accepted = match[m].members
           ~> outcome[m]["accepted"] > 0 \/ m \in overlapped
=============================================================================
