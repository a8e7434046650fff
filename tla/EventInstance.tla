---------------------------- MODULE EventInstance ----------------------------
(***************************************************************************)
(* One instance of an event (scripting/event/EventInstanceManager) from    *)
(* its setup to its end, for any script: who is registered, where the      *)
(* players are, the timer, the clearing and the disposal.                  *)
(*                                                                         *)
(* Whatever happens to the event is a call made by some thread: a packet   *)
(* of a player, a task of the pool (a disconnection, a death), the timer   *)
(* or the scheduler of the scripts.  A call is a stack of frames, each a   *)
(* sequence of deeds still to be done: the script a thread is in, and      *)
(* below it the Java code that invoked it.  Every deed is one step, and    *)
(* the calls in progress interleave at every deed: the scripts hold no     *)
(* lock, and what the instance does under its own is one step.             *)
(***************************************************************************)
EXTENDS EventScripts, FiniteSets, FiniteSetsExt, SequencesExt

CONSTANTS
  Players,       \* the team, and those who may come back in
  Leader,        \* who starts the event
  Settings,      \* the events that may be started: a script, its team, and as bounds how
                 \*   many calls may be in progress and how many may begin besides timers
  Deeds,         \* what the handlers of the scripts consist of
  Unending,      \* scripts whose events an empty team may leave behind
  Calls          \* bound: the calls in progress at a time, as numbers

VARIABLES
  setting,    \* this event
  chars,      \* the registered players
  member,     \* the players whose eventInstance is this one
  at,         \* the maps they are on
  leaving,    \* the players whose disconnection has begun (awayFromWorld)
  eventLeader,\* leaderId
  partyLeader,\* of the party they came with
  party,      \* its members
  cleared,    \* eventCleared
  disposed,   \* disposed
  timer,      \* event_schedule is a task that has not begun to run
  loose,      \* a task of the timer that nothing refers to any more
  later,      \* an entry of the scheduler of the scripts
  freed,      \* how often em.disposeInstance was asked for (twice stands for more)
  warps,      \* canWarpCounter of each player
  mayWarp,    \* canWarpMap of each player
  calls,      \* the calls in progress
  happened,   \* how many calls have begun
  past        \* history, which nothing reads but the properties: the players who came, those
              \*   missed (a leaving that another change of map swallowed, a registration while
              \*   another call went on), whether calls overlapped and whether one crashed

vars == <<setting, chars, member, at, leaving, eventLeader, partyLeader, party, cleared, disposed,
          timer, loose, later, freed, warps, mayWarp, calls, happened, past>>

ASSUME EventAssumption ==
  /\ IsFiniteSet(Players) /\ Leader \in Players
  /\ IsFiniteSet(Calls) /\ Calls \subseteq Nat
  /\ \A s \in Settings :
       /\ DOMAIN s = {"script", "team", "calls", "happenings"}
       /\ DOMAIN s.script = Handlers \cup {"solo", "open", "need"}
       /\ s.team \subseteq Players /\ Leader \in s.team
       /\ s.calls \in Calls /\ s.happenings \in Nat

Ways == {"in", "out"}    \* where a change of map may go

\* A change of map is counted off by the Java code alone.
ASSUME DeedsAssumption ==
  /\ \A s \in Settings, h \in Handlers : s.script[h] \in Seq(Deeds)
  /\ \A d \in Deeds :
       /\ d.yes \in Seq(Deeds) /\ d.no \in Seq(Deeds)
       /\ d.do # "landed"
       /\ d.do \in {"call", "invoke", "ask"} => d.to \in Handlers
       /\ d.do \in {"go", "warp", "warp team"} => d.to \in Ways

script == setting.script
Places == {"in",     \* on a map the instance made
           "astray", \* on the channel's own copy of a map of the event
           "out",    \* on any other
           "gone"}   \* logged off
Threads == Players \cup {"pool", "clock", "worker"}
Phases  == {"", "put", "sweep", "free"}

-----------------------------------------------------------------------------
\* Frames and stacks.  An item is a deed and the player it is about.
Items(deeds, p) == [i \in DOMAIN deeds |-> [deed |-> deeds[i], who |-> p]]
Frame(kind, to, items) == [kind |-> kind, to |-> to, items |-> items]
Invoked(handler, to, p) == Frame("script", to, Items(script[handler], p))
\* Deeds of the Java code, next to those of the scripts.
Register  == Plain("register")                 \* eim.registerPlayer
Warp(to)  == Deed("warp", to, <<>>, <<>>)      \* changeMapInternal
Landed    == Plain("landed")
Invoke(h) == Deed("invoke", h, <<>>, <<>>)     \* invokeScriptFunction
Ask(h)    == Deed("ask", h, <<>>, <<>>)        \* the same, of the player's own instance
PassLead  == Plain("pass lead")                \* updateParty with CHANGE_LEADER
Lead      == Plain("lead")
LeadParty == Plain("lead party")
Seal      == Plain("seal")                     \* dispose(boolean)
FreeLobby == Plain("free lobby")
Dismiss   == Plain("dismiss")
Standard  == Plain("standard")
Vanish    == Plain("vanish")

Idle == [by |-> "", phase |-> "", about |-> Leader, stack |-> <<>>]
Busy(c) == calls[c] # Idle
Top(c)  == calls[c].stack[1]
Item(c) == Top(c).items[1]
Who(c)  == Item(c).who
To(c)   == Item(c).deed.to
\* The call is about to do this.
Does(c, what) ==
  /\ calls[c].phase = "" /\ calls[c].stack # <<>>
  /\ Item(c).deed.do = what

\* Frames with nothing left to do are gone from the top.
Settled(stack) ==
  LET live == {i \in DOMAIN stack : stack[i].items # <<>>} IN
  IF live = {} THEN <<>> ELSE SubSeq(stack, Min(live), Len(stack))
Rest(c) == <<[Top(c) EXCEPT !.items = Tail(@)]>> \o Tail(calls[c].stack)
\* The call goes on with this stack: at its next deed, with others first, under other frames.
Becomes(c, stack) ==
  LET left == Settled(stack) IN
  calls' = [calls EXCEPT ![c] = IF left = <<>> THEN Idle ELSE [@ EXCEPT !.stack = left]]
Continue(c)      == Becomes(c, Rest(c))
With(c, items)   == Becomes(c, <<[Top(c) EXCEPT !.items = items \o Tail(@)]>> \o Tail(calls[c].stack))
Under(c, frames) == Becomes(c, frames \o Rest(c))
\* Deeds for each of these players, in some order.
InTurn(c, S, Of(_)) ==
  \E order \in SetToSeqs(S) : With(c, FlattenSeq([i \in DOMAIN order |-> Of(order[i])]))

(***************************************************************************)
(* The monitor of the instance is held by the call inside one of the       *)
(* synchronized methods, that is with a frame of kind "sync" or in a       *)
(* phase.  Its holder may enter again.                                     *)
(***************************************************************************)
Holds(c)    == \/ calls[c].phase # ""
               \/ \E i \in DOMAIN calls[c].stack : calls[c].stack[i].kind = "sync"
\* Mutant: the methods are not synchronized.
MayEnter_Always(c) == c \in Calls
MayEnter(c) == \A d \in Calls \ {c} : ~Holds(d)

(***************************************************************************)
(* Errors.  An error of a script ends the script: invokeScriptFunction's   *)
(* callers print it and go on.  A RuntimeException ends the call, up to    *)
(* Java code that catches everything.                                      *)
(***************************************************************************)
Past(c, kind) ==
  LET caught == {i \in DOMAIN calls[c].stack : calls[c].stack[i].kind = kind} IN
  IF caught = {} THEN <<>>
  ELSE SubSeq(calls[c].stack, Min(caught) + 1, Len(calls[c].stack))
Error(c) == Becomes(c, Past(c, "script"))
\* Whoever has logged off loses his client and map five minutes later: until then messages and
\* changes of map pass him by, after that they are an exception.
Crash(c) == Becomes(c, Past(c, "safe")) /\ past' = [past EXCEPT !.crashed = TRUE]

-----------------------------------------------------------------------------
(***************************************************************************)
(* Deeds about a player.  A change of map counts itself, tells the event   *)
(* where it goes, moves the player unless another change has moved him     *)
(* and is not over (canWarpMap), and counts itself off.  The map is one of *)
(* the instance as long as he is a member.                                 *)
(***************************************************************************)
Apart == UNCHANGED <<setting, eventLeader, partyLeader, party, happened>>
Ended == UNCHANGED <<cleared, disposed, timer, loose, later, freed>>
Moves == UNCHANGED <<at, leaving, warps, mayWarp, past>>
Still == UNCHANGED <<at, leaving, warps, mayWarp>>
Team  == UNCHANGED <<chars, member>>

DoUnregister(c) ==
  /\ Does(c, "unregister")
  /\ chars' = chars \ {Who(c)} /\ member' = member \ {Who(c)}
  /\ Continue(c)
  /\ Apart /\ Ended /\ Moves

\* Mutant: the change is not counted.
DoGo_Uncounted(c) ==
  /\ Does(c, "go")
  /\ With(c, Items(<<Warp(To(c)), Landed>>, Who(c)))
  /\ Apart /\ Ended /\ Moves /\ Team

DoGo(c) ==
  /\ Does(c, "go")
  /\ LET p == Who(c)
         on == [Rest(c) EXCEPT ![1].items = Items(<<Warp(To(c)), Landed>>, p) \o @] IN
     \/ at[p] = "gone" /\ Crash(c) /\ UNCHANGED warps
     \/ /\ warps' = [warps EXCEPT ![p] = @ + 1] /\ UNCHANGED past
        /\ IF p \in member /\ ~disposed
           THEN Becomes(c, <<Frame("script", To(c), Items(script.changed, p))>> \o on)
           ELSE Becomes(c, on)
  /\ UNCHANGED <<at, leaving, mayWarp>>
  /\ Apart /\ Ended /\ Team

\* Nobody is moved who is not in the channel any more.
Arrival(p, to) ==
  IF at[p] = "gone" THEN "gone"
  ELSE IF p \in member THEN "in"
  ELSE IF to = "in" THEN "astray" ELSE "out"

DoWarp(c) ==
  /\ Does(c, "warp")
  /\ LET p == Who(c) IN
     \/ at[p] = "gone" /\ Crash(c) /\ UNCHANGED <<at, mayWarp>>
     \/ /\ IF mayWarp[p]
           THEN at' = [at EXCEPT ![p] = Arrival(p, To(c))] /\ UNCHANGED past
           ELSE /\ past' = [past EXCEPT !.missed = @ \cup (IF To(c) = "out" THEN {p} ELSE {})]
                /\ UNCHANGED at
        /\ mayWarp' = [mayWarp EXCEPT ![p] = FALSE]
        /\ Continue(c)
  /\ UNCHANGED <<leaving, warps>>
  /\ Apart /\ Ended /\ Team

DoLanded(c) ==
  /\ Does(c, "landed")
  /\ LET p == Who(c) IN
     /\ warps' = [warps EXCEPT ![p] = @ - 1]
     /\ mayWarp' = [mayWarp EXCEPT ![p] = @ \/ warps[p] = 1]
  /\ Continue(c)
  /\ UNCHANGED <<at, leaving, past>>
  /\ Apart /\ Ended /\ Team

\* getMap().removePlayer and setMap, by the removePlayer of a script.
DoPutOut(c) ==
  /\ Does(c, "put out")
  /\ at' = [at EXCEPT ![Who(c)] = IF @ = "gone" THEN @ ELSE "out"]
  /\ Continue(c)
  /\ UNCHANGED <<leaving, warps, mayWarp, past>>
  /\ Apart /\ Ended /\ Team

-----------------------------------------------------------------------------
(***************************************************************************)
(* Deeds about the team.                                                   *)
(***************************************************************************)
\* One function of the script calls another.
DoCall(c) ==
  /\ Does(c, "call")
  /\ With(c, Items(script[To(c)], Who(c)))
  /\ Apart /\ Ended /\ Moves /\ Team

\* Mutant: whoever leads the event is taken for the one who asked, and left out.
DoExitAll_ButLeader(c) ==
  /\ Does(c, "exit all")
  /\ InTurn(c, chars \ {eventLeader}, LAMBDA p : Items(script.exit, p))
  /\ Apart /\ Ended /\ Moves /\ Team

DoExitAll(c) ==
  /\ Does(c, "exit all")
  /\ InTurn(c, chars, LAMBDA p : Items(script.exit, p))
  /\ Apart /\ Ended /\ Moves /\ Team

DoExitOthers(c) ==
  /\ Does(c, "exit others")
  /\ InTurn(c, chars, LAMBDA p : Items(IF p = Who(c) THEN script.removed ELSE script.exit, p))
  /\ Apart /\ Ended /\ Moves /\ Team

DoFirst(c) ==
  /\ Does(c, "first")
  /\ \/ chars = {} /\ Crash(c)
     \/ \E p \in chars : With(c, Items(Item(c).deed.yes, p)) /\ UNCHANGED past
  /\ Apart /\ Ended /\ UNCHANGED <<at, leaving, warps, mayWarp>> /\ Team

DoWarpTeam(c) ==
  /\ Does(c, "warp team")
  /\ InTurn(c, chars, LAMBDA p : Items(<<Go(To(c))>>, p))
  /\ Apart /\ Ended /\ Moves /\ Team

\* disposeIfPlayerBelow: its own loop and disposal, and it catches what they throw.
DoEndIfBelow(c) ==
  /\ Does(c, "end if below")
  /\ IF disposed \/ (To(c) = "need" /\ Cardinality(chars) >= script.need)
     THEN Continue(c)
     ELSE \E order \in SetToSeqs(chars) :
            Under(c, <<Frame("safe", "",
                         FlattenSeq([i \in DOMAIN order |-> Items(<<Unregister, Go("out")>>, order[i])])
                         \o Items(<<Dispose>>, Who(c)))>>)
  /\ Apart /\ Ended /\ Moves /\ Team

\* What a question may be answered, of the player and the way he goes.
Few == Cardinality(chars) <= 1
Answers(test, p, to) ==
  CASE test = "lacking" -> {IF cleared THEN Few
                            ELSE p = eventLeader \/ Cardinality(chars) <= script.need}
    [] test = "lacking, staying" -> {~cleared /\ Cardinality(chars) <= script.need}
    [] test = "lacking, closed" ->
         {FALSE, IF cleared THEN Few ELSE p = eventLeader \/ Cardinality(chars) <= script.need}
    [] test = "few" -> {Few}
    [] test = "short" ->
         {IF cleared /\ ~Few THEN FALSE
          ELSE (~cleared /\ eventLeader \notin chars) \/ Cardinality(chars) < script.need}
    [] test = "marrying" -> {p = Leader}
    [] test = "cleared" -> {cleared}
    [] test = "outside" -> {to = "out"}
    [] test = "coming" -> {at[p] # "in"}
    [] test = "leader outside" -> {~cleared /\ at[p] # "in"}
    [] test = "fact" -> BOOLEAN

DoIf(c) ==
  /\ Does(c, "if")
  /\ \E answer \in Answers(To(c), Who(c), Top(c).to) :
       With(c, Items(IF answer THEN Item(c).deed.yes ELSE Item(c).deed.no, Who(c)))
  /\ Apart /\ Ended /\ Moves /\ Team

DoBreaks(c) ==
  /\ Does(c, "breaks")
  /\ Error(c)
  /\ Apart /\ Ended /\ Moves /\ Team

\* playerRevive has returned false: the standard respawn below it is left out.
DoHandled(c) ==
  /\ Does(c, "handled")
  /\ LET r == Rest(c) IN
     Becomes(c, IF Len(r) > 1 /\ r[2].items # <<>> THEN [r EXCEPT ![2].items = Tail(@)] ELSE r)
  /\ Apart /\ Ended /\ Moves /\ Team

-----------------------------------------------------------------------------
(***************************************************************************)
(* The end.  dispose() takes the instance from the players before it       *)
(* enters the monitor; in there it is sealed, swept, and its lobby freed   *)
(* unless that was done when the event was cleared.                        *)
(***************************************************************************)
DoDispose(c) ==
  /\ Does(c, "dispose")
  /\ member' = member \ chars
  /\ With(c, Items(<<Seal>>, Who(c)))
  /\ UNCHANGED chars /\ Apart /\ Ended /\ Moves

DoSeal(c) ==
  /\ Does(c, "seal") /\ MayEnter(c)
  /\ IF disposed THEN Continue(c) /\ UNCHANGED <<disposed, later>>
     ELSE /\ disposed' = TRUE /\ later' = FALSE
          /\ calls' = [calls EXCEPT ![c] = [@ EXCEPT !.phase = "sweep"]]
  /\ UNCHANGED <<cleared, timer, loose, freed>> /\ Apart /\ Moves /\ Team

Sweep(c) ==
  /\ calls[c].phase = "sweep"
  /\ member' = member \ chars /\ chars' = {}
  /\ calls' = [calls EXCEPT ![c] = [@ EXCEPT !.phase = "free"]]
  /\ Apart /\ Ended /\ Moves

\* Asked for more than once counts as twice.
Again == IF freed = 0 THEN 1 ELSE 2

\* Mutant: the lobby is freed without a look at eventCleared.
Release_Always(c) ==
  /\ calls[c].phase = "free"
  /\ timer' = FALSE /\ freed' = Again
  /\ LET left == Settled(Rest(c)) IN
     calls' = [calls EXCEPT ![c] = IF left = <<>> THEN Idle
                                   ELSE [@ EXCEPT !.stack = left, !.phase = ""]]
  /\ UNCHANGED <<cleared, disposed, loose, later>> /\ Apart /\ Moves /\ Team

Release(c) ==
  /\ calls[c].phase = "free"
  /\ timer' = FALSE
  /\ freed' = IF cleared THEN freed ELSE Again
  /\ LET left == Settled(Rest(c)) IN
     calls' = [calls EXCEPT ![c] = IF left = <<>> THEN Idle
                                   ELSE [@ EXCEPT !.stack = left, !.phase = ""]]
  /\ UNCHANGED <<cleared, disposed, loose, later>> /\ Apart /\ Moves /\ Team

\* setEventCleared sets the flag, then asks for the lobby.
DoSetCleared(c) ==
  /\ Does(c, "set cleared")
  /\ cleared' = TRUE
  /\ With(c, Items(<<FreeLobby>>, Who(c)))
  /\ UNCHANGED <<disposed, timer, loose, later, freed>> /\ Apart /\ Moves /\ Team

DoFreeLobby(c) ==
  /\ Does(c, "free lobby")
  /\ freed' = Again
  /\ Continue(c)
  /\ UNCHANGED <<cleared, disposed, timer, loose, later>> /\ Apart /\ Moves /\ Team

-----------------------------------------------------------------------------
(***************************************************************************)
(* The timer.  event_schedule is overwritten by the next one started, and  *)
(* the task it was is then cancelled by nobody; a task that has begun to   *)
(* run drops the reference, also to a timer started since it fired.        *)
(***************************************************************************)
\* The clock is shown to every member.
Clockless == \E p \in chars : at[p] = "gone"

DoStartTimer(c) ==
  /\ Does(c, "start timer")
  /\ \/ Clockless /\ Crash(c) /\ UNCHANGED <<timer, loose>>
     \/ loose' = (loose \/ timer) /\ timer' = TRUE /\ Continue(c) /\ UNCHANGED past
  /\ UNCHANGED <<cleared, disposed, later, freed>> /\ Apart /\ Still /\ Team

DoStopTimer(c) ==
  /\ Does(c, "stop timer")
  /\ timer' = FALSE
  /\ \/ Clockless /\ Crash(c)
     \/ Continue(c) /\ UNCHANGED past
  /\ UNCHANGED <<cleared, disposed, loose, later, freed>> /\ Apart /\ Still /\ Team

DoDismiss(c) ==
  /\ Does(c, "dismiss")
  /\ \/ Clockless /\ Crash(c) /\ UNCHANGED <<timer, loose>>
     \/ loose' = (loose \/ timer) /\ timer' = FALSE /\ Continue(c) /\ UNCHANGED past
  /\ UNCHANGED <<cleared, disposed, later, freed>> /\ Apart /\ Still /\ Team

\* eim.schedule: refused when the scheduler is gone (EventScriptScheduler has the details).
DoLater(c) ==
  /\ Does(c, "later")
  /\ later' = (later \/ ~disposed)
  /\ Continue(c)
  /\ UNCHANGED <<cleared, disposed, timer, loose, freed>> /\ Apart /\ Moves /\ Team

-----------------------------------------------------------------------------
(***************************************************************************)
(* The Java code around the scripts.                                       *)
(***************************************************************************)
\* registerPlayer: in the monitor it looks at the flag and the player, then, under the lock of
\* the players, registers him, and runs playerEntry.
DoRegister(c) ==
  /\ Does(c, "register") /\ MayEnter(c)
  /\ LET p == Who(c) IN
     IF disposed \/ p \in leaving \/ at[p] = "gone" THEN Continue(c)
     ELSE calls' = [calls EXCEPT ![c] =
            [@ EXCEPT !.phase = "put", !.about = p,
                      !.stack = <<Frame("sync", "", Items(<<Invoke("entry")>>, p))>> \o Rest(c)]]
  /\ Apart /\ Ended /\ Moves /\ Team

Put(c) ==
  /\ calls[c].phase = "put"
  /\ LET p == calls[c].about IN
     IF p \in chars
     THEN LET left == Settled(Tail(calls[c].stack)) IN
          /\ calls' = [calls EXCEPT ![c] = IF left = <<>> THEN Idle
                                           ELSE [@ EXCEPT !.stack = left, !.phase = ""]]
          /\ Team /\ UNCHANGED past
     ELSE /\ chars' = chars \cup {p} /\ member' = member \cup {p}
          /\ calls' = [calls EXCEPT ![c] = [@ EXCEPT !.phase = ""]]
          /\ past' = [past EXCEPT !.came = @ \cup {p},
               !.missed = @ \cup (IF \E d \in Calls \ {c} : Busy(d) THEN {p} ELSE {})]
  /\ Apart /\ Ended /\ UNCHANGED <<at, leaving, warps, mayWarp>>

\* invokeScriptFunction looks at the flag, once, and calls.
DoInvoke(c) ==
  /\ \/ Does(c, "invoke")
     \/ Does(c, "ask")
  /\ IF disposed \/ (Item(c).deed.do = "ask" /\ Who(c) \notin member) THEN Continue(c)
     ELSE Under(c, <<Invoked(To(c), "", Who(c))>>)
  /\ Apart /\ Ended /\ Moves /\ Team

\* World.updateParty with CHANGE_LEADER: the event of the old leader is told first, inside its
\* monitor, if he led the event as well.
DoPassLead(c) ==
  /\ Does(c, "pass lead")
  /\ IF partyLeader \in member /\ partyLeader = eventLeader
     THEN /\ MayEnter(c)
          /\ LET q == Who(c) IN
             Becomes(c, <<Frame("sync", "", Items(<<Invoke("chief"), Lead>>, q))>>
                        \o [Rest(c) EXCEPT ![1].items = Items(<<LeadParty>>, q) \o @])
     ELSE With(c, Items(<<LeadParty>>, Who(c)))
  /\ Apart /\ Ended /\ Moves /\ Team

DoLead(c) ==
  /\ Does(c, "lead")
  /\ eventLeader' = Who(c)
  /\ Continue(c)
  /\ UNCHANGED <<setting, partyLeader, party, happened>> /\ Ended /\ Moves /\ Team

DoLeadParty(c) ==
  /\ Does(c, "lead party")
  /\ partyLeader' = Who(c)
  /\ Continue(c)
  /\ UNCHANGED <<setting, eventLeader, party, happened>> /\ Ended /\ Moves /\ Team

\* respawn(map.getReturnMapId()): a map of the instance may return to one of its own.
DoStandard(c) ==
  /\ Does(c, "standard")
  /\ \E to \in {"in", "out"} :
       /\ to = "in" => Who(c) \in member
       /\ With(c, Items(<<Go(to)>>, Who(c)))
  /\ Apart /\ Ended /\ Moves /\ Team

\* The rest of the disconnection: off the map, out of the channel, the client cleared.
DoVanish(c) ==
  /\ Does(c, "vanish")
  /\ at' = [at EXCEPT ![Who(c)] = "gone"]
  /\ Continue(c)
  /\ UNCHANGED <<leaving, warps, mayWarp, past>> /\ Apart /\ Ended /\ Team

-----------------------------------------------------------------------------
(***************************************************************************)
(* What happens.  The packets of one client are handled one after the      *)
(* other; his disconnection is a task of the pool and waits for none.      *)
(***************************************************************************)
Online(p) == at[p] # "gone" /\ p \notin leaving
Starts(by, frames) ==
  \E c \in Calls :
    /\ c <= setting.calls /\ ~Busy(c) /\ \A d \in Calls : d < c => Busy(d)
    /\ by \in Players => Online(by) /\ \A d \in Calls : calls[d].by # by
    /\ calls' = [calls EXCEPT ![c] = [by |-> by, phase |-> "", about |-> Leader, stack |-> frames]]
    /\ past' = [past EXCEPT !.overlapped = @ \/ \E d \in Calls : Busy(d)]
Java(deeds, p) == Frame("java", "", Items(deeds, p))
Happens(by, frames) ==
  /\ happened < setting.happenings /\ happened' = happened + 1
  /\ Starts(by, frames)
Whole == UNCHANGED <<setting, eventLeader, partyLeader>>

\* A portal, a skill or an NPC of the event changes the player's map.
Wander(p, to) ==
  /\ at[p] = "in"
  /\ Happens(p, <<Java(<<Go(to)>>, p)>>)
  /\ Whole /\ Ended /\ Still /\ Team /\ UNCHANGED party

\* MapleParty.leaveParty: the leader's leaving disbands the party.
LeaveParty(p) ==
  /\ p \in party
  /\ party' = IF p = partyLeader THEN {} ELSE party \ {p}
  /\ Happens(p, <<Java(<<Ask(IF p = partyLeader THEN "disband" ELSE "left")>>, p)>>)
  /\ Whole /\ Ended /\ Still /\ Team

Expel(p) ==
  /\ p \in party \ {partyLeader} /\ partyLeader \in party /\ at[p] # "gone"
  /\ party' = party \ {p}
  /\ Happens(partyLeader, <<Java(<<Ask("left")>>, p)>>)
  /\ Whole /\ Ended /\ Still /\ Team

HandOver(p) ==
  /\ p \in party \ {partyLeader} /\ partyLeader \in party /\ at[p] # "gone"
  /\ Happens(partyLeader, <<Java(<<PassLead>>, p)>>)
  /\ Whole /\ Ended /\ Still /\ Team /\ UNCHANGED party

\* Mutant: the event does not hear of it.
Drop_Silent(p) ==
  /\ Online(p)
  /\ leaving' = leaving \cup {p}
  /\ Happens("pool", <<Java(<<Vanish>>, p)>>)
  /\ UNCHANGED <<at, warps, mayWarp, party>>
  /\ Whole /\ Ended /\ Team

\* MapleClient.removePlayer, which catches everything, and what follows it.  A leader passes
\* the lead to somebody on his very map, if there is one.
Drop(p) ==
  /\ Online(p)
  /\ leaving' = leaving \cup {p}
  /\ LET near == {q \in party \ {p} : at[q] = at[p]}
         heirs == IF p = partyLeader /\ p \in party THEN near ELSE {}
         lost == Items(<<Ask("lost")>>, p) IN
     \E passing \in {Items(<<PassLead>>, q) : q \in heirs} \cup {<<>>} :
       Happens("pool", <<Frame("safe", "", passing \o lost), Java(<<Vanish>>, p)>>)
  /\ UNCHANGED <<at, warps, mayWarp, party>>
  /\ Whole /\ Ended /\ Team

\* playerDead is a task of the pool.
Die(p) ==
  /\ p \in member /\ at[p] = "in" /\ script.dead # <<>>
  /\ Happens("pool", <<Java(<<Invoke("dead")>>, p)>>)
  /\ Whole /\ Ended /\ Still /\ Team /\ UNCHANGED party

Revive(p) ==
  /\ at[p] = "in"
  /\ Happens(p, <<Java(<<Ask("revive"), Standard>>, p)>>)
  /\ Whole /\ Ended /\ Still /\ Team /\ UNCHANGED party

\* An NPC, a portal, a reactor or the boss's end calls clearPQ, when it was not cleared yet.
Finish(p) ==
  /\ p \in member /\ ~cleared /\ script.clear # <<>>
  /\ Happens(p, <<Java(<<Ask("clear")>>, p)>>)
  /\ Whole /\ Ended /\ Still /\ Team /\ UNCHANGED party

\* What the event is to protect is lost.
Accident(p) ==
  /\ p \in member /\ script.friend # <<>>
  /\ Happens(p, <<Java(<<Ask("friend")>>, p)>>)
  /\ Whole /\ Ended /\ Still /\ Team /\ UNCHANGED party

\* An NPC lets a player in again.
Rejoin(p) ==
  /\ script.open /\ at[p] = "out" /\ p \notin member
  /\ Happens(p, <<Java(<<Register>>, p)>>)
  /\ Whole /\ Ended /\ Still /\ Team /\ UNCHANGED party

TimerFires ==
  /\ \/ timer /\ timer' = FALSE /\ UNCHANGED loose
     \/ loose /\ loose' = FALSE /\ UNCHANGED timer
  /\ Starts("clock", <<Java(<<Dismiss, Invoke("timeout")>>, Leader)>>)
  /\ UNCHANGED <<cleared, disposed, later, freed, party, happened>> /\ Whole /\ Still /\ Team

LaterFires ==
  /\ later /\ later' = FALSE
  /\ Starts("worker", <<Java(<<Invoke("later")>>, Leader)>>)
  /\ UNCHANGED <<cleared, disposed, timer, loose, freed, party, happened>> /\ Whole /\ Still /\ Team

-----------------------------------------------------------------------------
\* startInstance: setup, then the registration of the player or of the team on his map.
Init ==
  /\ setting \in Settings
  /\ chars = {} /\ member = {} /\ leaving = {}
  /\ past = [came |-> {}, missed |-> {}, overlapped |-> FALSE, crashed |-> FALSE]
  /\ at = [p \in Players |-> "out"]
  /\ eventLeader = Leader /\ partyLeader = Leader
  /\ party = IF script.solo THEN {Leader} ELSE setting.team
  /\ cleared = FALSE /\ disposed = FALSE
  /\ timer = FALSE /\ loose = FALSE /\ later = FALSE /\ freed = 0
  /\ warps = [p \in Players |-> 0] /\ mayWarp = [p \in Players |-> TRUE]
  /\ happened = 0
  /\ \E order \in SetToSeqs(party) :
       calls = [c \in Calls |->
         IF c # Min(Calls) THEN Idle
         ELSE [by |-> Leader, phase |-> "", about |-> Leader,
               stack |-> Settled(<<Invoked("setup", "", Leader),
                   Frame("java", "", [i \in DOMAIN order |-> [deed |-> Register, who |-> order[i]]])>>)]]

Doing(c) ==
  \/ DoUnregister(c) \/ DoGo(c) \/ DoWarp(c) \/ DoLanded(c) \/ DoPutOut(c)
  \/ DoCall(c) \/ DoExitAll(c) \/ DoExitOthers(c) \/ DoFirst(c) \/ DoWarpTeam(c)
  \/ DoEndIfBelow(c) \/ DoIf(c) \/ DoBreaks(c) \/ DoHandled(c)
  \/ DoDispose(c) \/ DoSeal(c) \/ Sweep(c) \/ Release(c) \/ DoSetCleared(c) \/ DoFreeLobby(c)
  \/ DoStartTimer(c) \/ DoStopTimer(c) \/ DoDismiss(c) \/ DoLater(c)
  \/ DoRegister(c) \/ Put(c) \/ DoInvoke(c) \/ DoPassLead(c) \/ DoLead(c) \/ DoLeadParty(c)
  \/ DoStandard(c) \/ DoVanish(c)

Next ==
  \/ \E c \in Calls : Doing(c)
  \/ \E p \in setting.team :
       \/ \E to \in {"in", "out"} : Wander(p, to)
       \/ LeaveParty(p) \/ Expel(p) \/ HandOver(p) \/ Drop(p)
       \/ Die(p) \/ Revive(p) \/ Finish(p) \/ Accident(p) \/ Rejoin(p)
  \/ TimerFires \/ LaterFires

Spec == Init /\ [][Next]_vars

-----------------------------------------------------------------------------
\* The state is what the program keeps; in particular canWarpCounter is never negative here,
\* and no step leaves a call outside the phases of the monitor.
TypeOK ==
  /\ setting \in Settings
  /\ chars \subseteq Players /\ member \subseteq Players
  /\ leaving \subseteq Players /\ party \subseteq Players
  /\ at \in [Players -> Places]
  /\ eventLeader \in Players /\ partyLeader \in Players
  /\ {cleared, disposed, timer, loose, later} \subseteq BOOLEAN
  /\ freed \in 0..2 /\ happened \in 0..setting.happenings
  /\ \A p \in Players : warps[p] \in Nat /\ mayWarp[p] \in BOOLEAN
  /\ DOMAIN calls = Calls
  /\ \A c \in Calls : calls[c].by \in Threads \cup {""} /\ calls[c].phase \in Phases

AtRest == \A c \in Calls : ~Busy(c)
Crashed == past.overlapped /\ past.crashed

\* A disposed event has no players and no player has it, at any moment after its sweep:
\* registerPlayer looks at `disposed` inside the monitor that dispose(boolean) holds, and
\* nothing else adds a player.
DisposedIsEmpty ==
  disposed /\ (\A c \in Calls : calls[c].phase # "sweep") => chars = {} /\ member = {}

\* When an event is disposed of and everything has run its course, no player who is online is
\* still on one of its maps, which are about to be torn down: end() and its like took everyone
\* out, for every script.  Excused are the players whom another change of map of theirs kept
\* (changeMapInternal gives up silently), those registered while another call went on (the
\* loop over getPlayers() may have begun), and calls that a RuntimeException ended half-way
\* after an overlap (a member who has logged off in between).
NobodyForgotten ==
  disposed /\ AtRest /\ ~Crashed =>
    \A p \in Players : at[p] = "in" /\ Online(p) => p \in past.missed

\* The lobby of a disposed event has been given back, by setEventCleared or by dispose, and
\* once, unless calls overlapped (then it may be given back under the next event as well).
LobbyReturned ==
  disposed /\ AtRest => freed = 1 \/ (past.overlapped /\ freed > 1)

\* Deeds that do not lead to the clearing of the event, nor do their answers.
Mild(M) ==
  \A d \in M : /\ d.do \notin {"set cleared", "free lobby"}
               /\ d.do \in {"call", "invoke", "ask"} => d.to # "clear"
               /\ d.yes \in Seq(M) /\ d.no \in Seq(M)
\* A script whose clearPQ alone clears the event, once, and before anything but stopping
\* the timer: what may be said of it is that the lobby is given back once.
ClearsOnce(s, M) ==
  /\ \A h \in Handlers \ {"clear"} : s[h] \in Seq(M)
  /\ \A i \in DOMAIN s.clear :
       \/ s.clear[i] \in M
       \/ s.clear[i] = SetCleared /\ \A j \in 1..(i - 1) : s.clear[j] = StopTimer

\* Deeds that see to the end of an event of script s, whatever is answered: they dispose of it,
\* clear it, leave a task that does, or lead to such deeds.
Some(deeds, E) == \E i \in DOMAIN deeds : deeds[i] \in E
SeesToEnd(E, s) ==
  \A d \in E :
    \/ d.do \in {"dispose", "set cleared"}
    \/ d.do = "start timer" /\ Some(s.timeout, E)
    \/ d.do = "later" /\ Some(s.later, E)
    \/ d.do = "call" /\ Some(s[d.to], E)
    \/ d.do = "first" /\ Some(d.yes, E)
    \/ d.do = "if" /\ Some(d.yes, E) /\ Some(d.no, E)
\* A script that ends its events by itself: what it begins with is such a deed, it stops the
\* timer only before another, and no error ends it half-way.
StopsBefore(deeds, E) ==
  \A i \in DOMAIN deeds :
    deeds[i].do = "stop timer" => \E j \in DOMAIN deeds : i < j /\ deeds[j] \in E
EndsItself(s, M, E) ==
  /\ SeesToEnd(E, s) /\ (Some(s.setup, E) \/ Some(s.entry, E))
  /\ \A h \in Handlers : s[h] \in Seq(M) /\ StopsBefore(s[h], E)
  /\ \A d \in M : /\ d.do \notin {"breaks", "handled"}
                 /\ \A q \in {d.yes, d.no} : q \in Seq(M) /\ StopsBefore(q, E)
  /\ \A q \in {s.exit, s.removed} : \A i \in DOMAIN q : q[i].do # "stop timer"

\* An event that had players and has none online any more does not keep its lobby for ever:
\* it was given back, or a task is waiting that will end the event.
EmptyEventWillEnd ==
  /\ AtRest /\ past.came # {} /\ \A p \in chars : ~Online(p)
  /\ ~Crashed /\ script \notin Unending
  => freed > 0 \/ timer \/ loose \/ later
=============================================================================
