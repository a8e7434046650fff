------------------------------- MODULE Portals -------------------------------
(***************************************************************************)
(* One player who enters portals (server/maps/MapleGenericPortal,          *)
(* scripting/portal, the two handlers of map changes, MapleCharacter's     *)
(* changeMap and the scripts a map runs on arrival).                       *)
(*                                                                         *)
(* A client that has asked to enter a portal does nothing more until it is *)
(* told to move, is shown a page, or has its actions enabled again.  The   *)
(* scripts of portals decide which, by what they do and by what they       *)
(* return; every exception of theirs counts as a return of false.          *)
(*                                                                         *)
(* A change of map may contain another: the event the player is in can     *)
(* throw him out while it is told of the change, and the script of the map *)
(* can send him ahead.  MapleCharacter counts the changes under way        *)
(* (canWarpCounter) and lets the first that gets through shut the gate     *)
(* (canWarpMap) on those around it, until the outermost is over.  Neither  *)
(* field is guarded: an exception leaves the count where it is, and a      *)
(* change by a timer at the same time as the client's may lose an update.  *)
(*                                                                         *)
(* Which portal of which map leads where is data of the client: any portal *)
(* can be entered, and any script may run on arrival.                      *)
(***************************************************************************)
EXTENDS WorldScripts, FiniteSets

CONSTANTS
  PortalTables,  \* the tables of the scripts of portals, by name
  MapTables,     \* the tables of the scripts run on arrival in a map
  MaxMishaps,    \* bound: changes of map that fail or overlap, between two logins
  \* The scripts found to break one of the promises below.
  Mute,          \* they return true having neither moved nor answered the player
  Restless,      \* they move the player twice
  Tolls          \* they take something and let nobody through

VARIABLES
  player,   \* what the server keeps: the gate, and whether he is in a conversation or an event
  client,   \* what the client is at, see Clients
  mishaps,  \* changes of map that failed or overlapped since the login
  entry,    \* the portal entered last, and what has come of it
  run       \* what is left to do of the script of a portal

vars == <<player, client, mishaps, entry, run>>

\* Free; asked and not answered; told to enable its actions; between two maps; at a page.
Clients == {"free", "waiting", "answered", "moving", "talking"}

PortalNames == DOMAIN PortalTables
Plain       == "a portal without a script"
Respawn     == "a dead player's answer"
Nobody      == "no entry"
Entrances   == PortalNames \cup {Plain, Respawn, Nobody}
NoEntry == [who |-> Nobody, moves |-> 0, took |-> FALSE, ahead |-> FALSE, refused |-> FALSE,
            ignored |-> FALSE, threw |-> FALSE]
EntryOf(who) == [NoEntry EXCEPT !.who = who]
Threw(e) == [e EXCEPT !.threw = TRUE]
Took(e)  == [e EXCEPT !.took = TRUE]
NoRun == [on |-> FALSE, todo |-> <<>>, fate |-> ""]

ASSUME PortalAssumption ==
  /\ PortalNames \cap {Plain, Respawn, Nobody} = {}
  /\ MaxMishaps \in Nat
-----------------------------------------------------------------------------
(***************************************************************************)
(* The changes of map, as functions of a world: the player, his client and *)
(* the entry under way.                                                    *)
(***************************************************************************)
World == [player |-> player, client |-> client, mishaps |-> mishaps, entry |-> entry]
Becomes(w) ==
  /\ player' = w.player
  /\ client' = w.client
  /\ mishaps' = w.mishaps
  /\ entry' = w.entry

\* What one assignment does to a world.
Up(w)          == [w EXCEPT !.player.counter = @ + 1]
Gated(w, n, b) == [w EXCEPT !.player = [canWarp |-> b, counter |-> n, talking |-> w.player.talking,
                                        event |-> w.player.event]]
Reopened(w)    == [w EXCEPT !.player.canWarp = TRUE]
Joined(w)      == [w EXCEPT !.player.event = TRUE]
Left(w)        == [w EXCEPT !.player.event = FALSE]
Hushed(w)      == [w EXCEPT !.player.talking = FALSE]
Talking(w)     == [w EXCEPT !.player.talking = TRUE]
Shown(w)       == [w EXCEPT !.client = IF w.client = "moving" THEN "moving" ELSE "talking"]
Sent(w)        == [w EXCEPT !.client = "moving"]
Moved(w)       == [w EXCEPT !.entry.moves = @ + 1]
ToGoAhead(w)   == [w EXCEPT !.entry.ahead = TRUE]
Ignored(w)     == [w EXCEPT !.entry.ignored = TRUE]
Refused(w)     == [w EXCEPT !.entry.refused = TRUE]
Thrown(w)      == [w EXCEPT !.entry.threw = TRUE]
Missed(w)      == [w EXCEPT !.mishaps = @ + 1]

\* Seeded defect: a change that was ignored does not give its turn back.
Down_Ignored(w) ==
  IF w.entry.ignored THEN w ELSE Gated(w, w.player.counter - 1, w.player.counter = 1)
Down(w) == Gated(w, w.player.counter - 1, w.player.counter = 1)

\* An exception out of a change of map: the count keeps the changes it ends.
Mishap(w) == IF w.mishaps < MaxMishaps THEN {Thrown(Missed(w))} ELSE {}

\* The warp is sent, and whatever the player is doing with others is closed.
Landed(w) == Moved(Hushed(Sent(w)))

\* changeMapInternal, into a map that runs nothing: an event's exit, the ship ahead.
\* Seeded defect: the gate is not looked at.
Pass_Ungated(w) == Landed(w)
Pass(w) == IF w.player.canWarp THEN Landed(w) ELSE Ignored(w)

(***************************************************************************)
(* What the event makes of a change: nothing, or it forgets the player, or *)
(* it exits him by a change of its own (changedMap of the event scripts,   *)
(* with unregisterPlayer, end, playerExit).                                *)
(***************************************************************************)
ToldEvent(w) ==
  IF ~w.player.event THEN {w}
  ELSE {w, Left(w), Down(Pass(Up(Left(w))))} \cup Mishap(Up(Left(w)))

\* openNpc: nothing while a conversation is open, of which no page need be left.  Else the
\* script of the NPC shows a page; or it is not there, or ends before that, and is disposed of.
Opened(w)  == IF w.player.talking THEN Refused(w) ELSE Shown(Talking(w))
Unheard(w) == IF w.player.talking THEN Refused(w) ELSE w

\* What the ways through the scripts of maps come to: a player sent ahead, a page.
Arrivals ==
  {[ahead |-> \E i \in DOMAIN b.does : b.does[i][1] = "ahead",
    npc   |-> \E i \in DOMAIN b.does : b.does[i][1] = "npc"] :
     b \in UNION {Ways(MapTables[m]) : m \in DOMAIN MapTables}}

\* The change to newWarpMap, for which the gate is opened.
\* Seeded defect: its turn is not given back.
SentAhead_Counts(w) ==
  {IF v.entry.threw THEN v ELSE Pass(v) :
     v \in ToldEvent(Up(Reopened(ToGoAhead(w))))}
SentAhead(w) ==
  {IF v.entry.threw THEN v ELSE Down(Pass(v)) :
     v \in ToldEvent(Up(Reopened(ToGoAhead(w))))}

\* What a way through the script of the map makes of the arrival there.
Landing(w, a) == IF a.npc THEN Opened(Landed(w)) ELSE Landed(w)

\* changeMapInternal.  A script's own errors are caught, a Java exception in it passes.
Arrive(w) ==
  IF ~w.player.canWarp THEN {Pass(w)}
  ELSE Mishap(Landed(w)) \cup
         (UNION {IF a.ahead THEN SentAhead(Landing(w, a)) ELSE {Landing(w, a)} : a \in Arrivals})

(***************************************************************************)
(* MapleCharacter.changeMap.  The portal to arrive at may be missing: the  *)
(* exception comes when the change is counted already.                     *)
(***************************************************************************)
Change(w) ==
  LET told   == ToldEvent(Up(w))
      inside == UNION {IF v.entry.threw THEN {v} ELSE Arrive(v) : v \in told}
  IN  {IF v.entry.threw THEN v ELSE Down(v) : v \in inside} \cup Mishap(Up(w))

(***************************************************************************)
(* A change while somebody else's thread changes the player's map as well. *)
(* One or both get through, and updates of the two fields may be lost:     *)
(* these are the outcomes of two unsynchronized runs from (TRUE, 0).       *)
(***************************************************************************)
Races ==
  {g \in [twice : BOOLEAN, counter : -1 .. 1, canWarp : BOOLEAN] :
     /\ g.counter = 0 => g.canWarp
     /\ g.counter = 1 /\ g.canWarp => ~g.twice}
Overlap(w) ==
  IF w.player.counter # 0 \/ ~w.player.canWarp \/ w.mishaps = MaxMishaps THEN {}
  ELSE {Gated(Missed(IF g.twice THEN Landed(Landed(w)) ELSE Landed(w)), g.counter, g.canWarp) :
          g \in Races}

Moves(w) == Change(w) \cup Overlap(w)

-----------------------------------------------------------------------------
\* The steps of a way through a script that the player or the client can tell.
Step(b, e) ==
  CASE e[1] \in Warping                    -> "warp"
    [] e[1] \in {"enable", "block"}        -> "enable"
    [] e = ToEvent("dispose")              -> "dispose"
    [] e[1] \in Taking /\ ~Secured(b, e)   -> "take, perhaps"
    [] e[1] \in Losing                     -> "take"
    [] OTHER                               -> e[1]
Steps == {"warp", "instance", "npc", "silent npc", "enable", "to the event", "dispose", "take",
          "take, perhaps"}
Program(b) == SelectSeq([i \in DOMAIN b.does |-> Step(b, b.does[i])], LAMBDA s : s \in Steps)

Broken == [on |-> TRUE, todo |-> <<>>, fate |-> "breaks"]

ASSUME ProgramsAssumption ==
  \A who \in PortalNames : \A b \in Ways(PortalTables[who]) :
    Program(b) \in Seq(Steps) /\ b.fate \in {"through", "stays", "breaks"}

\* The packets of one client are handled one after the other.
MayAct == ~run.on /\ client = "free"

\* ChangeMapSpecialHandler, enterPortal and executePortalScript.
EnterPortal ==
  /\ MayAct
  /\ \E who \in PortalNames : \E b \in Ways(PortalTables[who]) :
       \/ /\ Goes(b, player.event)
          /\ run' = [on |-> TRUE, todo |-> Program(b), fate |-> b.fate]
          /\ entry' = EntryOf(who)
       \/ /\ Fails(b, player.event)
          /\ run' = Broken
          /\ entry' = Threw(EntryOf(who))
  /\ client' = "waiting"
  /\ UNCHANGED <<player, mishaps>>

\* Either handler, of a portal that is too far, closed, or has blocked itself for the player.
RefuseEntry ==
  /\ MayAct
  /\ client' = "answered"
  /\ UNCHANGED <<player, mishaps, entry, run>>

\* ChangeMapHandler, a player marked as a cheater, on any channel but theirs: only a message.
TurnAway ==
  /\ MayAct
  /\ \E who \in {Plain, Respawn} : entry' = [EntryOf(who) EXCEPT !.refused = TRUE]
  /\ client' = "waiting"
  /\ UNCHANGED <<player, mishaps, run>>

Doing(step) == run.on /\ run.todo # <<>> /\ Head(run.todo) = step
Proceed == run' = IF entry'.threw THEN Broken ELSE [run EXCEPT !.todo = Tail(@)]

DoWarp == Doing("warp") /\ (\E w \in Moves(World) : Becomes(w)) /\ Proceed

\* EventManager.startInstance: the player is registered, and its script moves him in.
DoInstance ==
  /\ Doing("instance")
  /\ \E w \in Moves(Joined(World)) : Becomes(w)
  /\ Proceed

DoNpc ==
  /\ \/ Doing("npc") /\ Becomes(Opened(World))
     \/ Doing("silent npc") /\ Becomes(Unheard(World))
  /\ Proceed

DoEnable ==
  /\ Doing("enable")
  /\ client' = IF client = "waiting" THEN "answered" ELSE client
  /\ UNCHANGED <<player, mishaps, entry>>
  /\ Proceed

\* A call of an instance the player is no longer in is an error, or goes to one that is over.
DoToEvent ==
  /\ Doing("to the event")
  /\ entry' \in {entry} \cup IF player.event THEN {} ELSE {Threw(entry)}
  /\ UNCHANGED <<player, client, mishaps>>
  /\ Proceed
DoDispose ==
  /\ Doing("dispose")
  /\ player' = [player EXCEPT !.event = FALSE]
  /\ UNCHANGED <<client, mishaps, entry>>
  /\ Proceed

\* Seeded defect: the removal looks at one stack, and throws when the rest is in another.
DoTake_OneStack ==
  /\ Doing("take") \/ Doing("take, perhaps")
  /\ entry' \in {Took(entry), Threw(entry), Threw(Took(entry))}
  /\ UNCHANGED <<player, client, mishaps>>
  /\ Proceed

\* removeById throws when there is not enough, having taken what there was.
DoTake ==
  /\ \/ /\ Doing("take") \/ Doing("take, perhaps")
        /\ entry' = Took(entry)
     \/ /\ Doing("take, perhaps")
        /\ entry' \in {Threw(entry), Threw(Took(entry))}
  /\ UNCHANGED <<player, client, mishaps>>
  /\ Proceed

\* The end of enterPortal: a client that was not let through may act again.
\* Seeded defect: an exception counts as a return of true.
FinishScript_Lets ==
  /\ run.on /\ run.todo = <<>>
  /\ client' = IF client = "waiting" /\ run.fate = "stays" THEN "answered" ELSE client
  /\ run' = NoRun
  /\ UNCHANGED <<player, mishaps, entry>>
FinishScript ==
  /\ run.on /\ run.todo = <<>>
  /\ client' = IF client = "waiting" /\ run.fate # "through" THEN "answered" ELSE client
  /\ run' = NoRun
  /\ UNCHANGED <<player, mishaps, entry>>

-----------------------------------------------------------------------------
Asking(w, who) == [player |-> w.player, client |-> "waiting", mishaps |-> w.mishaps,
                   entry |-> EntryOf(who)]

\* ChangeMapHandler, a portal that leads to a map; an exception is caught there, unanswered.
EnterPlainPortal ==
  /\ MayAct
  /\ \E w \in Moves(Asking(World, Plain)) : Becomes(w)
  /\ UNCHANGED run

\* ChangeMapHandler, a dead player: the event may let him go, he respawns, and may act again.
Enabled(w) == IF w.client = "waiting" /\ ~w.entry.threw THEN [w EXCEPT !.client = "answered"]
              ELSE w
Revive ==
  /\ MayAct
  /\ \E w \in {World, Left(World)} : \E v \in Moves(Asking(w, Respawn)) : Becomes(Enabled(v))
  /\ UNCHANGED run

(***************************************************************************)
(* A timer of an event, another player or a script moves the player, into  *)
(* an event or not, whatever the client is at, between two steps of a      *)
(* portal's script as well.  The entry under way is none of its business.  *)
(***************************************************************************)
Unasked(w) == [w EXCEPT !.entry = NoEntry]
MovedByOthers ==
  /\ \E w \in {World, Joined(World)} : \E v \in Change(Unasked(w)) :
       player' = v.player /\ client' = v.client /\ mishaps' = v.mishaps
  /\ UNCHANGED <<entry, run>>

\* The event is disposed of, or forgets the player.
EventEnds ==
  /\ player.event
  /\ player' = [player EXCEPT !.event = FALSE]
  /\ UNCHANGED <<client, mishaps, entry, run>>

\* PlayerMapTransitionHandler; a page sent on arrival is shown then.
TransitionDone ==
  /\ ~run.on
  /\ client = "moving"
  /\ client' = IF player.talking THEN "talking" ELSE "free"
  /\ entry' = NoEntry
  /\ UNCHANGED <<player, mishaps, run>>

ReceiveAnswer ==
  /\ ~run.on
  /\ client = "answered" /\ client' = "free"
  /\ entry' = NoEntry
  /\ UNCHANGED <<player, mishaps, run>>

\* The conversation is disposed of; or no page is left of it, and it stays open.
TalkEnds ==
  /\ ~run.on
  /\ client = "talking" /\ client' = "answered"
  /\ player' = [player EXCEPT !.talking = FALSE]
  /\ entry' = NoEntry
  /\ UNCHANGED <<mishaps, run>>
TalkIsStranded ==
  /\ ~run.on
  /\ client = "talking" /\ client' = "free"
  /\ entry' = NoEntry
  /\ UNCHANGED <<player, mishaps, run>>

\* The player logs in again, whatever became of him; the client is "between two maps".
LoggedIn == [canWarp |-> TRUE, counter |-> 0, talking |-> FALSE, event |-> FALSE]
Relog ==
  /\ ~run.on
  /\ player' = LoggedIn /\ client' = "moving"
  /\ mishaps' = 0 /\ entry' = NoEntry
  /\ UNCHANGED run

Init ==
  /\ player = LoggedIn /\ client = "moving"
  /\ mishaps = 0 /\ entry = NoEntry /\ run = NoRun

Next ==
  \/ EnterPortal \/ RefuseEntry \/ TurnAway
  \/ DoWarp \/ DoInstance \/ DoNpc \/ DoEnable \/ DoToEvent \/ DoDispose \/ DoTake
  \/ FinishScript
  \/ EnterPlainPortal \/ Revive
  \/ MovedByOthers \/ EventEnds
  \/ TransitionDone \/ ReceiveAnswer
  \/ TalkEnds \/ TalkIsStranded
  \/ Relog

Spec == Init /\ [][Next]_vars

-----------------------------------------------------------------------------
\* The state is what the program keeps.  A change that fails has three counted at most, the
\* player's, the one ahead and the event's; an overlap loses one.
Counts == -MaxMishaps .. 3 * MaxMishaps
TypeOK ==
  /\ player \in [canWarp : BOOLEAN, counter : Counts, talking : BOOLEAN, event : BOOLEAN]
  /\ client \in Clients
  /\ mishaps \in 0 .. MaxMishaps
  /\ entry \in [who : Entrances, moves : Nat, took : BOOLEAN, ahead : BOOLEAN, refused : BOOLEAN,
                ignored : BOOLEAN, threw : BOOLEAN]
  /\ run \in [on : BOOLEAN, todo : Seq(Steps), fate : {"", "through", "stays", "breaks"}]

(***************************************************************************)
(* The gate: between changes none is counted and the next gets through,    *)
(* however the changes were nested.  Only a failed or an overlapping       *)
(* change leaves it otherwise.                                             *)
(***************************************************************************)
GateReopens == mishaps = 0 => player.canWarp /\ player.counter = 0

(***************************************************************************)
(* A client that asks to enter a portal is answered when the handler is    *)
(* done: moved, shown a page, or enabled.  But for the scripts in Mute, it *)
(* waits for ever only if openNpc, the gate or (for a cheater) the handler *)
(* refused silently, or if a change failed outside of a script.            *)
(***************************************************************************)
Answered ==
  ~run.on /\ client = "waiting" =>
    \/ entry.who \in Mute
    \/ entry.refused
    \/ entry.ignored
    \/ entry.who \in {Plain, Respawn} /\ entry.threw

\* MapleCharacter: only one "warp" must be used per call; the others are ignored.
OneDestination ==
  mishaps = 0 /\ ~entry.ahead /\ entry.who \notin Restless => entry.moves <= 1

\* A portal that lets nobody through takes nothing.
GateTakesNothing ==
  ~run.on /\ entry.took /\ entry.moves = 0 /\ mishaps = 0 => entry.who \in Tolls
=============================================================================
