---------------------------- MODULE EventScripts ----------------------------
(***************************************************************************)
(* What the scripts of events (src/scripts/event) do to their instance.    *)
(* A script is a record of handlers, one for each function that            *)
(* EventInstanceManager invokes; a handler is a sequence of deeds, done    *)
(* one after the other, with other threads in between.  Monsters, items,   *)
(* experience and messages are left out, and so is what a handler does     *)
(* only with them.  A handler that is empty and one that is missing are    *)
(* the same to the caller.                                                 *)
(*                                                                         *)
(* Maps are "in" (those of the event) or "out" (any other).                *)
(***************************************************************************)
EXTENDS Naturals, Sequences

Deed(what, to, yes, no) == [do |-> what, to |-> to, yes |-> yes, no |-> no]
Plain(what)      == Deed(what, "", <<>>, <<>>)

\* Deeds about the player the handler was called for.
Unregister == Plain("unregister")
Go(to)     == Deed("go", to, <<>>, <<>>)       \* changeMap
PutOut     == Plain("put out")                 \* off the map, without a change of map
Exit       == Deed("call", "exit", <<>>, <<>>) \* the script's own playerExit
Removed    == Deed("call", "removed", <<>>, <<>>)  \* the script's own removePlayer
Respawned  == <<Unregister, Go("out")>>        \* MapleCharacter.respawn with an instance
Handled    == Plain("handled")                 \* playerRevive returns false

\* Deeds about the team: whoever is registered when the deed begins.
ExitAll      == Plain("exit all")
ExitOthers   == Plain("exit others")           \* the player himself: removePlayer
FirstOf(what) == Deed("first", "", what, <<>>) \* getPlayers().get(0)
WarpTeam(to) == Deed("warp team", to, <<>>, <<>>)
EndIfFew     == Deed("end if below", "need", <<>>, <<>>)  \* disposeIfPlayerBelow(minPlayers)
EndAnyway    == Deed("end if below", "any", <<>>, <<>>)   \* disposeIfPlayerBelow(100)

\* Deeds about the instance.
End        == Deed("call", "end", <<>>, <<>>)
Clear      == Deed("call", "clear", <<>>, <<>>)
Dispose    == Plain("dispose")
StartTimer == Plain("start timer")
StopTimer  == Plain("stop timer")
SetCleared == Plain("set cleared")
Later      == Plain("later")                   \* eim.schedule of the handler "later"
Breaks     == Plain("breaks")                  \* an error of the script

\* Questions; "fact" is one about things that are left out.
If(test, yes, no) == Deed("if", test, yes, no)
Outside(body)     == <<If("outside", body, <<>>)>>  \* the map the player goes to
MayEnd(test)      == <<If(test, <<Unregister, End>>, <<Unregister>>)>>
Restarts          == <<If("fact", <<StopTimer, StartTimer>>, <<>>)>>
Nothing           == <<>>

Handlers == {"setup", "entry", "changed", "exit", "removed", "end", "left", "disband", "lost",
             "revive", "dead", "friend", "chief", "timeout", "clear", "later"}

-----------------------------------------------------------------------------
(***************************************************************************)
(* The families.  solo: startInstance registers the one player; open:      *)
(* NPCs let members in again; need: minPlayers.                            *)
(***************************************************************************)
\* Most party quests: it ends when the leader or too many leave.
PartyQuest ==
  [solo |-> FALSE, open |-> FALSE, need |-> 1,
   setup   |-> <<StartTimer>>,
   entry   |-> <<Go("in")>>,
   changed |-> Outside(MayEnd("lacking")),
   exit    |-> <<Unregister, Go("out")>>,
   removed |-> Nothing,
   end     |-> <<ExitAll, Dispose>>,
   left    |-> <<If("lacking, staying", <<End>>, <<If("cleared", <<>>, <<Exit>>)>>)>>,
   disband |-> <<If("cleared", <<>>, <<End>>)>>,
   lost    |-> MayEnd("lacking"),
   revive  |-> MayEnd("lacking"),
   dead    |-> Nothing,
   friend  |-> Nothing,
   chief   |-> <<If("leader outside", <<End>>, <<>>)>>,
   timeout |-> <<End>>,
   clear   |-> <<StopTimer, SetCleared>>,
   later   |-> Nothing]

\* Fights with a boss that an expedition enters: the party does not matter.
BossFight ==
  [PartyQuest EXCEPT !.open = TRUE, !.left = Nothing, !.disband = Nothing, !.chief = Nothing]
Expedition ==
  [BossFight EXCEPT !.changed = Outside(MayEnd("few")), !.lost = MayEnd("few"),
                    !.revive = MayEnd("few")]

\* Trials of one player, gone with him.
Trial ==
  [PartyQuest EXCEPT !.solo = TRUE,
     !.setup = Nothing, !.entry = <<Go("in"), StartTimer>>, !.changed = Outside(<<Exit>>),
     !.exit = <<Unregister, Dispose>>, !.end = Nothing, !.left = Nothing, !.disband = Nothing,
     !.lost = <<Exit>>, !.revive = Nothing, !.chief = Nothing,
     !.timeout = <<FirstOf(<<Exit, Go("out")>>)>>, !.clear = Nothing]

\* Errands of one player, put together from handlers written for a team.
Errand ==
  [PartyQuest EXCEPT !.solo = TRUE,
     !.changed = Nothing, !.removed = <<Unregister, PutOut>>, !.end = Nothing,
     !.left = Nothing, !.disband = Nothing, !.lost = <<ExitOthers, Dispose>>,
     !.revive = Respawned \o <<Handled>>, !.chief = Nothing,
     !.timeout = <<ExitAll, Dispose>>, !.clear = Nothing]
=============================================================================
