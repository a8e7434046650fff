---------------------------- MODULE WorldScripts ----------------------------
(***************************************************************************)
(* What the scripts of portals and maps have beyond those of NPCs: they    *)
(* run to the end in one call, know of the event instance the player is    *)
(* in, and move, answer or block the player themselves.                    *)
(***************************************************************************)
EXTENDS Dialogue

\* Facts about the event instance.  An OfEvent asks the instance, which must be there.
InAnEvent     == <<"in an event">>
OfEvent(text) == <<"of the event", text>>

\* Effects.
Enable          == <<"enable">>              \* enableActions, alone or after an instruction
Block           == <<"block">>               \* the portal does not serve this player again
Npc(id)         == <<"npc", id>>             \* openNpc, the NPC's script starts with a page
Silent(id)      == <<"silent npc", id>>      \* openNpc, no such script, or it ends before a page
Instance(event) == <<"instance", event>>     \* a startInstance that had room
ToEvent(text)   == <<"to the event", text>>  \* a call of the event instance
Ahead(m)        == <<"ahead", m>>            \* warpAhead

\* How a script ends: a portal's returns true or not, any may fail with an exception.
Through == Branch("", "through")
Stays   == Branch("", "stays")
Breaks  == Branch("", "breaks")
Done    == Branch("", "done")

\* The ways a script may go, with the facts it finds on each.
Ways(table) == UNION {Expanded(b) : b \in table}

(***************************************************************************)
(* A fact of the event is read with a call of the instance, an error when  *)
(* the player is in none.  The facts of an AnyOf that holds, and those of  *)
(* an AllOf that does not, may not all have been read.                     *)
(***************************************************************************)
Parts(f) == IF f[1] \in {"any of the", "all of them"} THEN f[2] ELSE {f}
AsksEvent(facts) == \E f \in facts : \E g \in Parts(f) : g[1] = "of the event"
SurelyAsksEvent(b) ==
  \/ AsksEvent({f \in b.has : f[1] # "any of the"})
  \/ AsksEvent({f \in b.lacks : f[1] # "all of them"})

\* Whether the script may go this way, and whether it may break on it, in or outside of an event.
Goes(b, event) ==
  IF event THEN InAnEvent \notin b.lacks
  ELSE InAnEvent \notin Known(b.has) /\ ~SurelyAsksEvent(b)
Fails(b, event) == ~event /\ InAnEvent \notin Known(b.has) /\ AsksEvent(b.has \cup b.lacks)
=============================================================================
