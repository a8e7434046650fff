---------------------------- MODULE Conversations ----------------------------
(***************************************************************************)
(* The conversations of one player with the scripts of NPCs and quests     *)
(* (scripting/npc, scripting/quest and the packet handlers that call       *)
(* them).  NPCScriptManager and QuestScriptManager keep one conversation   *)
(* each per client; a script is called when the conversation opens and at  *)
(* every answer, and keeps its place between the calls in its own globals. *)
(* Which page the client shows is known to nobody on the server: an answer *)
(* goes to the quest conversation if there is one, else to the NPC's.      *)
(*                                                                         *)
(* The tables of the scripts are constants.  At every call the facts about *)
(* the player are whatever they are by then (items are used, dropped and   *)
(* traded between the pages): the branch taken is chosen afresh.  The      *)
(* packets of one client are handled one after the other, but a timer of   *)
(* an event can move the player to another map while a script runs.        *)
(***************************************************************************)
EXTENDS Dialogue

CONSTANTS
  NpcTalks,      \* the tables of the NPC scripts, by name
  QuestTalks,    \* the tables of the quest scripts' start and end, by name
  QuestsOver,    \* bound: the quests tried while an NPC conversation is stranded,
  Wanderings,    \* bound: and the statuses it may then have come to by stray answers
  \* The scripts found to break one of the promises below.
  Stranding,     \* they stay open without a page
  Unsecured,     \* they take what the player may no longer have, out of an answer
  HalfDone,      \* they have given or taken something when they fail
  Repeating      \* they give again when one steps back

VARIABLES
  talk,     \* cms and qms: per slot, the script in conversation, its status and memory
  page,     \* the kind of page the client shows, "" for none
  asker,    \* the script that sent it
  clicked,  \* lastNpcClick is less than 500 ms ago
  cooling,  \* npcCooldown is less than BLOCK_NPC_RACE_CONDT ago
  call,     \* the last call of a script: who, at which answer, what ran, what it knew
  gained    \* per slot, what the conversation that is open has given so far

vars == <<talk, page, asker, clicked, cooling, call, gained>>

Slots == {"npc", "quest"}
Nobody == ""
Closed == [on |-> Nobody, at |-> -1, mem |-> ""]
NoCall == [who |-> Nobody, answer |-> "", ran |-> <<>>, has |-> {}, failed |-> FALSE]
Tables == [npc |-> NpcTalks, quest |-> QuestTalks]

Kinds == {"", "next", "ok", "prev", "nextPrev", "yesNo", "accept", "simple", "style",
          "number", "text"}
NpcNames   == DOMAIN NpcTalks
QuestNames == DOMAIN QuestTalks
Names      == NpcNames \cup QuestNames

\* Names are not shared by the two kinds of script, and the tables are built from Dialogue.
ASSUME NamesAssumption ==
  /\ NpcNames \cap QuestNames = {}
  /\ Names \subseteq STRING \ {Nobody}
ASSUME TablesAssumption ==
  \A slot \in Slots : \A who \in (IF slot = "npc" THEN NpcNames ELSE QuestNames) :
    LET t == Tables[slot][who] IN
    /\ \A k \in Answers : t.rule[k] \in Int
    /\ \A P \in {t.first} \cup {t.says[i] : i \in DOMAIN t.says}
                \cup {t.but[c] : c \in DOMAIN t.but} :
         \A b \in P : /\ b.page \in Kinds
                      /\ b.fate \in {"open", "bye", "fail"}
                      /\ b.keep \in STRING
                      /\ b.to \subseteq Int

-----------------------------------------------------------------------------
(***************************************************************************)
(* What a call may come to.  Taking an item the player has not enough of   *)
(* throws a RuntimeException out of the script                             *)
(* (MapleInventoryManipulator.removeById), after what there was of the item *)
(* has been taken; whatever ran before stays done.                         *)
(***************************************************************************)
Ran(ran, tags) == \E i \in DOMAIN ran : ran[i][1] \in tags

Throwing(b) == {i \in DOMAIN b.does : b.does[i][1] \in Taking /\ ~Secured(b, b.does[i])}

\* What is gone of an item there is not enough of: nothing, or fewer than asked for.
TakenOf(e) ==
  {<<>>} \cup IF e[1] = "take" /\ e[3] = 1 THEN {} ELSE {<< <<"take some", e[2]>> >>}

LastPage(ran, last) ==
  LET pages == {i \in DOMAIN ran : ran[i][1] = "page"}
  IN  IF last # "" THEN last ELSE IF pages = {} THEN "" ELSE ran[Max(pages)][2]

\* t is the table of the script that is called.
Outcomes(slot, t, at, mem, answer) ==
  LET Finished(b) ==
        [ran |-> b.does, has |-> b.has, failed |-> b.fate = "fail",
         page |-> LastPage(b.does, b.page),
         closes |-> b.fate # "open" \/ Ran(b.does, {"close"}),
         at |-> IF b.to = {} THEN Reached(t, at, answer) ELSE CHOOSE n \in b.to : TRUE,
         mem |-> b.keep]
      \* NPCScriptManager.action lets the exception pass, the other callers dispose
      Thrown(b, i, some) ==
        [ran |-> SubSeq(b.does, 1, i - 1) \o some, has |-> b.has, failed |-> TRUE,
         page |-> LastPage(SubSeq(b.does, 1, i - 1), ""),
         closes |-> \/ slot = "quest"
                    \/ answer = "open"
                    \/ Ran(SubSeq(b.does, 1, i - 1), {"close"}),
         at |-> Reached(t, at, answer), mem |-> mem]
  IN  UNION {{Finished(b)} \cup UNION {{Thrown(b, i, some) : some \in TakenOf(b.does[i])} :
                                        i \in Throwing(b)} :
               b \in Branches(t, at, mem, answer)}

\* MapleClient.closePlayerScriptInteractions, on every change of map.
NoTalks == [s \in Slots |-> Closed]
\* Seeded defects: the quest conversation is forgotten; the script goes, its place stays.
CloseBoth_Npc == [talk EXCEPT !["npc"] = Closed]
CloseBoth_Place == [s \in Slots |-> [talk[s] EXCEPT !.on = Nobody]]
CloseBoth == NoTalks

(***************************************************************************)
(* A call of a script: setClickedNPC, the script, and what its effects do  *)
(* to the conversation.  away: a timer moves the player before the script  *)
(* has sent its page.                                                      *)
(***************************************************************************)
NoGains == [s \in Slots |-> {}]
Kept(now, gains) == [s \in Slots |-> IF now[s].on = Nobody THEN {} ELSE gains[s]]
Gains(ran) == {ran[i] : i \in {j \in DOMAIN ran : ran[j][1] \in Gaining}}

CallScript(slot, who, t, at, mem, answer) ==
  \E o \in Outcomes(slot, t, at, mem, answer), away \in BOOLEAN :
    LET moved == away \/ Ran(o.ran, Warping)
        now == IF moved THEN CloseBoth
               ELSE [talk EXCEPT ![slot] = IF o.closes THEN Closed
                                           ELSE [on |-> who, at |-> o.at, mem |-> o.mem]]
    IN /\ away => o.page # "" /\ ~o.closes
       /\ talk' = now
       /\ page' = o.page
       /\ asker' = IF o.page = "" THEN Nobody ELSE who
       /\ clicked' = ~moved
       /\ cooling' = (cooling \/ moved \/ o.closes)
       /\ call' = [who |-> who, answer |-> answer, ran |-> o.ran, has |-> o.has,
                   failed |-> o.failed]
       /\ gained' = Kept(now, [gained EXCEPT ![slot] = @ \cup Gains(o.ran)])

Init ==
  /\ talk = NoTalks
  /\ page = "" /\ asker = Nobody
  /\ clicked = FALSE /\ cooling = FALSE
  /\ call = NoCall
  /\ gained = NoGains

\* NPCTalkHandler.handlePacket and NPCScriptManager.start.
ClickNpc ==
  /\ page = ""
  /\ ~cooling
  /\ \A s \in Slots : talk[s].on = Nobody
  /\ ~clicked
  /\ \E who \in NpcNames : CallScript("npc", who, Tables["npc"][who], -1, "", "open")

(***************************************************************************)
(* QuestActionHandler, actions 4 and 5, and QuestScriptManager.start and   *)
(* end: only an open quest conversation is in the way, an NPC's is not.    *)
(* The client asks when it shows no page.                                  *)
(***************************************************************************)
OpenQuest ==
  /\ page = ""
  /\ talk["quest"].on = Nobody
  /\ talk["npc"].on # Nobody => talk["npc"].at \in Wanderings
  /\ ~clicked
  /\ \E who \in IF talk["npc"].on = Nobody THEN QuestNames ELSE QuestsOver :
       CallScript("quest", who, Tables["quest"][who], -1, "", "open")

\* QuestScriptManager.start and end when the quest cannot be, or the NPC is elsewhere: dispose.
RefuseQuest ==
  /\ page = ""
  /\ talk["quest"].on # Nobody
  /\ talk' = [talk EXCEPT !["quest"] = Closed]
  /\ gained' = Kept(talk', gained)
  /\ cooling' = TRUE
  /\ call' = NoCall
  /\ UNCHANGED <<page, asker, clicked>>

\* Seeded defect: the NPC's conversation comes first.
Listener_Npc == IF talk["npc"].on # Nobody THEN "npc" ELSE "quest"

\* NPCMoreTalkHandler: the conversation an answer goes to.
Listener == IF talk["quest"].on # Nobody THEN "quest" ELSE "npc"

\* The text page is the one whose refusal the handler answers itself: it disposes.
Declined(kind, answer) == kind = "text" /\ answer = "decline"

Answer(answer) ==
  /\ answer \in AnswersTo(page)
  /\ ~Declined(page, answer)
  /\ talk[Listener].on # Nobody
  /\ LET c == talk[Listener]
     IN  CallScript(Listener, c.on, Tables[Listener][c.on], c.at, c.mem, answer)

DeclineText ==
  /\ Declined(page, "decline")
  /\ talk[Listener].on # Nobody
  /\ talk' = [talk EXCEPT ![Listener] = Closed]
  /\ page' = "" /\ asker' = Nobody
  /\ gained' = Kept(talk', gained)
  /\ cooling' = TRUE
  /\ call' = NoCall
  /\ UNCHANGED clicked

\* An answer to a page whose conversation is over is dropped (for a text page, by an exception).
AnswerNobody ==
  /\ page # ""
  /\ talk[Listener].on = Nobody
  /\ page' = "" /\ asker' = Nobody
  /\ call' = NoCall
  /\ UNCHANGED <<talk, clicked, cooling, gained>>

\* The player leaves the map, or the game.
ChangeMap ==
  /\ talk' = CloseBoth
  /\ page' = "" /\ asker' = Nobody
  /\ clicked' = FALSE
  /\ cooling' = (cooling \/ talk # NoTalks)
  /\ call' = NoCall
  /\ gained' = NoGains

\* The command @dispose, which looks at the NPC conversation only.
DisposeCommand ==
  /\ page = ""
  /\ talk["npc"].on # Nobody
  /\ talk' = [talk EXCEPT !["npc"] = Closed]
  /\ gained' = Kept(talk', gained)
  /\ clicked' = FALSE
  /\ cooling' = TRUE
  /\ call' = NoCall
  /\ UNCHANGED <<page, asker>>

\* Half a second passes.
ClickExpires ==
  /\ clicked /\ clicked' = FALSE
  /\ call' = NoCall
  /\ UNCHANGED <<talk, page, asker, cooling, gained>>
CooldownExpires ==
  /\ cooling /\ ~clicked /\ cooling' = FALSE
  /\ call' = NoCall
  /\ UNCHANGED <<talk, page, asker, clicked, gained>>

Next ==
  \/ ClickNpc
  \/ OpenQuest
  \/ RefuseQuest
  \/ \E answer \in Answers : Answer(answer)
  \/ DeclineText
  \/ AnswerNobody
  \/ ChangeMap
  \/ DisposeCommand
  \/ ClickExpires
  \/ CooldownExpires

Spec == Init /\ [][Next]_vars

-----------------------------------------------------------------------------
\* The state is what the program keeps: open conversations are of known scripts.
TypeOK ==
  /\ DOMAIN talk = Slots
  /\ \A s \in Slots :
       \/ talk[s] = Closed
       \/ /\ talk[s].on \in (IF s = "npc" THEN NpcNames ELSE QuestNames)
          /\ talk[s].at \in Int
          /\ talk[s].mem \in STRING
  /\ page \in Kinds
  /\ asker \in Names \cup {Nobody}
  /\ clicked \in BOOLEAN /\ cooling \in BOOLEAN
  /\ call.who \in Names \cup {Nobody}

(***************************************************************************)
(* A conversation never stays open behind a client that shows no page:     *)
(* nobody could answer it, and while it is there NPCTalkHandler refuses    *)
(* every click on an NPC (QuestScriptManager every quest).                 *)
(***************************************************************************)
Stuck(who) == who \in Stranding \/ who \in Unsecured
NeverStranded ==
  page = "" => \A s \in Slots : talk[s].on = Nobody \/ Stuck(talk[s].on)

(***************************************************************************)
(* A call that fails half way, for an item the player no longer has or an  *)
(* error of the script, has given and taken nothing.                       *)
(***************************************************************************)
AllOrNothing ==
  call.failed /\ call.who \notin HalfDone => ~Ran(call.ran, Gaining \cup Losing)

\* One conversation does not give the same thing twice, whatever pages the player goes back to.
GivenOnce ==
  [][\A s \in Slots : talk[s].on = call'.who /\ call'.who \notin Repeating
                    => Gains(call'.ran) \cap gained[s] = {}]_vars

(***************************************************************************)
(* An answer goes to the script whose page it answers, or to nobody.  Only *)
(* the parting page of a quest opened over a stuck NPC is answered to the  *)
(* NPC.                                                                    *)
(***************************************************************************)
AnswerReachesAsker ==
  page # "" => \/ talk[Listener].on \in {asker, Nobody}
               \/ talk["quest"].on = Nobody /\ Stuck(talk["npc"].on)
=============================================================================
