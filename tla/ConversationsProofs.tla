------------------------- MODULE ConversationsProofs -------------------------
(***************************************************************************)
(* From what each script does alone to what all conversations do, for any  *)
(* tables.                                                                 *)
(*                                                                         *)
(* Nobody on the server knows which page the client shows: an answer goes  *)
(* to whatever conversation is open.  That no script is ever asked about a *)
(* page it did not send rests on who may be open at the same time, and so  *)
(* it is enough to look at each script by itself: at the points it may be  *)
(* at and what it does with the answers to its own pages.  Those points    *)
(* are a constant here, of which TLC verifies on the actual tables what is *)
(* assumed.                                                                *)
(***************************************************************************)
EXTENDS Conversations, TLAPS

CONSTANT
  Reach   \* script -> the points of its conversation: status, memory, page and gains

-----------------------------------------------------------------------------
(* What a script does by itself.                                           *)

SlotOf(who)  == IF who \in NpcNames THEN "npc" ELSE "quest"
NamesOf(slot) == IF slot = "npc" THEN NpcNames ELSE QuestNames

\* The calls that find it at one of its points, and the one that opens it.
Opening == [at |-> -1, mem |-> "", answer |-> "open", gains |-> {}]
CallsAt(p) ==
  {[at |-> p.at, mem |-> p.mem, answer |-> a, gains |-> p.gains] :
     a \in {b \in AnswersTo(p.page) : ~Declined(p.page, b)}}
CallsOf(who) == {Opening} \cup UNION {CallsAt(p) : p \in Reach[who]}

\* What a call may come to, and where it leads when the conversation goes on.
ComesOf(who, k) == Outcomes(SlotOf(who), Tables[SlotOf(who)][who], k.at, k.mem, k.answer)
Over(o)         == o.closes \/ Ran(o.ran, Warping)
ComesTo(k, o)   ==
  [at |-> o.at, mem |-> o.mem, page |-> o.page, gains |-> k.gains \cup Gains(o.ran)]

\* The pages that the quests tried over a stranded NPC part with.
Parting ==
  {o.page : o \in {x \in UNION {UNION {ComesOf(q, k) : k \in CallsOf(q)} : q \in QuestsOver} :
                     x.closes}}

\* The point where the page is another.
Showing(p, kind) == [at |-> p.at, mem |-> p.mem, page |-> kind, gains |-> p.gains]

\* The points are all there are, a stray answer included; and at each of them
\* there is a page, unless the script is known to strand its player.
Sound(who) ==
  /\ \A p \in Reach[who] : p.at \in Int /\ p.mem \in STRING
  /\ \A k \in CallsOf(who) : \A o \in ComesOf(who, k) :
       o.page \in Kinds /\ (Over(o) \/ ComesTo(k, o) \in Reach[who])
  /\ ~Stuck(who) => \A p \in Reach[who] : p.page # ""
  /\ who \in NpcNames =>
       \A p \in Reach[who] : p.page = "" /\ p.at \in Wanderings =>
         \A kind \in Parting : Showing(p, kind) \in Reach[who]

ASSUME ReachAssumption ==
  /\ QuestsOver \subseteq QuestNames
  /\ \A who \in Names : Sound(who)

\* A script that fails has given and taken nothing; one does not give twice.
Careful ==
  \A who \in Names \ HalfDone : \A k \in CallsOf(who) : \A o \in ComesOf(who, k) :
    o.failed => ~Ran(o.ran, Gaining \cup Losing)
Frugal ==
  \A who \in Names \ Repeating : \A k \in CallsOf(who) : \A o \in ComesOf(who, k) :
    Gains(o.ran) \cap k.gains = {}

-----------------------------------------------------------------------------
(* The inductive invariant.                                                *)

Open(s) == talk[s].on # Nobody
PointOf(s, kind) ==
  [at |-> talk[s].at, mem |-> talk[s].mem, page |-> kind, gains |-> gained[s]]

Shapes ==
  /\ talk = [s \in Slots |-> talk[s]] /\ gained = [s \in Slots |-> gained[s]]
  /\ \A s \in Slots : \/ talk[s] = Closed /\ gained[s] = {}
                      \/ talk[s].on \in NamesOf(s)
  /\ page \in Kinds /\ asker \in Names \cup {Nobody}
  /\ clicked \in BOOLEAN /\ cooling \in BOOLEAN /\ call.who \in Names \cup {Nobody}

\* An open quest is at the point that the page says.  An NPC under it was left without one.
QuestAtPoint ==
  Open("quest") =>
    /\ PointOf("quest", page) \in Reach[talk["quest"].on]
    /\ page # "" => asker = talk["quest"].on
    /\ Open("npc") => /\ talk["quest"].on \in QuestsOver /\ talk["npc"].at \in Wanderings
                      /\ PointOf("npc", "") \in Reach[talk["npc"].on]

NpcAtPoint ==
  Open("npc") /\ ~Open("quest") =>
    /\ PointOf("npc", page) \in Reach[talk["npc"].on]
    /\ ~Stuck(talk["npc"].on) => asker = talk["npc"].on

CInv == Shapes /\ QuestAtPoint /\ NpcAtPoint

-----------------------------------------------------------------------------
LEMMA NamesApart ==
  /\ NpcNames \cap QuestNames = {} /\ Nobody \notin Names
  /\ NpcNames \subseteq Names /\ QuestNames \subseteq Names
  /\ \A s \in Slots : \A who \in NamesOf(s) : who \in Names /\ SlotOf(who) = s
BY NamesAssumption DEF Names, NamesOf, SlotOf, Slots

LEMMA SlotsAre ==
  Slots = {"npc", "quest"} /\ "npc" \in Slots /\ "quest" \in Slots
  /\ NamesOf("npc") = NpcNames /\ NamesOf("quest") = QuestNames
BY DEF Slots, NamesOf

\* Open conversations are of known scripts, the others are nothing.
LEMMA ClosedIs == Closed.on = Nobody
BY DEF Closed

LEMMA OpenOnes ==
  ASSUME Shapes, NEW s \in Slots
  PROVE  /\ Open(s) => talk[s].on \in NamesOf(s) /\ talk[s].on \in Names
         /\ ~Open(s) => talk[s] = Closed /\ gained[s] = {}
BY NamesApart, ClosedIs DEF Shapes, Open

\* What becomes of the conversations by a call of one of them.
Ends(slot)     == /\ talk' = [talk EXCEPT ![slot] = Closed]
                  /\ gained' = [gained EXCEPT ![slot] = {}]
AllEnd         == talk' = NoTalks /\ gained' = NoGains
GoesOn(slot, who, k, o) ==
  /\ talk' = [talk EXCEPT ![slot] = [on |-> who, at |-> o.at, mem |-> o.mem]]
  /\ gained' = [gained EXCEPT ![slot] = @ \cup Gains(o.ran)]
  /\ ComesTo(k, o) \in Reach[who]

\* The call itself came to o.
Called(who, k, o) ==
  /\ o \in ComesOf(who, k)
  /\ page' = o.page /\ page' \in Kinds /\ asker' = IF o.page = "" THEN Nobody ELSE who
  /\ clicked' \in BOOLEAN /\ cooling' \in BOOLEAN
  /\ call'.who = who /\ call'.ran = o.ran /\ call'.failed = o.failed

LEMMA CallGoes ==
  ASSUME Shapes, NEW slot \in Slots, NEW who \in NamesOf(slot), NEW k \in CallsOf(who),
         CallScript(slot, who, Tables[slot][who], k.at, k.mem, k.answer)
  PROVE  \E o : /\ Called(who, k, o)
                /\ AllEnd \/ (o.closes /\ Ends(slot)) \/ GoesOn(slot, who, k, o)
<1>1. who \in Names /\ SlotOf(who) = slot /\ who # Nobody
  BY NamesApart
<1>2. PICK o \in ComesOf(who, k), away \in BOOLEAN :
        LET moved == away \/ Ran(o.ran, Warping)
            now == IF moved THEN CloseBoth
                   ELSE [talk EXCEPT ![slot] = IF o.closes THEN Closed
                                               ELSE [on |-> who, at |-> o.at, mem |-> o.mem]]
        IN /\ away => o.page # "" /\ ~o.closes
           /\ talk' = now
           /\ page' = o.page
           /\ asker' = IF o.page = "" THEN Nobody ELSE who
           /\ clicked' = ~moved
           /\ cooling' = (cooling \/ moved \/ o.closes)
           /\ call' = [who |-> who, answer |-> k.answer, ran |-> o.ran, has |-> o.has,
                       failed |-> o.failed]
           /\ gained' = Kept(now, [gained EXCEPT ![slot] = @ \cup Gains(o.ran)])
  BY <1>1 DEF CallScript, ComesOf
<1> DEFINE moved == away \/ Ran(o.ran, Warping)
<1>3. o.page \in Kinds /\ (Over(o) \/ ComesTo(k, o) \in Reach[who])
  BY <1>1, ReachAssumption DEF Sound
<1>4. Called(who, k, o)
  BY <1>2, <1>3 DEF Called
<1>5. CASE moved
  <2>1. talk' = NoTalks /\ gained' = Kept(NoTalks, [gained EXCEPT ![slot] = @ \cup Gains(o.ran)])
    BY <1>2, <1>5 DEF CloseBoth
  <2>2. gained' = NoGains
    BY <2>1 DEF Kept, NoTalks, NoGains, Closed
  <2> QED BY <1>4, <2>1, <2>2 DEF AllEnd
<1>6. CASE ~moved /\ o.closes
  <2>1. /\ talk' = [talk EXCEPT ![slot] = Closed]
        /\ gained' = Kept(talk', [gained EXCEPT ![slot] = @ \cup Gains(o.ran)])
    BY <1>2, <1>6
  <2>2. gained' = [gained EXCEPT ![slot] = {}]
    BY <2>1, NamesApart DEF Kept, Shapes, Closed
  <2> QED BY <1>4, <1>6, <2>1, <2>2 DEF Ends
<1>7. CASE ~moved /\ ~o.closes
  <2> DEFINE new == [on |-> who, at |-> o.at, mem |-> o.mem]
  <2>1. /\ talk' = [talk EXCEPT ![slot] = new]
        /\ gained' = Kept(talk', [gained EXCEPT ![slot] = @ \cup Gains(o.ran)])
    BY <1>2, <1>7
  <2>2. new.on # Nobody
    BY <1>1
  <2> HIDE DEF new
  <2>3. gained' = [gained EXCEPT ![slot] = @ \cup Gains(o.ran)]
    BY <2>1, <2>2, NamesApart DEF Kept, Shapes, Closed
  <2>4. ComesTo(k, o) \in Reach[who]
    BY <1>3, <1>7 DEF Over
  <2> QED BY <1>4, <2>1, <2>3, <2>4 DEF GoesOn, new
<1> QED BY <1>5, <1>6, <1>7

-----------------------------------------------------------------------------
(* The steps.                                                              *)

\* The conversations end, with or without a last page, or go on at the next point.
LEMMA AllEndKeeps ==
  ASSUME CInv, AllEnd, page' \in Kinds, asker' \in Names \cup {Nobody},
         clicked' \in BOOLEAN, cooling' \in BOOLEAN, call'.who \in Names \cup {Nobody}
  PROVE  CInv'
<1>1. \A s \in Slots : talk'[s] = Closed /\ gained'[s] = {}
  BY DEF AllEnd, NoTalks, NoGains
<1>2. talk' = [s \in Slots |-> talk'[s]] /\ gained' = [s \in Slots |-> gained'[s]]
  BY DEF AllEnd, NoTalks, NoGains
<1>3. ~Open("npc")' /\ ~Open("quest")'
  BY <1>1, SlotsAre, ClosedIs DEF Open
<1> QED BY <1>1, <1>2, <1>3 DEF CInv, Shapes, QuestAtPoint, NpcAtPoint

\* One of them ends; a stuck NPC that was under a quest is at the point of the page now.
LEMMA EndKeeps ==
  ASSUME CInv, NEW slot \in Slots, Ends(slot),
         page' \in Kinds, asker' \in Names \cup {Nobody},
         clicked' \in BOOLEAN, cooling' \in BOOLEAN, call'.who \in Names \cup {Nobody},
         slot = "npc" => UNCHANGED <<page, asker>> \/ ~Open("quest"),
         slot = "quest" /\ Open("npc") =>
           Stuck(talk["npc"].on) /\ PointOf("npc", page') \in Reach[talk["npc"].on]
  PROVE  CInv'
<1>1. /\ talk'[slot] = Closed /\ gained'[slot] = {}
      /\ \A s \in Slots \ {slot} : talk'[s] = talk[s] /\ gained'[s] = gained[s]
      /\ talk' = [s \in Slots |-> talk'[s]] /\ gained' = [s \in Slots |-> gained'[s]]
  BY DEF Ends, CInv, Shapes
<1>2. Shapes'
  BY <1>1 DEF CInv, Shapes
<1>3. CASE slot = "npc"
  <2>1. ~Open("npc")' /\ talk'["quest"] = talk["quest"] /\ gained'["quest"] = gained["quest"]
    BY <1>1, <1>3, SlotsAre, ClosedIs DEF Open
  <2>2. Open("quest")' => /\ PointOf("quest", page)' \in Reach[talk'["quest"].on]
                          /\ page' # "" => asker' = talk'["quest"].on
    BY <1>3, <2>1 DEF CInv, QuestAtPoint, Open, PointOf
  <2> QED BY <1>2, <2>1, <2>2 DEF CInv, QuestAtPoint, NpcAtPoint
<1>4. CASE slot = "quest"
  <2>1. ~Open("quest")' /\ talk'["npc"] = talk["npc"] /\ gained'["npc"] = gained["npc"]
    BY <1>1, <1>4, SlotsAre, ClosedIs DEF Open
  <2>2. Open("npc")' => /\ PointOf("npc", page)' \in Reach[talk'["npc"].on]
                        /\ Stuck(talk'["npc"].on)
    BY <1>4, <2>1 DEF Open, PointOf
  <2> QED BY <1>2, <2>1, <2>2 DEF CInv, QuestAtPoint, NpcAtPoint
<1> QED BY <1>3, <1>4, SlotsAre

LEMMA GoesOnKeeps ==
  ASSUME CInv, NEW slot \in Slots, NEW who \in NamesOf(slot), NEW k, NEW o,
         Called(who, k, o), GoesOn(slot, who, k, o), k.gains = gained[slot],
         slot = "npc" => ~Open("quest"),
         slot = "quest" /\ Open("npc") =>
           /\ who \in QuestsOver /\ talk["npc"].at \in Wanderings
           /\ PointOf("npc", "") \in Reach[talk["npc"].on]
  PROVE  CInv'
<1>1. who \in Names /\ who # Nobody
  BY NamesApart
<1> DEFINE new == [on |-> who, at |-> o.at, mem |-> o.mem]
<1>2. new.on = who /\ new.at = o.at /\ new.mem = o.mem /\ talk' = [talk EXCEPT ![slot] = new]
  BY DEF GoesOn
<1> HIDE DEF new
<1>3. /\ talk'[slot] = new /\ gained'[slot] = gained[slot] \cup Gains(o.ran)
      /\ \A s \in Slots \ {slot} : talk'[s] = talk[s] /\ gained'[s] = gained[s]
      /\ talk' = [s \in Slots |-> talk'[s]] /\ gained' = [s \in Slots |-> gained'[s]]
  BY <1>2 DEF GoesOn, CInv, Shapes
<1>4. /\ page' = o.page /\ page' \in Kinds /\ asker' = IF o.page = "" THEN Nobody ELSE who
      /\ clicked' \in BOOLEAN /\ cooling' \in BOOLEAN /\ call'.who = who
  BY DEF Called
<1>5. Shapes'
  BY <1>1, <1>2, <1>3, <1>4 DEF CInv, Shapes
<1>6. PointOf(slot, page)' = ComesTo(k, o)
  BY <1>2, <1>3, <1>4 DEF PointOf, ComesTo
<1>7. PointOf(slot, page)' \in Reach[who]
  BY <1>6 DEF GoesOn
<1>8. ~Stuck(who) => page' # ""
  BY <1>1, <1>7, ReachAssumption DEF Sound, PointOf
<1>9. CASE slot = "npc"
  <2>1. ~Open("quest")'
    BY <1>3, <1>9, SlotsAre DEF Open
  <2> QED BY <1>2, <1>3, <1>4, <1>5, <1>7, <1>8, <1>9, <2>1 DEF CInv, QuestAtPoint, NpcAtPoint
<1>10. CASE slot = "quest"
  <2>1. Open("quest")'
    BY <1>1, <1>2, <1>3, <1>10 DEF Open
  <2>2. talk'["npc"] = talk["npc"] /\ gained'["npc"] = gained["npc"]
    BY <1>3, <1>10, SlotsAre
  <2>3. Open("npc")' => /\ who \in QuestsOver /\ talk'["npc"].at \in Wanderings
                        /\ PointOf("npc", "")' \in Reach[talk'["npc"].on]
    BY <1>10, <2>2 DEF Open, PointOf
  <2> QED BY <1>2, <1>3, <1>4, <1>5, <1>7, <1>10, <2>1, <2>3 DEF CInv, QuestAtPoint, NpcAtPoint
<1> QED BY <1>9, <1>10, SlotsAre

\* An NPC that a quest could be opened over is a stuck one.
LEMMA UnderIsStuck ==
  ASSUME CInv, Open("npc"), PointOf("npc", "") \in Reach[talk["npc"].on]
  PROVE  talk["npc"].on \in NpcNames /\ Stuck(talk["npc"].on)
<1>1. talk["npc"].on \in NpcNames
  BY SlotsAre, OpenOnes DEF CInv
<1>2. PointOf("npc", "").page = ""
  BY DEF PointOf
<1> QED BY <1>1, <1>2, NamesApart, ReachAssumption DEF Sound

\* A call that finds its script at a point keeps the invariant.
LEMMA CallKeeps ==
  ASSUME CInv, NEW slot \in Slots, NEW who \in NamesOf(slot), NEW k \in CallsOf(who),
         k.gains = gained[slot],
         CallScript(slot, who, Tables[slot][who], k.at, k.mem, k.answer),
         slot = "npc" => ~Open("quest"),
         slot = "quest" /\ Open("npc") =>
           /\ who \in QuestsOver /\ talk["npc"].at \in Wanderings
           /\ PointOf("npc", "") \in Reach[talk["npc"].on]
  PROVE  CInv' /\ \E o : Called(who, k, o)
<1>1. PICK o : /\ Called(who, k, o)
               /\ AllEnd \/ (o.closes /\ Ends(slot)) \/ GoesOn(slot, who, k, o)
  BY CallGoes DEF CInv
<1>2. /\ page' = o.page /\ page' \in Kinds /\ asker' \in Names \cup {Nobody}
      /\ clicked' \in BOOLEAN /\ cooling' \in BOOLEAN /\ call'.who \in Names \cup {Nobody}
  BY <1>1, NamesApart DEF Called
<1>3. CASE AllEnd
  BY <1>1, <1>2, <1>3, AllEndKeeps
<1>4. CASE o.closes /\ Ends(slot)
  <2>1. ASSUME slot = "quest", Open("npc")
        PROVE  Stuck(talk["npc"].on) /\ PointOf("npc", page') \in Reach[talk["npc"].on]
    <3> DEFINE npc == talk["npc"].on
    <3>1. npc \in NpcNames /\ Stuck(npc) /\ npc \in Names
      BY <2>1, UnderIsStuck, NamesApart
    <3>2. o \in ComesOf(who, k) /\ who \in QuestsOver
      BY <1>1, <2>1 DEF Called
    <3>3. o.page \in Parting
      <4>1. o \in UNION {ComesOf(who, c) : c \in CallsOf(who)}
        BY <3>2
      <4>2. o \in UNION {UNION {ComesOf(q, c) : c \in CallsOf(q)} : q \in QuestsOver}
        BY <3>2, <4>1
      <4> QED BY <1>4, <4>2 DEF Parting
    <3>4. PointOf("npc", "") \in Reach[npc] /\ PointOf("npc", "").page = ""
          /\ PointOf("npc", "").at \in Wanderings
      BY <2>1 DEF PointOf
    <3>5. Showing(PointOf("npc", ""), o.page) \in Reach[npc]
      BY <3>1, <3>3, <3>4, ReachAssumption DEF Sound
    <3>6. PICK kind \in Kinds : kind = o.page
      BY <1>2
    <3>7. Showing(PointOf("npc", ""), kind) = PointOf("npc", kind)
      BY DEF PointOf, Showing
    <3>8. PointOf("npc", kind) \in Reach[npc] /\ kind = page'
      BY <1>2, <3>5, <3>6, <3>7
    <3> QED BY <3>1, <3>8
  <2> QED BY <1>1, <1>2, <1>4, <2>1, SlotsAre, EndKeeps
<1>5. CASE GoesOn(slot, who, k, o)
  BY <1>1, <1>5, GoesOnKeeps
<1> QED BY <1>1, <1>3, <1>4, <1>5

LEMMA OpenKeeps ==
  ASSUME CInv, ClickNpc \/ OpenQuest
  PROVE  /\ CInv'
         /\ \E who \in Names : (\A s \in Slots : talk[s].on # who)
                               /\ \E k \in CallsOf(who) : \E o : Called(who, k, o)
<1> DEFINE k == Opening
<1>1. k.at = -1 /\ k.mem = "" /\ k.answer = "open" /\ k.gains = {} /\ \A who : k \in CallsOf(who)
  BY DEF Opening, CallsOf
<1> HIDE DEF k
<1>2. CASE ClickNpc
  <2>1. PICK who \in NpcNames : CallScript("npc", who, Tables["npc"][who], k.at, k.mem, k.answer)
    BY <1>1, <1>2 DEF ClickNpc
  <2>2. /\ \A s \in Slots : talk[s].on = Nobody
        /\ ~Open("quest") /\ gained["npc"] = {}
    <3>1. \A s \in Slots : talk[s].on = Nobody /\ ~Open(s)
      BY <1>2 DEF ClickNpc, Open
    <3> QED BY <3>1, SlotsAre, OpenOnes DEF CInv
  <2>3. CInv' /\ \E o : Called(who, k, o)
    BY <1>1, <2>1, <2>2, SlotsAre, CallKeeps
  <2> QED BY <1>1, <2>2, <2>3, NamesApart
<1>3. CASE OpenQuest
  <2>1. PICK who \in IF talk["npc"].on = Nobody THEN QuestNames ELSE QuestsOver :
          CallScript("quest", who, Tables["quest"][who], k.at, k.mem, k.answer)
    BY <1>1, <1>3 DEF OpenQuest
  <2>2. /\ who \in QuestNames /\ (Open("npc") => who \in QuestsOver)
    BY <2>1, ReachAssumption DEF Open
  <2>3. /\ page = "" /\ talk["quest"].on = Nobody /\ gained["quest"] = {}
        /\ Open("npc") => talk["npc"].at \in Wanderings
    BY <1>3, SlotsAre, NamesApart DEF OpenQuest, Open, CInv, Shapes
  <2>4. Open("npc") => PointOf("npc", "") \in Reach[talk["npc"].on]
    BY <2>3 DEF CInv, NpcAtPoint, Open
  <2>5. CInv' /\ \E o : Called(who, k, o)
    BY <1>1, <2>1, <2>2, <2>3, <2>4, SlotsAre, CallKeeps
  <2>6. talk["npc"].on # who /\ talk["quest"].on # who
    <3>1. who \in Names /\ who # Nobody /\ who \notin NpcNames
      BY <2>2, NamesApart
    <3>2. talk["npc"].on = Nobody \/ talk["npc"].on \in NpcNames
      BY SlotsAre, OpenOnes DEF CInv, Open
    <3> QED BY <2>3, <3>1, <3>2
  <2> QED BY <1>1, <2>2, <2>5, <2>6, SlotsAre, NamesApart
<1> QED BY <1>2, <1>3

\* Who is asked, and at which point.
LEMMA ListenerAtPoint ==
  ASSUME CInv, Open(Listener)
  PROVE  /\ Listener \in Slots /\ talk[Listener].on \in NamesOf(Listener)
         /\ PointOf(Listener, page) \in Reach[talk[Listener].on]
         /\ Listener = "npc" => ~Open("quest")
         /\ Listener = "quest" /\ Open("npc") =>
              /\ talk["quest"].on \in QuestsOver /\ talk["npc"].at \in Wanderings
              /\ PointOf("npc", "") \in Reach[talk["npc"].on]
<1>1. CASE Open("quest")
  <2>1. Listener = "quest"
    BY <1>1 DEF Listener, Open
  <2> QED BY <1>1, <2>1, SlotsAre, OpenOnes DEF CInv, QuestAtPoint
<1>2. CASE ~Open("quest")
  <2>1. Listener = "npc"
    BY <1>2 DEF Listener, Open
  <2>2. Open("npc")
    BY <2>1
  <2> QED BY <1>2, <2>1, <2>2, SlotsAre, OpenOnes DEF CInv, NpcAtPoint
<1> QED BY <1>1, <1>2

LEMMA AnswerKeeps ==
  ASSUME CInv, NEW answer \in Answers, Answer(answer)
  PROVE  /\ CInv' /\ Listener \in Slots /\ talk[Listener].on \in NamesOf(Listener)
         /\ \E k \in CallsOf(talk[Listener].on) : \E o :
              k.gains = gained[Listener] /\ Called(talk[Listener].on, k, o)
<1>1. Open(Listener)
  BY DEF Answer, Open
<1>2. PICK slot \in Slots : slot = Listener
  BY <1>1, ListenerAtPoint
<1>3. PICK who \in NamesOf(slot) : who = talk[slot].on
  BY <1>1, <1>2, ListenerAtPoint
<1>4. /\ PointOf(slot, page) \in Reach[who]
      /\ slot = "npc" => ~Open("quest")
      /\ slot = "quest" /\ Open("npc") =>
           /\ who \in QuestsOver /\ talk["npc"].at \in Wanderings
           /\ PointOf("npc", "") \in Reach[talk["npc"].on]
  BY <1>1, <1>2, <1>3, ListenerAtPoint
<1> DEFINE k == [at |-> talk[slot].at, mem |-> talk[slot].mem, answer |-> answer,
                 gains |-> gained[slot]]
<1>5. k \in CallsAt(PointOf(slot, page))
  BY DEF CallsAt, PointOf, Answer
<1>6. k \in CallsOf(who)
  BY <1>4, <1>5 DEF CallsOf
<1>7. k.at = talk[slot].at /\ k.mem = talk[slot].mem /\ k.answer = answer
      /\ k.gains = gained[slot]
  OBVIOUS
<1> HIDE DEF k
<1>8. CallScript(slot, who, Tables[slot][who], k.at, k.mem, k.answer)
  BY <1>2, <1>3, <1>7 DEF Answer
<1>9. CInv' /\ \E o : Called(who, k, o)
  BY <1>4, <1>6, <1>7, <1>8, CallKeeps
<1> QED BY <1>2, <1>3, <1>6, <1>7, <1>9

\* A conversation ends without a call of its script.
LEMMA EndsKept ==
  ASSUME CInv, NEW slot \in Slots, talk' = [talk EXCEPT ![slot] = Closed],
         gained' = Kept(talk', gained)
  PROVE  Ends(slot)
<1>1. \A s \in Slots \ {slot} : talk'[s] = talk[s]
  BY DEF CInv, Shapes
<1>2. talk'[slot].on = Nobody
  BY ClosedIs DEF CInv, Shapes
<1>3. \A s \in Slots : gained'[s] = IF s = slot THEN {} ELSE gained[s]
  BY <1>1, <1>2, OpenOnes DEF Kept, CInv, Open
<1> QED BY <1>3 DEF Ends, Kept, CInv, Shapes

LEMMA NoCallBy ==
  NoCall.who \in Names \cup {Nobody} /\ NoCall.who = Nobody /\ NoCall.failed = FALSE
  /\ NoCall.ran = <<>>
BY DEF NoCall

LEMMA DisposesKeep ==
  ASSUME CInv, RefuseQuest \/ DeclineText \/ DisposeCommand
  PROVE  CInv'
<1>1. call'.who \in Names \cup {Nobody}
  BY NoCallBy DEF RefuseQuest, DeclineText, DisposeCommand
<1>2. CASE RefuseQuest
  <2>1. Ends("quest")
    BY <1>2, SlotsAre, EndsKept DEF RefuseQuest
  <2>2. page = "" /\ Open("quest") /\ UNCHANGED <<page, asker, clicked>> /\ cooling' \in BOOLEAN
    BY <1>2 DEF RefuseQuest, Open
  <2>3. Open("npc") => Stuck(talk["npc"].on) /\ PointOf("npc", page') \in Reach[talk["npc"].on]
    BY <2>2, UnderIsStuck DEF CInv, QuestAtPoint
  <2> QED BY <1>1, <2>1, <2>2, <2>3, SlotsAre, EndKeeps DEF CInv, Shapes
<1>3. CASE DeclineText
  <2>1. Open(Listener)
    BY <1>3 DEF DeclineText, Open
  <2>2. Listener \in Slots
    BY <2>1, ListenerAtPoint
  <2>3. Ends(Listener)
    BY <1>3, <2>2, EndsKept DEF DeclineText
  <2>4. page' = "" /\ asker' = Nobody /\ clicked' = clicked /\ cooling' \in BOOLEAN /\ page' \in Kinds
    BY <1>3 DEF DeclineText, Kinds
  <2>5. Listener = "quest" /\ Open("npc") =>
          Stuck(talk["npc"].on) /\ PointOf("npc", page') \in Reach[talk["npc"].on]
    BY <2>1, <2>4, ListenerAtPoint, UnderIsStuck
  <2>6. Listener = "npc" => ~Open("quest")
    BY <2>1, ListenerAtPoint
  <2> QED BY <1>1, <2>2, <2>3, <2>4, <2>5, <2>6, EndKeeps DEF CInv, Shapes
<1>4. CASE DisposeCommand
  <2>1. Ends("npc")
    BY <1>4, SlotsAre, EndsKept DEF DisposeCommand
  <2>2. UNCHANGED <<page, asker>> /\ clicked' \in BOOLEAN /\ cooling' \in BOOLEAN
    BY <1>4 DEF DisposeCommand
  <2> QED BY <1>1, <2>1, <2>2, SlotsAre, EndKeeps DEF CInv, Shapes
<1> QED BY <1>2, <1>3, <1>4

\* Nothing moves but the page of a conversation that is over, and the cooldowns.
LEMMA TimersKeep ==
  ASSUME CInv, AnswerNobody \/ ClickExpires \/ CooldownExpires
  PROVE  CInv'
<1>1. /\ call'.who \in Names \cup {Nobody} /\ clicked' \in BOOLEAN /\ cooling' \in BOOLEAN
      /\ talk' = talk /\ gained' = gained
  BY NoCallBy DEF AnswerNobody, ClickExpires, CooldownExpires, CInv, Shapes
<1>2. /\ page' = page /\ asker' = asker
      \/ /\ page' = "" /\ asker' = Nobody /\ page' \in Kinds /\ ~Open("quest") /\ ~Open("npc")
  BY DEF AnswerNobody, ClickExpires, CooldownExpires, Listener, Open, Kinds
<1>3. Shapes'
  BY <1>1, <1>2 DEF CInv, Shapes
<1>4. QuestAtPoint' /\ NpcAtPoint'
  BY <1>1, <1>2 DEF CInv, QuestAtPoint, NpcAtPoint, Open, PointOf
<1> QED BY <1>3, <1>4 DEF CInv

LEMMA ChangeMapKeeps ==
  ASSUME CInv, ChangeMap
  PROVE  CInv'
<1>1. AllEnd /\ page' = "" /\ page' \in Kinds /\ asker' = Nobody
  BY DEF ChangeMap, AllEnd, CloseBoth, Kinds
<1>2. clicked' \in BOOLEAN /\ cooling' \in BOOLEAN /\ call'.who \in Names \cup {Nobody}
  BY NoCallBy DEF ChangeMap
<1> QED BY <1>1, <1>2, AllEndKeeps

LEMMA InitAtPoints == Init => CInv
<1> SUFFICES ASSUME Init PROVE CInv
  OBVIOUS
<1>1. \A s \in Slots : talk[s] = Closed /\ gained[s] = {}
  BY DEF Init, NoTalks, NoGains
<1>2. ~Open("npc") /\ ~Open("quest")
  BY <1>1, SlotsAre, ClosedIs DEF Open
<1>3. Shapes
  BY <1>1, NoCallBy DEF Init, NoTalks, NoGains, Shapes, Kinds
<1> QED BY <1>2, <1>3 DEF CInv, QuestAtPoint, NpcAtPoint

LEMMA NextKeepsPoints == CInv /\ [Next]_vars => CInv'
<1> SUFFICES ASSUME CInv, [Next]_vars PROVE CInv'
  OBVIOUS
<1>1. CASE UNCHANGED vars
  BY <1>1 DEF vars, CInv, Shapes, QuestAtPoint, NpcAtPoint, Open, PointOf
<1>2. CASE Next
  BY <1>2, OpenKeeps, AnswerKeeps, DisposesKeep, TimersKeep, ChangeMapKeeps DEF Next
<1> QED BY <1>1, <1>2

-----------------------------------------------------------------------------
(* The theorems.                                                           *)

\* Whatever is opened, answered, declined and left in whatever order, the server
\* keeps conversations of known scripts, at statuses that these come to.
THEOREM ConversationsTypeCorrect == Spec => []TypeOK
<1>1. CInv => TypeOK
  <2> SUFFICES ASSUME CInv PROVE TypeOK
    OBVIOUS
  <2>1. DOMAIN talk = Slots
    BY DEF CInv, Shapes
  <2>2. ASSUME NEW s \in Slots, NEW kind, Open(s), PointOf(s, kind) \in Reach[talk[s].on]
        PROVE  talk[s].on \in NamesOf(s) /\ talk[s].at \in Int /\ talk[s].mem \in STRING
    <3>1. talk[s].on \in NamesOf(s) /\ talk[s].on \in Names
      BY <2>2, OpenOnes DEF CInv
    <3>2. PointOf(s, kind).at = talk[s].at /\ PointOf(s, kind).mem = talk[s].mem
      BY DEF PointOf
    <3> QED BY <2>2, <3>1, <3>2, ReachAssumption DEF Sound
  <2>3. \A s \in Slots : Open(s) => \E kind : PointOf(s, kind) \in Reach[talk[s].on]
    BY SlotsAre DEF CInv, QuestAtPoint, NpcAtPoint
  <2>4. \A s \in Slots : ~Open(s) => talk[s] = Closed
    BY OpenOnes DEF CInv
  <2>5. \A s \in Slots : \/ talk[s] = Closed
                         \/ /\ talk[s].on \in NamesOf(s)
                            /\ talk[s].at \in Int /\ talk[s].mem \in STRING
    BY <2>2, <2>3, <2>4
  <2> QED BY <2>1, <2>5 DEF CInv, Shapes, TypeOK, NamesOf
<1> QED BY <1>1, InitAtPoints, NextKeepsPoints, PTL DEF Spec

\* A conversation never stays open behind a client without a page, but of the
\* scripts that by themselves leave one without.
THEOREM NobodyIsStranded == Spec => []NeverStranded
<1>1. CInv => NeverStranded
  <2> SUFFICES ASSUME CInv, page = "", NEW s \in Slots, Open(s) PROVE Stuck(talk[s].on)
    BY DEF NeverStranded, Open
  <2>1. PointOf(s, "") \in Reach[talk[s].on]
    BY SlotsAre DEF CInv, QuestAtPoint, NpcAtPoint
  <2>2. talk[s].on \in Names
    BY OpenOnes DEF CInv
  <2>3. PointOf(s, "").page = ""
    BY DEF PointOf
  <2> QED BY <2>1, <2>2, <2>3, ReachAssumption DEF Sound
<1> QED BY <1>1, InitAtPoints, NextKeepsPoints, PTL DEF Spec

\* An answer reaches the script whose page it answers, or nobody, although the
\* server does not know the page: only a stuck NPC gets one meant for a quest.
THEOREM AnswersReachTheirAsker == Spec => []AnswerReachesAsker
<1>1. CInv => AnswerReachesAsker
  <2> SUFFICES ASSUME CInv, page # "", Open(Listener)
               PROVE  \/ talk[Listener].on = asker
                      \/ talk["quest"].on = Nobody /\ Stuck(talk["npc"].on)
    BY DEF AnswerReachesAsker, Open
  <2>1. CASE Open("quest")
    BY <2>1 DEF Listener, Open, CInv, QuestAtPoint
  <2>2. CASE ~Open("quest")
    BY <2>2 DEF Listener, Open, CInv, NpcAtPoint
  <2> QED BY <2>1, <2>2
<1> QED BY <1>1, InitAtPoints, NextKeepsPoints, PTL DEF Spec

\* If the scripts by themselves are careful, a call that fails half way has given
\* and taken nothing, in whatever mixture of conversations it was made.
THEOREM FailuresAreClean ==
  ASSUME Careful
  PROVE  Spec => []AllOrNothing
<1> DEFINE Inv == CInv /\ AllOrNothing
<1>1. Init => Inv
  BY InitAtPoints, NoCallBy DEF Init, AllOrNothing
<1>2. Inv /\ [Next]_vars => Inv'
  <2> SUFFICES ASSUME Inv, [Next]_vars PROVE AllOrNothing'
    BY NextKeepsPoints
  <2>1. ASSUME NEW who \in Names, NEW k \in CallsOf(who), NEW o, Called(who, k, o)
        PROVE  AllOrNothing'
    BY <2>1 DEF Careful, Called, AllOrNothing
  <2>2. CASE ClickNpc \/ OpenQuest
    BY <2>1, <2>2, OpenKeeps
  <2>3. ASSUME NEW answer \in Answers, Answer(answer) PROVE AllOrNothing'
    BY <2>1, <2>3, AnswerKeeps, NamesApart
  <2>4. CASE call' = NoCall
    BY <2>4, NoCallBy DEF AllOrNothing
  <2>5. CASE UNCHANGED vars
    BY <2>5 DEF vars, AllOrNothing
  <2> QED BY <2>2, <2>3, <2>4, <2>5
          DEF Next, RefuseQuest, DeclineText, AnswerNobody, ChangeMap, DisposeCommand,
              ClickExpires, CooldownExpires
<1> QED BY <1>1, <1>2, PTL DEF Spec

\* If the scripts by themselves are frugal, no conversation gives the same thing
\* twice, however it is interrupted by another.
THEOREM NothingIsGivenTwice ==
  ASSUME Frugal
  PROVE  Spec => GivenOnce
<1> DEFINE NotAgain(s) == talk[s].on = call'.who /\ call'.who \notin Repeating
                        => Gains(call'.ran) \cap gained[s] = {}
<1>1. CInv /\ [Next]_vars => [\A s \in Slots : NotAgain(s)]_vars
  <2> SUFFICES ASSUME CInv, Next, NEW s \in Slots, talk[s].on = call'.who,
                      call'.who \notin Repeating
               PROVE  Gains(call'.ran) \cap gained[s] = {}
    OBVIOUS
  <2>1. CASE ClickNpc \/ OpenQuest
    BY <2>1, OpenKeeps DEF Called
  <2>2. ASSUME NEW answer \in Answers, Answer(answer)
        PROVE  Gains(call'.ran) \cap gained[s] = {}
    <3>0. PICK k \in CallsOf(talk[Listener].on) :
            \E o : k.gains = gained[Listener] /\ Called(talk[Listener].on, k, o)
      BY <2>2, AnswerKeeps
    <3>1. PICK o : k.gains = gained[Listener] /\ Called(talk[Listener].on, k, o)
      BY <3>0
    <3>2. Listener \in Slots /\ talk[Listener].on \in NamesOf(Listener)
      BY <2>2, AnswerKeeps
    <3>3. call'.who = talk[Listener].on /\ call'.ran = o.ran /\ o \in ComesOf(call'.who, k)
      BY <3>1 DEF Called
    <3>4. s = Listener
      <4>1. talk[s].on \in Names /\ talk[s].on = talk[Listener].on
        BY <3>2, <3>3, NamesApart
      <4>2. talk[s].on \in NamesOf(s)
        BY <4>1, OpenOnes, NamesApart DEF CInv, Open
      <4> QED BY <3>2, <4>1, <4>2, NamesApart
    <3>5. call'.who \in Names
      BY <3>2, <3>3, NamesApart
    <3> QED BY <3>1, <3>3, <3>4, <3>5 DEF Frugal
  <2>3. CASE call' = NoCall
    BY <2>3, NoCallBy DEF Gains
  <2> QED BY <2>1, <2>2, <2>3
          DEF Next, RefuseQuest, DeclineText, AnswerNobody, ChangeMap, DisposeCommand,
              ClickExpires, CooldownExpires
<1> QED BY <1>1, InitAtPoints, NextKeepsPoints, PTL DEF Spec, GivenOnce
=============================================================================
